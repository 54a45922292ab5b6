------------------------- MODULE TransferBatch_proofs -------------------------
(* What holds of every upload and download, for any number of actions, files  *)
(* and folders: the counters of the metadata are sizes of sets of transfers,  *)
(* and from that follow the end of the scan and the one notification.         *)
EXTENDS TransferBatch, TLAPS, FiniteSetTheorems

-----------------------------------------------------------------------------
(* The inductive invariant. The counters are those of the sets below while    *)
(* the metadata are there and the action was not cancelled: a folder that is  *)
(* cancelled after its scan is counted twice (TransferMetaData.cpp:162, 460). *)

Launched(a) == initial[a] # -1
Begun(t) == sdk[t] \notin {"none", "requested"}
OverTops(a) == {t \in Tops(a) : Over(t)}
CountedTops(a) ==
    {t \in Tops(a) : (t \in TopFiles /\ Begun(t)) \/ t \in scanned \/ t \in emptyFolders}
Expected(a) ==
    {f \in FilesOf(a) : (f \in TopFiles /\ Begun(f)) \/ (f \in NestedFiles /\ FolderOf[f] \in scanned)}
Mirror(s) == IF s \in {"none", "requested"} THEN "absent"
             ELSE IF s = "started" THEN "pending" ELSE s

(* The SDK's promises, and that nothing happens before an action is launched. *)
SdkInv ==
    /\ \A f \in NestedFiles :
        /\ sdk[f] # "requested"
        /\ sdk[f] # "none" => Begun(FolderOf[f])
        /\ sdk[f] = "started" => sdk[FolderOf[f]] = "started"
    /\ \A d \in scanned : Begun(d) /\ Inside(d) # {}
    /\ \A t \in Transfers : ~Launched(Owner(t)) => sdk[t] = "none"

PhaseInv ==
    /\ \A a \in Actions : Launched(a) => initial[a] = Cardinality(Tops(a)) /\ Tops(a) # {}
    /\ \A a \in Actions : ~Launched(a) =>
        started[a] = 0 /\ finished[a] = 0 /\ total[a] = 0 /\ ~processCancelled[a]
    /\ \A a \in Actions : Launched(a) /\ a \notin appData => AllOver(a)
    /\ \A a \in appData : Tops(a) # {}
    /\ batch # NoAction => Launched(batch)
    /\ requesting # NoAction => batch = requesting

(* The lists of the metadata mirror what the SDK has done.                    *)
FilesInv ==
    /\ \A f \in Files : mFiles[f] = Mirror(sdk[f])
    /\ \A d \in emptyFolders : Over(d) /\ \A f \in Inside(d) : sdk[f] = "none"

CountInv ==
    /\ \A a \in Actions : finished[a] = Cardinality(OverTops(a))
    /\ \A a \in appData : ~processCancelled[a] =>
        started[a] = Cardinality(CountedTops(a)) /\ total[a] = Cardinality(Expected(a))

CancelInv ==
    /\ \A a \in tokens : Launched(a)
    /\ \A a \in appData \cap tokens : processCancelled[a]
    /\ batchCancelled => batch # NoAction /\ (batch \in tokens \/ replaced)

StageInv ==
    /\ BlockedForABatch
    /\ minimumTime => shots > 0
    /\ cancelTimer => ui # "normal"
    /\ scanning /\ (scanTimer \/ requesting # NoAction) => replaced

IsIn(calls, c) == \E i \in 1..Len(calls) : calls[i] = c
Once(calls, c) == \A i, j \in 1..Len(calls) : calls[i] = c /\ calls[j] = c => i = j

(* ScanIsComplete and EndIsReportedOnce, action by action.                    *)
Complete(a) ==
    \A f \in FilesOf(a) : mFiles[f] # "absent" \/ (f \in NestedFiles /\ Over(FolderOf[f]))
ScanInv ==
    \A a \in Actions : IsIn(queued, scanFinished(a)) /\ ~processCancelled[a] => Complete(a)

Reported(a) ==
    LET announced == IsIn(queued, notify(a))
    IN  /\ initial[a] > 0 /\ AllOver(a) => notified[a] = 1 \/ announced \/ a \notin appData
        /\ notified[a] <= 1
        /\ notified[a] = 1 => ~announced
        /\ notified[a] = 1 \/ announced => AllOver(a)
        /\ Once(queued, notify(a))
ReportInv == \A a \in Actions : Reported(a)

IInv == SdkInv /\ PhaseInv /\ FilesInv /\ CountInv /\ CancelInv /\ StageInv /\ ScanInv /\ ReportInv

-----------------------------------------------------------------------------
(* Constants                                                                  *)

LEMMA ConstantTypes ==
    /\ \A t \in Transfers : Owner(t) \in Actions
    /\ \A t \in Top : t \notin NestedFiles /\ Owner(t) = ActionOf[t] /\ t \in Tops(Owner(t))
    /\ \A f \in NestedFiles : /\ FolderOf[f] \in Folders /\ f \in Inside(FolderOf[f])
                              /\ Owner(f) = Owner(FolderOf[f]) /\ f \notin Top
    /\ \A f \in TopFiles : f \in Top /\ f \notin Folders /\ f \in Files /\ f \in Transfers
    /\ \A d \in Folders : d \in Top /\ d \notin Files /\ d \in Transfers
    /\ \A f \in NestedFiles : f \in Files /\ f \in Transfers
    /\ Top = Folders \union TopFiles /\ Files = TopFiles \union NestedFiles
BY BatchAssumption DEF Owner, Transfers, Top, Tops, Inside, Files

LEMMA FiniteParts ==
    /\ \A a \in Actions : /\ IsFiniteSet(Tops(a)) /\ Cardinality(Tops(a)) \in Nat
                          /\ IsFiniteSet(FilesOf(a)) /\ Cardinality(FilesOf(a)) \in Nat
    /\ \A d \in Folders : IsFiniteSet(Inside(d)) /\ Cardinality(Inside(d)) \in Nat
<1>1. IsFiniteSet(Top) /\ IsFiniteSet(Files)
  BY BatchAssumption, FS_Union DEF Top, Files
<1>2. \A a \in Actions : Tops(a) \subseteq Top /\ FilesOf(a) \subseteq Files
  BY DEF Tops, FilesOf
<1>3. \A d \in Folders : Inside(d) \subseteq NestedFiles
  BY DEF Inside
<1> QED
  BY <1>1, <1>2, <1>3, BatchAssumption, FS_Subset, FS_CardinalityType

-----------------------------------------------------------------------------
(* Types                                                                      *)

LEMMA CheckScanningType ==
    ASSUME NEW a \in Actions, NEW calls \in Seq(Calls), checkScanningState(a, calls)
    PROVE  /\ queued' \in Seq(Calls)
           /\ queued' = calls \/ (queued' = Append(calls, scanFinished(a)) /\ ScanIsOver(a))
<1>1. scanFinished(a) \in Calls
  BY DEF scanFinished, Calls
<1> QED
  BY <1>1 DEF checkScanningState

LEMMA NotificationType ==
    ASSUME TypeOK, NEW a \in Actions, NEW enabled, NEW changed \in BOOLEAN,
           checkAndSendNotification(a, enabled, changed)
    PROVE  /\ appData' \subseteq Actions
           /\ hasChanged' \in [Actions -> BOOLEAN]
           /\ queued' \in Seq(Calls)
<1>1. notify(a) \in Calls /\ queued \in Seq(Calls)
  BY DEF notify, Calls, TypeOK
<1>2. Append(queued, notify(a)) \in Seq(Calls)
  BY <1>1
<1>3. queued' \in Seq(Calls)
  BY <1>1, <1>2, CheckScanningType DEF checkAndSendNotification
<1>4. appData' \subseteq Actions /\ hasChanged' \in [Actions -> BOOLEAN]
  BY DEF checkAndSendNotification, TypeOK
<1> QED
  BY <1>3, <1>4

LEMMA CountedOn ==
    ASSUME NEW counts \in [Actions -> Nat], NEW a \in Actions, NEW n \in Nat
    PROVE  /\ [counts EXCEPT ![a] = @ + n] \in [Actions -> Nat]
           /\ [counts EXCEPT ![a] = @ + n][a] = counts[a] + n
           /\ \A b \in Actions \ {a} : [counts EXCEPT ![a] = @ + n][b] = counts[b]
OBVIOUS

LEMMA TypeInit == BatchInit => TypeOK
<1> SUFFICES ASSUME BatchInit PROVE TypeOK
  OBVIOUS
<1>1. ScanTypeOK
  BY DEF BatchInit, ScanInit, ScanTypeOK, UiStates
<1>2. /\ sdk \in [Transfers -> SdkStates]
      /\ mFiles \in [Files -> {"absent", "pending"} \union Ends]
  BY DEF BatchInit, SdkStates
<1>3. queued \in Seq(Calls)
  BY DEF BatchInit
<1>4. /\ initial \in [Actions -> Int] /\ started \in [Actions -> Nat]
      /\ finished \in [Actions -> Nat] /\ total \in [Actions -> Nat]
      /\ notified \in [Actions -> Nat]
  BY DEF BatchInit
<1> QED
  BY <1>1, <1>2, <1>3, <1>4 DEF BatchInit, TypeOK

LEMMA TypeStart ==
    ASSUME TypeOK, NEW t \in Transfers, onTransferStart(t)
    PROVE  TypeOK'
<1> DEFINE a == Owner(t)
<1>1. a \in Actions
  BY ConstantTypes
<1>2. sdk' \in [Transfers -> SdkStates]
  BY DEF onTransferStart, TypeOK, SdkStates, Live
<1>3. queued' \in Seq(Calls)
  BY <1>1, CheckScanningType DEF onTransferStart, startInMetaData, TypeOK
<1>4. /\ mFiles' \in [Files -> {"absent", "pending"} \union Ends]
      /\ total' \in [Actions -> Nat] /\ started' \in [Actions -> Nat]
  <2>1. CASE a \in appData /\ t \in Files
    <3>1. mFiles' \in [Files -> {"absent", "pending"} \union Ends]
      BY <2>1 DEF onTransferStart, startInMetaData, TypeOK
    <3> DEFINE one == IF t \in TopFiles THEN 1 ELSE 0
               two == IF t \in TopFiles /\ started[a] <= initial[a] THEN 1 ELSE 0
    <3>2. total' = [total EXCEPT ![a] = @ + one] /\ started' = [started EXCEPT ![a] = @ + two]
      BY <2>1 DEF onTransferStart, startInMetaData
    <3>3. total' \in [Actions -> Nat] /\ started' \in [Actions -> Nat]
      BY <3>2, <1>1, CountedOn DEF TypeOK
    <3> QED
      BY <3>1, <3>3
  <2>2. CASE ~(a \in appData /\ t \in Files)
    BY <2>2 DEF onTransferStart, startInMetaData, TypeOK
  <2> QED
    BY <2>1, <2>2
<1>5. UNCHANGED <<scanned, tokens, appVars, notified, scanVars, initial, processCancelled,
                  appData, finished, emptyFolders, hasChanged>>
  BY DEF onTransferStart, startInMetaData
<1> QED
  BY <1>2, <1>3, <1>4, <1>5 DEF TypeOK, ScanTypeOK, appVars, scanVars

LEMMA TypeFinish ==
    ASSUME TypeOK, NEW t \in Transfers, NEW end \in Ends, NEW enabled \in BOOLEAN,
           onTransferFinish(t, end, enabled)
    PROVE  TypeOK'
<1> DEFINE a == Owner(t)
<1>1. a \in Actions
  BY ConstantTypes
<1>2. sdk' \in [Transfers -> SdkStates]
  BY DEF onTransferFinish, TypeOK, SdkStates
<1>3. /\ appData' \subseteq Actions /\ hasChanged' \in [Actions -> BOOLEAN]
      /\ queued' \in Seq(Calls)
  <2>1. CASE a \in appData
    <3> DEFINE changed == hasChanged[a] \/ (t \in Files /\ mFiles[t] = "pending")
    <3>1. changed \in BOOLEAN
      OBVIOUS
    <3>2. checkAndSendNotification(a, enabled, changed)
      BY <2>1 DEF onTransferFinish, finishInMetaData
    <3> QED
      BY <3>1, <3>2, <1>1, NotificationType
  <2>2. CASE a \notin appData
    BY <2>2 DEF onTransferFinish, finishInMetaData, TypeOK
  <2> QED
    BY <2>1, <2>2
<1>4. /\ mFiles' \in [Files -> {"absent", "pending"} \union Ends]
      /\ emptyFolders' \subseteq Folders
      /\ started' \in [Actions -> Nat] /\ finished' \in [Actions -> Nat]
  <2>1. CASE a \in appData
    <3>1. EndedEmpty(t) => t \in Folders
      BY DEF EndedEmpty
    <3>2. mFiles' \in [Files -> {"absent", "pending"} \union Ends] /\ emptyFolders' \subseteq Folders
      BY <2>1, <3>1 DEF onTransferFinish, finishInMetaData, TypeOK
    <3>3. started' \in [Actions -> Nat] /\ finished' \in [Actions -> Nat]
      <4>1. /\ started \in [Actions -> Nat] /\ finished \in [Actions -> Nat]
            /\ a \in Actions
        BY <1>1 DEF TypeOK
      <4>2. /\ started' = [started EXCEPT ![a] = @ + (IF EndedEmpty(t) THEN 1 ELSE 0)]
            /\ finished' = [finished EXCEPT ![a] =
                  @ + (IF t \in Top /\ @ <= initial[a] THEN 1 ELSE 0)]
        BY <2>1 DEF onTransferFinish, finishInMetaData
      <4> QED
        BY <4>1, <4>2, CountedOn
    <3> QED
      BY <3>2, <3>3
  <2>2. CASE a \notin appData
    BY <2>2 DEF onTransferFinish, finishInMetaData, TypeOK
  <2> QED
    BY <2>1, <2>2
<1>5. UNCHANGED <<scanned, tokens, appVars, notified, scanVars, initial, processCancelled, total>>
  BY DEF onTransferFinish, finishInMetaData
<1> QED
  BY <1>2, <1>3, <1>4, <1>5 DEF TypeOK, ScanTypeOK, appVars, scanVars

LEMMA TypeScanned ==
    ASSUME TypeOK, NEW d \in Folders, onFolderTransferUpdate(d)
    PROVE  TypeOK'
<1> DEFINE a == ActionOf[d]
<1>1. a \in Actions /\ Cardinality(Inside(d)) \in Nat
  BY ConstantTypes, FiniteParts, BatchAssumption
<1>2. queued' \in Seq(Calls)
  BY <1>1, CheckScanningType DEF onFolderTransferUpdate, TypeOK
<1>3. total' \in [Actions -> Nat] /\ started' \in [Actions -> Nat] /\ scanned' \subseteq Folders
  <2>1. scanned' \subseteq Folders
    BY DEF onFolderTransferUpdate, TypeOK
  <2>2. CASE a \in appData
    <3>1. /\ total' = [total EXCEPT ![a] = @ + Cardinality(Inside(d))]
          /\ started' = [started EXCEPT ![a] = @ + 1]
      BY <2>2 DEF onFolderTransferUpdate
    <3> QED
      BY <2>1, <3>1, <1>1, CountedOn DEF TypeOK
  <2>3. CASE a \notin appData
    BY <2>1, <2>3 DEF onFolderTransferUpdate, TypeOK
  <2> QED
    BY <2>2, <2>3
<1>4. UNCHANGED <<sdk, tokens, appData, finished, emptyFolders, hasChanged, appVars,
                  notified, scanVars, initial, processCancelled, mFiles>>
  BY DEF onFolderTransferUpdate
<1> QED
  BY <1>2, <1>3, <1>4 DEF TypeOK, ScanTypeOK, appVars, scanVars

LEMMA StageType ==
    ASSUME ScanTypeOK, stopDelayedScanStage \/ startDelayedScanStage \/ Timers \/ UNCHANGED scanVars
           \/ setDelayedCancellingStage
    PROVE  ScanTypeOK'
<1> USE DEF ScanTypeOK, UiStates
<1>1. CASE stopDelayedScanStage
  BY <1>1 DEF stopDelayedScanStage, setUiInNormalStage
<1>2. CASE startDelayedScanStage \/ setDelayedCancellingStage \/ UNCHANGED scanVars
  BY <1>2 DEF startDelayedScanStage, setDelayedCancellingStage, scanVars
<1>3. CASE startScanStage
  <2>1. shots' \in Nat
    BY <1>3 DEF startScanStage
  <2> QED
    BY <1>3, <2>1 DEF startScanStage
<1>4. CASE onMinimumDisplayTimeElapsed
  <2>1. shots' \in Nat
    BY <1>4 DEF onMinimumDisplayTimeElapsed
  <2> QED
    BY <1>4, <2>1 DEF onMinimumDisplayTimeElapsed, setUiInNormalStage
<1>5. CASE setUiInCancellingStage
  BY <1>5 DEF setUiInCancellingStage
<1> QED
  BY <1>1, <1>2, <1>3, <1>4, <1>5 DEF Timers

LEMMA TypeLaunch ==
    ASSUME TypeOK, NEW a \in Actions,
           onUploadsCheckedAndReady(a) \/ launchDownload(a) \/ downloadAtOnce(a)
           \/ createTransferMetaData(a) \/ forgetDownload(a)
    PROVE  TypeOK'
<1> DEFINE nr == Cardinality(Tops(a))
<1>1. nr \in Nat
  BY FiniteParts
<1>2. CASE launch(a, nr) /\ appData' \in {appData, appData \union {a}} /\ requesting' = a
           /\ noUploadedStarted' \in {TRUE, noUploadedStarted}
           /\ mNoTransferStarted' \in {TRUE, mNoTransferStarted}
  <2>1. initial' \in [Actions -> Int]
    BY <1>1, <1>2 DEF launch, TypeOK
  <2>2. replaced' \in BOOLEAN /\ noUploadedStarted' \in BOOLEAN /\ mNoTransferStarted' \in BOOLEAN
    BY <1>2 DEF launch, TypeOK
  <2>3. appData' \subseteq Actions /\ batch' \in Actions /\ requesting' \in Actions
    BY <1>2 DEF launch, TypeOK
  <2>4. UNCHANGED <<sdk, scanned, tokens, started, finished, total, processCancelled, mFiles,
                    emptyFolders, hasChanged, batchCancelled, queued, notified, scanVars>>
    BY <1>2 DEF launch
  <2> QED
    BY <2>1, <2>2, <2>3, <2>4 DEF TypeOK, ScanTypeOK, scanVars
<1>3. CASE createTransferMetaData(a)
  BY <1>3 DEF createTransferMetaData, TypeOK, ScanTypeOK, scanVars
<1>4. CASE forgetDownload(a)
  BY <1>4 DEF forgetDownload, TypeOK, ScanTypeOK, scanVars, appVars
<1> QED
  BY <1>2, <1>3, <1>4 DEF onUploadsCheckedAndReady, launchDownload, downloadAtOnce

LEMMA TypeRequest ==
    ASSUME TypeOK, NEW t \in Top, upload(t) \/ download(t)
    PROVE  TypeOK'
<1>1. t \in Transfers
  BY DEF Transfers
<1>2. sdk' \in [Transfers -> SdkStates] /\ requesting' \in Actions \union {NoAction}
  BY <1>1 DEF upload, download, Requested, TypeOK, SdkStates, Live
<1>3. noUploadedStarted' \in BOOLEAN /\ mNoTransferStarted' \in BOOLEAN /\ ScanTypeOK'
  BY StageType DEF upload, download, TypeOK
<1>4. UNCHANGED <<scanned, tokens, metaVars, batch, batchCancelled, replaced, queued, notified>>
  BY DEF upload, download
<1> QED
  BY <1>2, <1>3, <1>4 DEF TypeOK, metaVars

LEMMA TypeQueued ==
    ASSUME TypeOK, handleQueued
    PROVE  TypeOK'
<1> DEFINE call == Head(queued)
<1>1. call \in Calls /\ queued' \in Seq(Calls)
  BY DEF handleQueued, TypeOK
<1>2. call.id \in Actions
  BY <1>1 DEF Calls
<1>3. ScanTypeOK' /\ batch' \in Actions \union {NoAction} /\ batchCancelled' \in BOOLEAN
  BY StageType DEF handleQueued, transferBatchFinished, TypeOK
<1>4. notified' \in [Actions -> Nat]
  <2>1. notified \in [Actions -> Nat]
    BY DEF TypeOK
  <2>2. \/ UNCHANGED notified
        \/ notified' = [notified EXCEPT ![call.id] = @ + (IF call.id \in appData THEN 1 ELSE 0)]
    BY DEF handleQueued
  <2> QED
    BY <1>2, <2>1, <2>2
<1>5. UNCHANGED <<sdk, scanned, tokens, metaVars, requesting, noUploadedStarted,
                   mNoTransferStarted, replaced>>
  BY DEF handleQueued
<1> QED
  BY <1>1, <1>3, <1>4, <1>5 DEF TypeOK, metaVars

LEMMA TypeCancel ==
    ASSUME TypeOK, cancelScanning
    PROVE  TypeOK'
<1>1. ScanTypeOK'
  BY StageType DEF cancelScanning, TypeOK
<1>2. queued' \in Seq(Calls)
  <2>1. batch # NoAction => batch \in Actions
    BY DEF TypeOK
  <2> QED
    BY <2>1, CheckScanningType DEF cancelScanning, TypeOK
<1>3. /\ tokens' \subseteq Actions /\ batchCancelled' \in BOOLEAN
      /\ processCancelled' \in [Actions -> BOOLEAN]
      /\ UNCHANGED <<initial, started, total, mFiles>>
  BY DEF cancelScanning, TypeOK
<1>4. UNCHANGED <<sdk, scanned, appData, finished, emptyFolders, hasChanged, batch, requesting,
                  noUploadedStarted, mNoTransferStarted, notified, replaced>>
  BY DEF cancelScanning
<1> QED
  BY <1>1, <1>2, <1>3, <1>4 DEF TypeOK

(* Every variable keeps its type, whatever the parties do.                    *)
LEMMA TypeStep == TypeOK /\ [BatchNext]_batchVars => TypeOK'
<1> SUFFICES ASSUME TypeOK, [BatchNext]_batchVars PROVE TypeOK'
  OBVIOUS
<1>1. CASE SdkNext
  BY <1>1, TypeStart, TypeFinish DEF SdkNext
<1>2. CASE GuiNext
  <2>1. CASE timeout
    BY <2>1, StageType DEF timeout, TypeOK, metaVars, appVars
  <2> QED
    BY <1>2, <2>1, TypeScanned, TypeLaunch, TypeRequest, TypeQueued, TypeCancel DEF GuiNext
<1>3. CASE DownloadNext
  BY <1>3, TypeLaunch DEF DownloadNext
<1>4. CASE UNCHANGED batchVars
  BY <1>4 DEF batchVars, metaVars, appVars, scanVars, TypeOK, ScanTypeOK
<1> QED
  BY <1>1, <1>2, <1>3, <1>4 DEF BatchNext

(* Every variable keeps its type: no counter of the metadata is ever taken    *)
(* below zero, and only calls of the two kinds are queued.                    *)
THEOREM TypeInvariant == BatchSpec => []TypeOK
BY TypeInit, TypeStep, PTL DEF BatchSpec

-----------------------------------------------------------------------------
(* Sizes and queues                                                           *)

LEMMA Grown ==
    ASSUME NEW S, NEW x, IsFiniteSet(S), x \notin S
    PROVE  Cardinality(S \union {x}) = Cardinality(S) + 1
BY FS_AddElement

LEMMA Joined ==
    ASSUME NEW S, NEW T, IsFiniteSet(S), IsFiniteSet(T), S \cap T = {}
    PROVE  Cardinality(S \union T) = Cardinality(S) + Cardinality(T)
<1>1. Cardinality(S \union T) = Cardinality(S) + Cardinality(T) - Cardinality(S \cap T)
  BY FS_Union
<1>2. Cardinality(S \cap T) = 0 /\ Cardinality(S) \in Nat /\ Cardinality(T) \in Nat
  BY FS_EmptySet, FS_CardinalityType
<1> QED
  BY <1>1, <1>2

(* The sets that the counters count are parts of finite sets.                 *)
LEMMA PartSizes ==
    ASSUME NEW S, NEW T, IsFiniteSet(S), T \subseteq S
    PROVE  /\ IsFiniteSet(T) /\ Cardinality(T) \in Nat /\ Cardinality(S) \in Nat
           /\ Cardinality(T) <= Cardinality(S)
           /\ Cardinality(T) = Cardinality(S) => T = S
<1>1. T \in SUBSET S
  OBVIOUS
<1> QED
  BY <1>1, FS_Subset, FS_CardinalityType

LEMMA AppendedCalls ==
    ASSUME NEW calls \in Seq(Calls), NEW c \in Calls, NEW x
    PROVE  /\ Append(calls, c) \in Seq(Calls)
           /\ IsIn(Append(calls, c), x) <=> IsIn(calls, x) \/ x = c
           /\ Once(calls, x) /\ ~(x = c /\ IsIn(calls, x)) => Once(Append(calls, c), x)
<1> DEFINE longer == Append(calls, c)
           n == Len(calls)
<1>1. /\ n \in Nat /\ longer \in Seq(Calls) /\ Len(longer) = n + 1
      /\ \A i \in 1..n : longer[i] = calls[i]
      /\ longer[n + 1] = c
  OBVIOUS
<1>2. \A i \in 1..(n + 1) : i \in 1..n \/ i = n + 1
  BY <1>1
<1>3. IsIn(longer, x) <=> IsIn(calls, x) \/ x = c
  <2>1. ASSUME IsIn(calls, x) PROVE IsIn(longer, x)
    <3>1. PICK i \in 1..n : calls[i] = x
      BY <2>1 DEF IsIn
    <3>2. i \in 1..(n + 1) /\ longer[i] = x
      BY <3>1, <1>1
    <3> QED
      BY <3>2, <1>1 DEF IsIn
  <2>2. ASSUME x = c PROVE IsIn(longer, x)
    <3>1. n + 1 \in 1..Len(longer) /\ longer[n + 1] = x
      BY <2>2, <1>1
    <3> QED
      BY <3>1 DEF IsIn
  <2>3. ASSUME IsIn(longer, x) PROVE IsIn(calls, x) \/ x = c
    BY <2>3, <1>1, <1>2 DEF IsIn
  <2> QED
    BY <2>1, <2>2, <2>3
<1>4. ASSUME Once(calls, x), ~(x = c /\ IsIn(calls, x)) PROVE Once(longer, x)
  BY <1>4, <1>1, <1>2 DEF Once, IsIn
<1> QED
  BY <1>1, <1>3, <1>4

LEMMA PerhapsAppended ==
    ASSUME NEW calls \in Seq(Calls), NEW c \in Calls, NEW more, NEW x,
           more = calls \/ more = Append(calls, c)
    PROVE  /\ more \in Seq(Calls)
           /\ IsIn(more, x) <=> IsIn(calls, x) \/ (x = c /\ more # calls)
           /\ Once(calls, x) /\ ~(x = c /\ IsIn(calls, x)) => Once(more, x)
<1>1. Append(calls, c) # calls
  <2>1. Len(Append(calls, c)) = Len(calls) + 1 /\ Len(calls) \in Nat
    OBVIOUS
  <2> QED
    BY <2>1
<1>2. CASE more = calls
  BY <1>2
<1>3. CASE more = Append(calls, c)
  BY <1>1, <1>3, AppendedCalls
<1> QED
  BY <1>2, <1>3

LEMMA HandledCall ==
    ASSUME NEW calls \in Seq(Calls), calls # <<>>, NEW x
    PROVE  /\ Head(calls) \in Calls /\ Tail(calls) \in Seq(Calls)
           /\ IsIn(calls, Head(calls))
           /\ IsIn(Tail(calls), x) => IsIn(calls, x)
           /\ IsIn(calls, x) /\ x # Head(calls) => IsIn(Tail(calls), x)
           /\ Once(calls, x) => Once(Tail(calls), x)
           /\ Once(calls, x) /\ x = Head(calls) => ~IsIn(Tail(calls), x)
<1> DEFINE rest == Tail(calls)
           n == Len(calls)
<1>1. /\ n \in Nat \ {0} /\ rest \in Seq(Calls) /\ Len(rest) = n - 1
      /\ Head(calls) = calls[1] /\ Head(calls) \in Calls
      /\ \A i \in 1..(n - 1) : rest[i] = calls[i + 1]
  OBVIOUS
<1>2. \A i \in 1..(n - 1) : i + 1 \in 1..n /\ i + 1 # 1
  BY <1>1
<1>3. \A i \in 1..n : i = 1 \/ (i - 1 \in 1..(n - 1) /\ rest[i - 1] = calls[i])
  BY <1>1
<1>4. IsIn(calls, Head(calls))
  BY <1>1 DEF IsIn
<1>5. IsIn(rest, x) => IsIn(calls, x)
  BY <1>1, <1>2 DEF IsIn
<1>6. IsIn(calls, x) /\ x # Head(calls) => IsIn(rest, x)
  BY <1>1, <1>3 DEF IsIn
<1>7. ASSUME Once(calls, x) PROVE Once(rest, x)
  <2> SUFFICES ASSUME NEW i \in 1..Len(rest), NEW j \in 1..Len(rest), rest[i] = x, rest[j] = x
               PROVE  i = j
    BY DEF Once
  <2>1. i + 1 \in 1..n /\ j + 1 \in 1..n /\ calls[i + 1] = x /\ calls[j + 1] = x
    BY <1>1, <1>2
  <2>2. i + 1 = j + 1
    BY <1>7, <2>1 DEF Once
  <2> QED
    BY <2>2
<1>8. ASSUME Once(calls, x), x = Head(calls) PROVE ~IsIn(rest, x)
  <2> SUFFICES ASSUME NEW i \in 1..Len(rest), rest[i] = x PROVE FALSE
    BY DEF IsIn
  <2>1. i + 1 \in 1..n /\ i + 1 # 1 /\ calls[i + 1] = x /\ calls[1] = x /\ 1 \in 1..n
    BY <1>1, <1>2, <1>8
  <2> QED
    BY <1>8, <2>1 DEF Once
<1> QED
  BY <1>1, <1>4, <1>5, <1>6, <1>7, <1>8

-----------------------------------------------------------------------------
(* What the handlers do where the invariant holds                             *)

LEMMA LiveFacts ==
    ASSUME TypeOK, SdkInv, PhaseInv, NEW t \in Transfers,
           sdk[t] \in Live \/ (t \in NestedFiles /\ sdk[FolderOf[t]] = "started")
    PROVE  /\ Owner(t) \in appData /\ Owner(t) \in Actions /\ Launched(Owner(t)) /\ ~AllOver(Owner(t))
           /\ initial[Owner(t)] = Cardinality(Tops(Owner(t)))
           /\ t \in NestedFiles => sdk[t] # "requested" /\ sdk[FolderOf[t]] = "started"
<1> DEFINE a == Owner(t)
<1>1. a \in Actions
  BY ConstantTypes
<1>2. CASE t \in Top
  <2>1. sdk[t] \in Live /\ t \in Tops(a) /\ t \notin NestedFiles
    BY <1>2, ConstantTypes
  <2>2. Launched(a) /\ ~AllOver(a)
    BY <2>1 DEF SdkInv, Live, AllOver, Over, Ends
  <2> QED
    BY <1>1, <2>1, <2>2 DEF PhaseInv
<1>3. CASE t \in NestedFiles
  <2>1. /\ FolderOf[t] \in Tops(a) /\ FolderOf[t] \in Transfers /\ a = Owner(FolderOf[t])
        /\ t \notin Top
    BY <1>3, ConstantTypes
  <2>2. sdk[FolderOf[t]] = "started" /\ sdk[t] # "requested"
    BY <1>3 DEF SdkInv, Live
  <2>3. Launched(a) /\ ~AllOver(a)
    BY <2>1, <2>2 DEF SdkInv, AllOver, Over, Ends
  <2> QED
    BY <1>1, <2>1, <2>2, <2>3 DEF PhaseInv
<1> QED
  BY <1>2, <1>3 DEF Transfers, Top

(* What the counters count are parts of what was asked for.                   *)
LEMMA CountFacts ==
    ASSUME NEW a \in Actions
    PROVE  /\ OverTops(a) \subseteq Tops(a) /\ CountedTops(a) \subseteq Tops(a)
           /\ Expected(a) \subseteq FilesOf(a)
           /\ IsFiniteSet(OverTops(a)) /\ IsFiniteSet(CountedTops(a)) /\ IsFiniteSet(Expected(a))
           /\ Cardinality(OverTops(a)) \in Nat /\ Cardinality(OverTops(a)) <= Cardinality(Tops(a))
           /\ Cardinality(CountedTops(a)) \in Nat
           /\ Cardinality(CountedTops(a)) <= Cardinality(Tops(a))
           /\ Cardinality(Expected(a)) \in Nat
<1>1. /\ OverTops(a) \subseteq Tops(a) /\ CountedTops(a) \subseteq Tops(a)
      /\ Expected(a) \subseteq FilesOf(a)
  BY DEF OverTops, CountedTops, Expected
<1> QED
  BY <1>1, FiniteParts, PartSizes

LEMMA StartEffect ==
    ASSUME TypeOK, IInv, NEW t \in Transfers, onTransferStart(t)
    PROVE  LET a == Owner(t)
           IN  /\ a \in appData /\ a \in Actions /\ Launched(a) /\ ~AllOver(a)
               /\ sdk' = [sdk EXCEPT ![t] = "started"]
               /\ sdk[t] \in {"none", "requested"}
               /\ t \in NestedFiles => sdk[t] = "none" /\ sdk[FolderOf[t]] = "started"
               /\ t \notin NestedFiles => sdk[t] = "requested"
               /\ mFiles' = IF t \in Files THEN [mFiles EXCEPT ![t] = "pending"] ELSE mFiles
               /\ t \notin TopFiles => UNCHANGED <<total, started>>
               /\ \A b \in Actions \ {a} : total'[b] = total[b] /\ started'[b] = started[b]
               /\ t \in TopFiles /\ ~processCancelled[a] =>
                    total'[a] = total[a] + 1 /\ started'[a] = started[a] + 1
               /\ queued' = queued \/ (queued' = Append(queued, scanFinished(a)) /\ ScanIsOver(a))
               /\ UNCHANGED <<scanned, tokens, appVars, notified, scanVars, initial,
                              processCancelled, appData, finished, emptyFolders, hasChanged>>
<1> DEFINE a == Owner(t)
           one == IF t \in TopFiles THEN 1 ELSE 0
           two == IF t \in TopFiles /\ started[a] <= initial[a] THEN 1 ELSE 0
<1>1. /\ sdk' = [sdk EXCEPT ![t] = "started"]
      /\ sdk[t] \in {"none", "requested"}
      /\ t \in NestedFiles => sdk[t] = "none" /\ sdk[FolderOf[t]] = "started"
      /\ t \notin NestedFiles => sdk[t] = "requested"
  BY DEF onTransferStart
<1>2. /\ a \in appData /\ a \in Actions /\ Launched(a) /\ ~AllOver(a)
      /\ initial[a] = Cardinality(Tops(a))
  BY <1>1, LiveFacts DEF IInv, Live
<1>3. /\ UNCHANGED <<scanned, tokens, appVars, notified, scanVars, initial,
                     processCancelled, appData, finished, emptyFolders, hasChanged>>
      /\ mFiles' = IF t \in Files THEN [mFiles EXCEPT ![t] = "pending"] ELSE mFiles
  BY <1>2 DEF onTransferStart, startInMetaData
<1>4. CASE t \in Files
  <2>1. /\ total' = [total EXCEPT ![a] = @ + one] /\ started' = [started EXCEPT ![a] = @ + two]
        /\ checkScanningState(a, queued)
    BY <1>2, <1>4 DEF onTransferStart, startInMetaData
  <2>2. queued' = queued \/ (queued' = Append(queued, scanFinished(a)) /\ ScanIsOver(a))
    BY <2>1 DEF checkScanningState
  <2>3. \A b \in Actions \ {a} : total'[b] = total[b] /\ started'[b] = started[b]
    BY <2>1 DEF TypeOK
  <2>4. t \notin TopFiles => UNCHANGED <<total, started>>
    <3>1. ASSUME t \notin TopFiles PROVE total' = total
      BY <2>1, <3>1, <1>2 DEF TypeOK
    <3>2. ASSUME t \notin TopFiles PROVE started' = started
      BY <2>1, <3>2, <1>2 DEF TypeOK
    <3> QED
      BY <3>1, <3>2
  <2>5. t \in TopFiles /\ ~processCancelled[a] =>
          total'[a] = total[a] + 1 /\ started'[a] = started[a] + 1
    <3> SUFFICES ASSUME t \in TopFiles, ~processCancelled[a]
                 PROVE  total'[a] = total[a] + 1 /\ started'[a] = started[a] + 1
      OBVIOUS
    <3>1. started[a] <= initial[a]
      BY <1>2, CountFacts DEF IInv, CountInv
    <3>2. total'[a] = total[a] + 1
      BY <2>1, <1>2 DEF TypeOK
    <3>3. two = 1
      BY <3>1
    <3>4. started'[a] = started[a] + 1
      BY <2>1, <3>3, <1>2 DEF TypeOK
    <3> QED
      BY <3>2, <3>4
  <2> QED
    BY <1>1, <1>2, <1>3, <2>2, <2>3, <2>4, <2>5
<1>5. CASE t \notin Files
  <2>1. UNCHANGED <<total, started, queued>> /\ t \notin TopFiles
    BY <1>5, ConstantTypes DEF onTransferStart, startInMetaData
  <2> QED
    BY <1>1, <1>2, <1>3, <2>1
<1> QED
  BY <1>4, <1>5

(* The same for the end of a transfer. Whether the metadata are left, and     *)
(* what is queued, depends on whether all is finished.                        *)
LEMMA FinishEffect ==
    ASSUME TypeOK, IInv, NEW t \in Transfers, NEW end \in Ends, NEW enabled \in BOOLEAN,
           onTransferFinish(t, end, enabled)
    PROVE  LET a == Owner(t)
           IN  /\ a \in appData /\ a \in Actions /\ Launched(a) /\ ~AllOver(a)
               /\ sdk' = [sdk EXCEPT ![t] = end]
               /\ sdk[t] = "started" /\ CanEnd(t, end)
               /\ t \in NestedFiles => sdk[FolderOf[t]] = "started"
               /\ mFiles' = IF t \in Files THEN [mFiles EXCEPT ![t] = end] ELSE mFiles
               /\ emptyFolders' = IF EndedEmpty(t) THEN emptyFolders \union {t} ELSE emptyFolders
               /\ ~EndedEmpty(t) => UNCHANGED started
               /\ EndedEmpty(t) => started'[a] = started[a] + 1
               /\ t \notin Top => UNCHANGED finished
               /\ t \in Top => finished'[a] = finished[a] + 1
               /\ \A b \in Actions \ {a} : finished'[b] = finished[b] /\ started'[b] = started[b]
               /\ \E calls \in {queued, Append(queued, notify(a))} :
                    /\ queued' = calls \/ (queued' = Append(calls, scanFinished(a)) /\ ScanIsOver(a))
                    /\ calls # queued \/ appData' # appData => AllFinished(a)
                    /\ AllFinished(a) => calls # queued \/ a \notin appData'
               /\ appData' \in {appData, appData \ {a}}
               /\ UNCHANGED <<scanned, tokens, appVars, notified, scanVars, initial, total,
                              processCancelled>>
<1> DEFINE a == Owner(t)
           one == IF EndedEmpty(t) THEN 1 ELSE 0
           two == IF t \in Top /\ finished[a] <= initial[a] THEN 1 ELSE 0
           changed == hasChanged[a] \/ (t \in Files /\ mFiles[t] = "pending")
<1>1. sdk' = [sdk EXCEPT ![t] = end] /\ sdk[t] = "started" /\ CanEnd(t, end)
  BY DEF onTransferFinish, CanEnd
<1>2. /\ a \in appData /\ a \in Actions /\ Launched(a) /\ ~AllOver(a)
      /\ initial[a] = Cardinality(Tops(a))
      /\ t \in NestedFiles => sdk[FolderOf[t]] = "started"
  BY <1>1, LiveFacts DEF IInv, Live
<1>3. /\ mFiles' = IF t \in Files /\ mFiles[t] = "pending"
                     THEN [mFiles EXCEPT ![t] = end] ELSE mFiles
      /\ emptyFolders' = IF EndedEmpty(t) THEN emptyFolders \union {t} ELSE emptyFolders
      /\ started' = [started EXCEPT ![a] = @ + one]
      /\ finished' = [finished EXCEPT ![a] = @ + two]
      /\ UNCHANGED <<scanned, tokens, appVars, notified, scanVars, initial, total, processCancelled>>
      /\ checkAndSendNotification(a, enabled, changed)
  BY <1>2 DEF onTransferFinish, finishInMetaData
<1>4. t \in Files => mFiles[t] = "pending"
  BY <1>1 DEF IInv, FilesInv, Mirror
<1>5. started' = IF EndedEmpty(t) THEN [started EXCEPT ![a] = @ + 1] ELSE started
  <2>1. CASE EndedEmpty(t)
    BY <2>1, <1>3
  <2>2. CASE ~EndedEmpty(t)
    BY <2>2, <1>2, <1>3 DEF TypeOK
  <2> QED
    BY <2>1, <2>2
<1>6. finished' = IF t \in Top THEN [finished EXCEPT ![a] = @ + 1] ELSE finished
  <2>1. CASE t \in Top
    <3>1. finished[a] <= initial[a]
      BY <1>2, CountFacts DEF IInv, CountInv
    <3>2. two = 1
      BY <2>1, <3>1
    <3> QED
      BY <2>1, <3>2, <1>3
  <2>2. CASE t \notin Top
    <3>1. two = 0
      BY <2>2
    <3> QED
      BY <2>2, <3>1, <1>2, <1>3 DEF TypeOK
  <2> QED
    BY <2>1, <2>2
<1>7. /\ EndedEmpty(t) => started'[a] = started[a] + 1
      /\ t \in Top => finished'[a] = finished[a] + 1
      /\ \A b \in Actions \ {a} : finished'[b] = finished[b] /\ started'[b] = started[b]
  BY <1>2, <1>5, <1>6 DEF TypeOK
<1>8. appData' \in {appData, appData \ {a}}
  BY <1>3 DEF checkAndSendNotification
<1>9. \E calls \in {queued, Append(queued, notify(a))} :
        /\ queued' = calls \/ (queued' = Append(calls, scanFinished(a)) /\ ScanIsOver(a))
        /\ calls # queued \/ appData' # appData => AllFinished(a)
        /\ AllFinished(a) => calls # queued \/ a \notin appData'
  <2> DEFINE more == Append(queued, notify(a))
  <2>1. more # queued
    <3>1. queued \in Seq(Calls) /\ notify(a) \in Calls
      BY <1>2 DEF TypeOK, notify, Calls
    <3>2. Len(more) = Len(queued) + 1 /\ Len(queued) \in Nat
      BY <3>1
    <3> QED
      BY <3>2
  <2>2. CASE ~AllFinished(a)
    BY <2>2, <1>3 DEF checkAndSendNotification, checkScanningState
  <2>3. CASE AllFinished(a) /\ enabled /\ WorthTelling(a, changed)
    BY <2>1, <2>3, <1>3 DEF checkAndSendNotification, checkScanningState
  <2>4. CASE AllFinished(a) /\ ~(enabled /\ WorthTelling(a, changed))
    BY <2>4, <1>3 DEF checkAndSendNotification, checkScanningState
  <2> QED
    BY <2>2, <2>3, <2>4
<1> HIDE DEF one, two
<1> QED
  BY <1>1, <1>2, <1>3, <1>4, <1>5, <1>6, <1>7, <1>8, <1>9

LEMMA ScannedEffect ==
    ASSUME TypeOK, IInv, NEW d \in Folders, onFolderTransferUpdate(d)
    PROVE  LET a == ActionOf[d]
           IN  /\ a \in Actions /\ d \in Tops(a)
               /\ Inside(d) # {} /\ d \notin scanned /\ Begun(d)
               /\ d \notin emptyFolders
               /\ scanned' = scanned \union {d}
               /\ a \in appData => /\ total'[a] = total[a] + Cardinality(Inside(d))
                                   /\ started'[a] = started[a] + 1
               /\ a \notin appData => UNCHANGED <<total, started>>
               /\ \A b \in Actions \ {a} : total'[b] = total[b] /\ started'[b] = started[b]
               /\ \/ queued' = queued
                  \/ /\ a \in appData
                     /\ queued' = Append(queued, scanFinished(a)) /\ ScanIsOver(a)
               /\ UNCHANGED <<sdk, tokens, appData, finished, emptyFolders, hasChanged, appVars,
                              notified, scanVars, initial, processCancelled, mFiles>>
<1> DEFINE a == ActionOf[d]
<1>1. a \in Actions /\ d \in Tops(a) /\ d \in Transfers
  BY ConstantTypes, BatchAssumption
<1>2. /\ Inside(d) # {} /\ d \notin scanned /\ scanned' = scanned \union {d}
      /\ UNCHANGED <<sdk, tokens, appData, finished, emptyFolders, hasChanged, appVars,
                     notified, scanVars, initial, processCancelled, mFiles>>
  BY DEF onFolderTransferUpdate, WasScanned
<1>3. Begun(d) /\ d \notin emptyFolders
  <2>1. CASE sdk[d] = "started"
    BY <2>1, <1>1 DEF Begun, IInv, FilesInv, Over, Ends
  <2>2. CASE \E f \in Inside(d) : sdk[f] # "none"
    <3>1. PICK f \in NestedFiles : FolderOf[f] = d /\ sdk[f] # "none" /\ f \in Inside(d)
      BY <2>2 DEF Inside
    <3> QED
      BY <3>1 DEF IInv, SdkInv, FilesInv
  <2> QED
    BY <2>1, <2>2 DEF onFolderTransferUpdate, WasScanned
<1>4. CASE a \in appData
  <2>1. /\ total' = [total EXCEPT ![a] = @ + Cardinality(Inside(d))]
        /\ started' = [started EXCEPT ![a] = @ + 1]
        /\ checkScanningState(a, queued)
    BY <1>4 DEF onFolderTransferUpdate
  <2>2. queued' = queued \/ (queued' = Append(queued, scanFinished(a)) /\ ScanIsOver(a))
    BY <2>1 DEF checkScanningState
  <2>3. /\ total'[a] = total[a] + Cardinality(Inside(d)) /\ started'[a] = started[a] + 1
        /\ \A b \in Actions \ {a} : total'[b] = total[b] /\ started'[b] = started[b]
    BY <2>1, <1>1 DEF TypeOK
  <2> QED
    BY <1>1, <1>2, <1>3, <1>4, <2>2, <2>3
<1>5. CASE a \notin appData
  <2>1. UNCHANGED <<total, started, queued>>
    BY <1>5 DEF onFolderTransferUpdate
  <2> QED
    BY <1>1, <1>2, <1>3, <1>5, <2>1
<1> QED
  BY <1>4, <1>5

-----------------------------------------------------------------------------
(* The end of the scan                                                        *)

(* When the counters of an action agree, every file of it is known: the known *)
(* files are expected ones, and as many. When all is over they are known too. *)
LEMMA OverIsComplete ==
    ASSUME TypeOK', SdkInv', PhaseInv', FilesInv', CountInv', NEW a \in Actions,
           ScanIsOver(a), ~processCancelled'[a], a \in appData' \/ AllOver(a)'
    PROVE  Complete(a)'
<1>1. CASE AllOver(a)'
  <2> SUFFICES ASSUME NEW f \in FilesOf(a)
               PROVE  mFiles'[f] # "absent" \/ (f \in NestedFiles /\ Over(FolderOf[f])')
    BY DEF Complete
  <2>1. CASE f \in TopFiles
    <3>1. f \in Tops(a) /\ f \in Files
      BY <2>1, ConstantTypes DEF FilesOf
    <3> QED
      BY <3>1, <1>1 DEF AllOver, Over, Ends, FilesInv, Mirror
  <2>2. CASE f \in NestedFiles
    <3>1. FolderOf[f] \in Tops(a)
      BY <2>2, ConstantTypes DEF FilesOf
    <3> QED
      BY <2>2, <3>1, <1>1 DEF AllOver
  <2> QED
    BY <2>1, <2>2 DEF FilesOf, Files
<1>2. CASE a \in appData'
  <2>1. /\ Launched(a)' /\ started'[a] = initial'[a] /\ initial'[a] = Cardinality(Tops(a))
        /\ total'[a] = Cardinality(Known(mFiles', a))
    BY DEF ScanIsOver, Launched, PhaseInv
  <2>2. started'[a] = Cardinality(CountedTops(a)') /\ total'[a] = Cardinality(Expected(a)')
    BY <1>2 DEF CountInv
  <2>3. CountedTops(a)' = Tops(a)
    <3>1. CountedTops(a)' \subseteq Tops(a)
      BY DEF CountedTops
    <3> QED
      BY <2>1, <2>2, <3>1, FiniteParts, PartSizes
  <2>4. \A d \in Folders \cap Tops(a) : d \in scanned' \/ d \in emptyFolders'
    BY <2>3, ConstantTypes DEF CountedTops
  <2>5. Known(mFiles', a) \subseteq Expected(a)'
    <3> SUFFICES ASSUME NEW f \in FilesOf(a), mFiles'[f] # "absent" PROVE f \in Expected(a)'
      BY DEF Known
    <3>1. f \in Files /\ sdk'[f] \notin {"none", "requested"}
      BY DEF FilesOf, FilesInv, Mirror
    <3>2. CASE f \in TopFiles
      BY <3>1, <3>2 DEF Expected, Begun
    <3>3. CASE f \in NestedFiles
      <4>1. FolderOf[f] \in Folders \cap Tops(a) /\ f \in Inside(FolderOf[f])
        BY <3>3, ConstantTypes DEF FilesOf
      <4>2. FolderOf[f] \notin emptyFolders'
        BY <3>1, <4>1 DEF FilesInv
      <4> QED
        BY <3>3, <4>1, <4>2, <2>4 DEF Expected
    <3> QED
      BY <3>1, <3>2, <3>3 DEF Files
  <2>6. Known(mFiles', a) = Expected(a)'
    <3>1. Expected(a)' \subseteq FilesOf(a)
      BY DEF Expected
    <3>2. IsFiniteSet(Expected(a)')
      BY <3>1, FiniteParts, PartSizes
    <3> QED
      BY <2>1, <2>2, <2>5, <3>2, PartSizes
  <2> SUFFICES ASSUME NEW f \in FilesOf(a)
               PROVE  mFiles'[f] # "absent" \/ (f \in NestedFiles /\ Over(FolderOf[f])')
    BY DEF Complete
  <2>7. CASE f \in TopFiles
    <3>1. f \in Tops(a) /\ f \in Files /\ f \notin Folders
      BY <2>7, ConstantTypes DEF FilesOf
    <3>2. Begun(f)'
      <4>1. /\ f \notin scanned' /\ f \notin emptyFolders'
        BY <3>1 DEF TypeOK
      <4> QED
        BY <3>1, <4>1, <2>3 DEF CountedTops
    <3>3. sdk'[f] \in SdkStates
      BY <2>7, ConstantTypes DEF TypeOK
    <3> QED
      BY <3>1, <3>2, <3>3 DEF FilesInv, Mirror, Begun, SdkStates, Live, Ends
  <2>8. CASE f \in NestedFiles
    <3>1. FolderOf[f] \in Folders \cap Tops(a)
      BY <2>8, ConstantTypes DEF FilesOf
    <3>2. CASE FolderOf[f] \in scanned'
      <4>1. f \in Expected(a)'
        BY <2>8, <3>2 DEF Expected
      <4> QED
        BY <4>1, <2>6 DEF Known
    <3>3. CASE FolderOf[f] \in emptyFolders'
      BY <2>8, <3>3 DEF FilesInv
    <3> QED
      BY <3>1, <3>2, <3>3, <2>4
  <2> QED
    BY <2>7, <2>8 DEF FilesOf, Files
<1> QED
  BY <1>1, <1>2

(* What was complete stays so, and what was over stays over.                  *)
LEMMA StaysComplete ==
    ASSUME NEW a \in Actions, Complete(a),
           \A t \in Transfers : Over(t) => Over(t)',
           \A f \in Files : mFiles[f] # "absent" => mFiles'[f] # "absent"
    PROVE  Complete(a)'
<1> SUFFICES ASSUME NEW f \in FilesOf(a)
             PROVE  mFiles'[f] # "absent" \/ (f \in NestedFiles /\ Over(FolderOf[f])')
  BY DEF Complete
<1>1. f \in Files /\ (f \in NestedFiles => FolderOf[f] \in Transfers)
  BY ConstantTypes DEF FilesOf
<1> QED
  BY <1>1 DEF Complete

LEMMA SameOvers ==
    ASSUME \A t \in Transfers : Over(t)' <=> Over(t)
    PROVE  \A a \in Actions : (AllOver(a)' <=> AllOver(a)) /\ OverTops(a)' = OverTops(a)
<1>1. \A a \in Actions : Tops(a) \subseteq Transfers
  BY DEF Tops, Transfers
<1>2. ASSUME NEW a \in Actions PROVE AllOver(a)' <=> AllOver(a)
  BY <1>1 DEF AllOver
<1>3. ASSUME NEW a \in Actions PROVE OverTops(a)' = OverTops(a)
  BY <1>1 DEF OverTops
<1> QED
  BY <1>2, <1>3

(* One call more about an action says nothing of the others, and the end of a *)
(* scan nothing of notifications.                                             *)
LEMMA CallNames ==
    ASSUME NEW a \in Actions, NEW b \in Actions
    PROVE  /\ scanFinished(a) \in Calls /\ notify(a) \in Calls
           /\ scanFinished(a) # notify(b)
           /\ scanFinished(a) = scanFinished(b) => a = b
           /\ notify(a) = notify(b) => a = b
BY DEF scanFinished, notify, Calls

LEMMA ScanQueued ==
    ASSUME TypeOK, NEW a \in Actions,
           queued' = queued \/ queued' = Append(queued, scanFinished(a))
    PROVE  \A b \in Actions :
             /\ IsIn(queued, notify(b))' <=> IsIn(queued, notify(b))
             /\ Once(queued, notify(b)) => Once(queued, notify(b))'
             /\ b # a => (IsIn(queued, scanFinished(b))' <=> IsIn(queued, scanFinished(b)))
             /\ queued' = queued => (IsIn(queued, scanFinished(b))' <=> IsIn(queued, scanFinished(b)))
<1> SUFFICES ASSUME NEW b \in Actions
             PROVE  /\ IsIn(queued, notify(b))' <=> IsIn(queued, notify(b))
                    /\ Once(queued, notify(b)) => Once(queued, notify(b))'
                    /\ b # a => (IsIn(queued, scanFinished(b))' <=> IsIn(queued, scanFinished(b)))
                    /\ queued' = queued => (IsIn(queued, scanFinished(b))' <=> IsIn(queued, scanFinished(b)))
  OBVIOUS
<1>1. CASE queued' = queued
  BY <1>1 DEF IsIn, Once
<1>2. CASE queued' = Append(queued, scanFinished(a))
  <2> DEFINE more == Append(queued, scanFinished(a))
  <2>1. queued \in Seq(Calls)
    BY DEF TypeOK
  <2>2. /\ IsIn(more, notify(b)) <=> IsIn(queued, notify(b))
        /\ Once(queued, notify(b)) => Once(more, notify(b))
        /\ b # a => (IsIn(more, scanFinished(b)) <=> IsIn(queued, scanFinished(b)))
    BY <2>1, CallNames, AppendedCalls
  <2>3. queued' = queued => (IsIn(queued, scanFinished(b))' <=> IsIn(queued, scanFinished(b)))
    BY DEF IsIn
  <2> QED
    BY <1>2, <2>2, <2>3 DEF IsIn, Once
<1> QED
  BY <1>1, <1>2

-----------------------------------------------------------------------------
(* The steps of the SDK                                                       *)

LEMMA StartKeeps ==
    ASSUME TypeOK, TypeOK', IInv, NEW t \in Transfers, onTransferStart(t)
    PROVE  IInv'
<1> DEFINE a == Owner(t)
<1>e. /\ a \in appData /\ a \in Actions /\ Launched(a) /\ ~AllOver(a)
      /\ sdk' = [sdk EXCEPT ![t] = "started"]
      /\ sdk[t] \in {"none", "requested"}
      /\ t \in NestedFiles => sdk[t] = "none" /\ sdk[FolderOf[t]] = "started"
      /\ t \notin NestedFiles => sdk[t] = "requested"
      /\ mFiles' = IF t \in Files THEN [mFiles EXCEPT ![t] = "pending"] ELSE mFiles
      /\ t \notin TopFiles => UNCHANGED <<total, started>>
      /\ \A b \in Actions \ {a} : total'[b] = total[b] /\ started'[b] = started[b]
      /\ t \in TopFiles /\ ~processCancelled[a] =>
           total'[a] = total[a] + 1 /\ started'[a] = started[a] + 1
      /\ queued' = queued \/ (queued' = Append(queued, scanFinished(a)) /\ ScanIsOver(a))
      /\ UNCHANGED <<scanned, tokens, appVars, notified, scanVars, initial,
                     processCancelled, appData, finished, emptyFolders, hasChanged>>
  BY StartEffect
<1>s. \A x \in Transfers : sdk'[x] = IF x = t THEN "started" ELSE sdk[x]
  BY <1>e DEF TypeOK
<1>o. /\ \A x \in Transfers : (Over(x)' <=> Over(x)) /\ (Begun(x) => Begun(x)')
      /\ \A x \in Transfers \ {t} : Begun(x)' <=> Begun(x)
      /\ ~Begun(t) /\ Begun(t)'
  BY <1>e, <1>s DEF Over, Ends, Begun
<1>a. \A b \in Actions : (AllOver(b)' <=> AllOver(b)) /\ OverTops(b)' = OverTops(b)
  BY <1>o, SameOvers
<1>1. SdkInv'
  <2>1. ASSUME NEW f \in NestedFiles
        PROVE  /\ sdk'[f] # "requested"
               /\ sdk'[f] # "none" => Begun(FolderOf[f])'
               /\ sdk'[f] = "started" => sdk'[FolderOf[f]] = "started"
    <3>1. f \in Transfers /\ FolderOf[f] \in Transfers /\ FolderOf[f] \notin NestedFiles
      BY ConstantTypes
    <3> QED
      BY <3>1, <1>e, <1>s DEF IInv, SdkInv, Begun
  <2>2. \A d \in scanned' : Begun(d)' /\ Inside(d) # {}
    <3>1. \A d \in scanned : d \in Transfers
      BY ConstantTypes DEF TypeOK
    <3> QED
      BY <3>1, <1>e, <1>o DEF IInv, SdkInv
  <2>3. \A x \in Transfers : ~Launched(Owner(x))' => sdk'[x] = "none"
    BY <1>e, <1>s DEF IInv, SdkInv, Launched
  <2> QED
    BY <2>1, <2>2, <2>3 DEF SdkInv
<1>2. PhaseInv'
  <2>1. \A b \in Actions : Launched(b)' <=> Launched(b)
    BY <1>e DEF Launched
  <2>2. \A b \in Actions : ~Launched(b) => b # a
    BY <1>e
  <2> QED
    BY <2>1, <2>2, <1>e, <1>a DEF IInv, PhaseInv, appVars, Launched
<1>3. FilesInv'
  <2>1. ASSUME NEW f \in Files PROVE mFiles'[f] = Mirror(sdk'[f])
    <3>1. f \in Transfers
      BY DEF Transfers, Files, Top
    <3> QED
      BY <3>1, <1>e, <1>s DEF IInv, FilesInv, Mirror, TypeOK
  <2>2. ASSUME NEW d \in emptyFolders' PROVE Over(d)' /\ \A f \in Inside(d) : sdk'[f] = "none"
    <3>1. d \in emptyFolders /\ d \in Transfers /\ Over(d) /\ \A f \in Inside(d) : sdk[f] = "none"
      BY <1>e, ConstantTypes DEF IInv, FilesInv, TypeOK
    <3>2. \A f \in Inside(d) : f # t /\ f \in Transfers
      BY <3>1, <1>e, ConstantTypes DEF Inside, Over, Ends
    <3> QED
      BY <3>1, <3>2, <1>o, <1>s
  <2> QED
    BY <2>1, <2>2 DEF FilesInv
<1>4. CountInv'
  <2>1. \A b \in Actions : finished'[b] = Cardinality(OverTops(b)')
    BY <1>e, <1>a DEF IInv, CountInv
  <2>2. ASSUME NEW b \in appData', ~processCancelled'[b], b # a
        PROVE  started'[b] = Cardinality(CountedTops(b)') /\ total'[b] = Cardinality(Expected(b)')
    <3>1. t \notin Tops(b) /\ t \notin FilesOf(b)
      BY <2>2, ConstantTypes DEF Tops, FilesOf, Owner
    <3>2. Tops(b) \subseteq Transfers /\ FilesOf(b) \subseteq Transfers
      BY DEF Tops, FilesOf, Files, Top, Transfers
    <3>3. CountedTops(b)' = CountedTops(b) /\ Expected(b)' = Expected(b)
      BY <3>1, <3>2, <1>o, <1>e DEF CountedTops, Expected
    <3> QED
      BY <2>2, <3>3, <1>e DEF IInv, CountInv, TypeOK
  <2>3. ASSUME ~processCancelled'[a]
        PROVE  started'[a] = Cardinality(CountedTops(a)') /\ total'[a] = Cardinality(Expected(a)')
    <3>1. Tops(a) \subseteq Transfers /\ FilesOf(a) \subseteq Transfers
      BY DEF Tops, FilesOf, Files, Top, Transfers
    <3>2. CASE t \in TopFiles
      <4>1. /\ t \in Tops(a) /\ t \in FilesOf(a) /\ t \notin NestedFiles /\ t \notin Folders
        BY <3>2, ConstantTypes DEF FilesOf
      <4>2. t \notin CountedTops(a) /\ t \notin Expected(a)
        BY <4>1, <1>o DEF CountedTops, Expected, TypeOK
      <4>3. CountedTops(a)' = CountedTops(a) \union {t}
        BY <3>1, <3>2, <4>1, <1>o, <1>e DEF CountedTops
      <4>4. Expected(a)' = Expected(a) \union {t}
        BY <3>1, <3>2, <4>1, <1>o, <1>e DEF Expected
      <4>5. /\ Cardinality(CountedTops(a)') = Cardinality(CountedTops(a)) + 1
            /\ Cardinality(Expected(a)') = Cardinality(Expected(a)) + 1
        BY <4>2, <4>3, <4>4, <1>e, CountFacts, Grown
      <4> QED
        BY <2>3, <3>2, <4>5, <1>e DEF IInv, CountInv
    <3>3. CASE t \notin TopFiles
      <4>1. \A x \in TopFiles : (Begun(x)' <=> Begun(x))
        BY <3>3, <1>o, ConstantTypes
      <4>2. CountedTops(a)' = CountedTops(a) /\ Expected(a)' = Expected(a)
        BY <4>1, <1>e DEF CountedTops, Expected
      <4> QED
        BY <2>3, <3>3, <4>2, <1>e DEF IInv, CountInv
    <3> QED
      BY <3>2, <3>3
  <2> QED
    BY <2>1, <2>2, <2>3, <1>e DEF CountInv
<1>5. CancelInv'
  <2>1. \A b \in Actions : Launched(b)' <=> Launched(b)
    BY <1>e DEF Launched
  <2> QED
    BY <2>1, <1>e DEF IInv, CancelInv, appVars, TypeOK
<1>6. StageInv'
  BY <1>e DEF IInv, StageInv, BlockedForABatch, scanVars, appVars
<1>7. ScanInv'
  <2> SUFFICES ASSUME NEW b \in Actions, IsIn(queued, scanFinished(b))', ~processCancelled'[b]
               PROVE  Complete(b)'
    BY DEF ScanInv
  <2>1. CASE IsIn(queued, scanFinished(b))
    <3>1. Complete(b)
      BY <2>1, <1>e DEF IInv, ScanInv
    <3>2. \A f \in Files : mFiles[f] # "absent" => mFiles'[f] # "absent"
      BY <1>e DEF TypeOK
    <3> QED
      BY <3>1, <3>2, <1>o, StaysComplete
  <2>2. CASE ~IsIn(queued, scanFinished(b))
    <3>1. b = a /\ ScanIsOver(a)
      BY <2>2, <1>e, ScanQueued
    <3> QED
      BY <3>1, <1>e, <1>1, <1>2, <1>3, <1>4, OverIsComplete
  <2> QED
    BY <2>1, <2>2
<1>8. ReportInv'
  <2> SUFFICES ASSUME NEW b \in Actions PROVE Reported(b)'
    BY DEF ReportInv
  <2>1. /\ IsIn(queued, notify(b))' <=> IsIn(queued, notify(b))
        /\ Once(queued, notify(b)) => Once(queued, notify(b))'
    BY <1>e, ScanQueued
  <2> QED
    BY <2>1, <1>e, <1>a DEF IInv, ReportInv, Reported
<1> QED
  BY <1>1, <1>2, <1>3, <1>4, <1>5, <1>6, <1>7, <1>8 DEF IInv

(* An action is over exactly when its metadata say so: the ends are counted   *)
(* once each, and no file of a folder that is over is pending.                *)
LEMMA FinishedIsOver ==
    ASSUME TypeOK', SdkInv', PhaseInv', FilesInv', NEW a \in Actions, Launched(a)',
           finished'[a] = Cardinality(OverTops(a)')
    PROVE  AllFinished(a) <=> AllOver(a)'
<1>1. initial'[a] = Cardinality(Tops(a))
  BY DEF PhaseInv
<1>2. OverTops(a)' \subseteq Tops(a)
  BY DEF OverTops
<1>3. finished'[a] = initial'[a] <=> OverTops(a)' = Tops(a)
  BY <1>1, <1>2, FiniteParts, PartSizes
<1>4. OverTops(a)' = Tops(a) <=> AllOver(a)'
  BY DEF OverTops, AllOver
<1>5. ASSUME AllOver(a)' PROVE InState(mFiles', a, "pending") = {}
  <2> SUFFICES ASSUME NEW f \in FilesOf(a), mFiles'[f] = "pending" PROVE FALSE
    BY DEF InState
  <2>1. f \in Files /\ sdk'[f] = "started"
    <3>1. f \in Files /\ f \in Transfers
      BY DEF FilesOf, Files, Transfers, Top
    <3>2. sdk'[f] \in SdkStates /\ mFiles'[f] = Mirror(sdk'[f])
      BY <3>1 DEF TypeOK, FilesInv
    <3> QED
      BY <3>1, <3>2 DEF Mirror, SdkStates, Live, Ends
  <2>2. CASE f \in TopFiles
    <3>1. f \in Tops(a)
      BY <2>2, ConstantTypes DEF FilesOf
    <3> QED
      BY <2>1, <3>1, <1>5 DEF AllOver, Over, Ends
  <2>3. CASE f \in NestedFiles
    <3>1. FolderOf[f] \in Tops(a)
      BY <2>3, ConstantTypes DEF FilesOf
    <3> QED
      BY <2>1, <2>3, <3>1, <1>5 DEF AllOver, Over, Ends, SdkInv
  <2> QED
    BY <2>1, <2>2, <2>3 DEF Files
<1> QED
  BY <1>3, <1>4, <1>5 DEF AllFinished

LEMMA FinishKeeps ==
    ASSUME TypeOK, TypeOK', IInv, NEW t \in Transfers, NEW end \in Ends, NEW enabled \in BOOLEAN,
           onTransferFinish(t, end, enabled)
    PROVE  IInv'
<1> DEFINE a == Owner(t)
<1>e. /\ a \in appData /\ a \in Actions /\ Launched(a) /\ ~AllOver(a)
      /\ sdk' = [sdk EXCEPT ![t] = end]
      /\ sdk[t] = "started" /\ CanEnd(t, end)
      /\ t \in NestedFiles => sdk[FolderOf[t]] = "started"
      /\ mFiles' = IF t \in Files THEN [mFiles EXCEPT ![t] = end] ELSE mFiles
      /\ emptyFolders' = IF EndedEmpty(t) THEN emptyFolders \union {t} ELSE emptyFolders
      /\ ~EndedEmpty(t) => UNCHANGED started
      /\ EndedEmpty(t) => started'[a] = started[a] + 1
      /\ t \notin Top => UNCHANGED finished
      /\ t \in Top => finished'[a] = finished[a] + 1
      /\ \A b \in Actions \ {a} : finished'[b] = finished[b] /\ started'[b] = started[b]
      /\ \E calls \in {queued, Append(queued, notify(a))} :
           /\ queued' = calls \/ (queued' = Append(calls, scanFinished(a)) /\ ScanIsOver(a))
           /\ calls # queued \/ appData' # appData => AllFinished(a)
           /\ AllFinished(a) => calls # queued \/ a \notin appData'
      /\ appData' \in {appData, appData \ {a}}
      /\ UNCHANGED <<scanned, tokens, appVars, notified, scanVars, initial, total, processCancelled>>
  BY FinishEffect
<1>s. \A x \in Transfers : sdk'[x] = IF x = t THEN end ELSE sdk[x]
  BY <1>e DEF TypeOK
<1>o. /\ \A x \in Transfers : (Over(x) => Over(x)') /\ (Begun(x)' <=> Begun(x))
      /\ \A x \in Transfers \ {t} : Over(x)' <=> Over(x)
      /\ ~Over(t) /\ Over(t)' /\ end \notin {"none", "requested", "started", "absent", "pending"}
  BY <1>e, <1>s DEF Over, Ends, Begun
<1>l. \A b \in Actions : Launched(b)' <=> Launched(b)
  BY <1>e DEF Launched
<1>m. EndedEmpty(t) => t \in Folders /\ \A f \in Inside(t) : sdk[f] = "none"
  <2> SUFFICES ASSUME EndedEmpty(t), NEW f \in Inside(t) PROVE sdk[f] = "none"
    BY DEF EndedEmpty
  <2>1. f \in NestedFiles /\ f \in Files /\ mFiles[f] = "absent"
    BY DEF EndedEmpty, Inside, Files
  <2>2. sdk[f] \in {"none", "requested"}
    BY <2>1, ConstantTypes DEF IInv, FilesInv, Mirror, TypeOK, SdkStates, Live, Ends
  <2> QED
    BY <2>1, <2>2 DEF IInv, SdkInv
<1>1. SdkInv'
  <2>1. ASSUME NEW f \in NestedFiles
        PROVE  /\ sdk'[f] # "requested"
               /\ sdk'[f] # "none" => Begun(FolderOf[f])'
               /\ sdk'[f] = "started" => sdk'[FolderOf[f]] = "started"
    <3>1. /\ f \in Transfers /\ FolderOf[f] \in Transfers /\ FolderOf[f] \notin NestedFiles
          /\ f \in Inside(FolderOf[f]) /\ FolderOf[f] \in Folders
      BY ConstantTypes
    <3>2. sdk'[f] # "requested" /\ (sdk'[f] # "none" => Begun(FolderOf[f])')
      BY <3>1, <1>e, <1>s, <1>o DEF IInv, SdkInv
    <3>3. ASSUME sdk'[f] = "started" PROVE sdk'[FolderOf[f]] = "started"
      <4>1. f # t /\ sdk[f] = "started" /\ sdk[FolderOf[f]] = "started"
        BY <3>1, <3>3, <1>s, <1>o DEF IInv, SdkInv
      <4>2. FolderOf[f] # t
        BY <4>1, <3>1, <1>e DEF CanEnd, Over, Ends
      <4> QED
        BY <4>1, <4>2, <3>1, <1>s
    <3> QED
      BY <3>2, <3>3
  <2>2. \A d \in scanned' : Begun(d)' /\ Inside(d) # {}
    <3>1. \A d \in scanned : d \in Transfers
      BY ConstantTypes DEF TypeOK
    <3> QED
      BY <3>1, <1>e, <1>o DEF IInv, SdkInv
  <2>3. \A x \in Transfers : ~Launched(Owner(x))' => sdk'[x] = "none"
    BY <1>e, <1>s DEF IInv, SdkInv, Launched
  <2> QED
    BY <2>1, <2>2, <2>3 DEF SdkInv
<1>3. FilesInv'
  <2>1. ASSUME NEW f \in Files PROVE mFiles'[f] = Mirror(sdk'[f])
    <3>1. f \in Transfers
      BY DEF Transfers, Files, Top
    <3> QED
      BY <3>1, <1>e, <1>s, <1>o DEF IInv, FilesInv, Mirror, TypeOK
  <2>2. ASSUME NEW d \in emptyFolders' PROVE Over(d)' /\ \A f \in Inside(d) : sdk'[f] = "none"
    <3>1. CASE d \in emptyFolders
      <4>1. d \in Transfers /\ Over(d) /\ \A f \in Inside(d) : sdk[f] = "none"
        BY <3>1, ConstantTypes DEF IInv, FilesInv, TypeOK
      <4>2. \A f \in Inside(d) : f # t /\ f \in Transfers
        BY <4>1, <1>e, ConstantTypes DEF Inside
      <4> QED
        BY <4>1, <4>2, <1>o, <1>s
    <3>2. CASE d = t /\ EndedEmpty(t)
      <4>1. \A f \in Inside(d) : f \in Transfers /\ f # t
        BY <3>2, <1>m, <1>e, ConstantTypes DEF Inside
      <4> QED
        BY <3>2, <4>1, <1>m, <1>o, <1>s
    <3> QED
      BY <2>2, <3>1, <3>2, <1>e
  <2> QED
    BY <2>1, <2>2 DEF FilesInv
<1>c. /\ \A b \in Actions \ {a} : OverTops(b)' = OverTops(b) /\ (AllOver(b)' <=> AllOver(b))
      /\ \A b \in Actions : finished'[b] = Cardinality(OverTops(b)')
  <2>1. \A b \in Actions : Tops(b) \subseteq Transfers
    BY DEF Tops, Transfers
  <2>2. ASSUME NEW b \in Actions, b # a
        PROVE  OverTops(b)' = OverTops(b) /\ (AllOver(b)' <=> AllOver(b))
    <3>1. t \notin Tops(b)
      BY <2>2, ConstantTypes DEF Tops
    <3> QED
      BY <2>1, <3>1, <1>o DEF OverTops, AllOver
  <2>3. finished'[a] = Cardinality(OverTops(a)')
    <3>1. CASE t \in Top
      <4>1. OverTops(a)' = OverTops(a) \union {t} /\ t \notin OverTops(a)
        BY <2>1, <3>1, <1>o, <1>e, ConstantTypes DEF OverTops
      <4>2. Cardinality(OverTops(a)') = Cardinality(OverTops(a)) + 1
        BY <4>1, <1>e, CountFacts, Grown
      <4> QED
        BY <3>1, <4>2, <1>e DEF IInv, CountInv
    <3>2. CASE t \notin Top
      <4>1. OverTops(a)' = OverTops(a)
        <5>1. \A x \in Tops(a) : x \in Transfers \ {t}
          BY <2>1, <3>2, <1>e DEF Tops
        <5> QED
          BY <5>1, <1>o DEF OverTops
      <4> QED
        BY <3>2, <4>1, <1>e DEF IInv, CountInv
    <3> QED
      BY <3>1, <3>2
  <2>4. \A b \in Actions \ {a} : finished'[b] = Cardinality(OverTops(b)')
    BY <2>2, <1>e DEF IInv, CountInv
  <2> QED
    BY <2>2, <2>3, <2>4
<1>4. CountInv'
  <2>1. ASSUME NEW b \in appData', ~processCancelled'[b]
        PROVE  started'[b] = Cardinality(CountedTops(b)') /\ total'[b] = Cardinality(Expected(b)')
    <3>0. b \in Actions /\ b \in appData
      BY <2>1, <1>e DEF TypeOK
    <3>1. Expected(b)' = Expected(b) /\ \A x \in TopFiles : Begun(x)' <=> Begun(x)
      BY <1>o, <1>e, ConstantTypes DEF Expected
    <3>2. total'[b] = Cardinality(Expected(b)')
      BY <3>0, <3>1, <2>1, <1>e DEF IInv, CountInv
    <3>3. CASE b = a /\ EndedEmpty(t)
      <4>1. t \in Folders /\ t \in Tops(a) /\ t \notin TopFiles
        BY <3>3, <1>m, ConstantTypes
      <4>2. a \notin tokens
        BY <3>3, <3>0, <2>1, <1>e DEF IInv, CancelInv
      <4>3. t \notin scanned
        <5> SUFFICES ASSUME t \in scanned PROVE FALSE
          OBVIOUS
        <5>1. \A f \in Inside(t) : Over(f)
          BY <4>1, <4>2, <1>e DEF CanEnd
        <5>2. Inside(t) # {}
          BY DEF IInv, SdkInv
        <5> QED
          BY <5>1, <5>2, <3>3, <1>m DEF Over, Ends
      <4>4. t \notin emptyFolders
        BY <1>o DEF IInv, FilesInv
      <4>5. t \notin CountedTops(a)
        BY <4>1, <4>3, <4>4 DEF CountedTops
      <4>6. CountedTops(a)' = CountedTops(a) \union {t}
        BY <3>1, <3>3, <4>1, <1>e DEF CountedTops
      <4>7. Cardinality(CountedTops(a)') = Cardinality(CountedTops(a)) + 1
        BY <4>5, <4>6, <1>e, CountFacts, Grown
      <4> QED
        BY <3>0, <3>2, <3>3, <4>7, <2>1, <1>e DEF IInv, CountInv
    <3>4. CASE ~(b = a /\ EndedEmpty(t))
      <4>1. CountedTops(b)' = CountedTops(b)
        <5>1. EndedEmpty(t) => t \notin Tops(b)
          BY <3>4, <1>m, ConstantTypes DEF Tops
        <5> QED
          BY <3>1, <5>1, <1>e DEF CountedTops
      <4>2. started'[b] = started[b]
        BY <3>0, <3>4, <1>e DEF TypeOK
      <4> QED
        BY <3>0, <3>2, <4>1, <4>2, <2>1, <1>e DEF IInv, CountInv
    <3> QED
      BY <3>3, <3>4
  <2> QED
    BY <2>1, <1>c DEF CountInv
<1>2. PhaseInv'
  <2>0. \A b \in Actions : ~Launched(b) => b # a
    BY <1>e
  <2>1. \A b \in Actions : Launched(b)' => initial'[b] = Cardinality(Tops(b)) /\ Tops(b) # {}
    BY <1>l, <1>e DEF IInv, PhaseInv
  <2>2. \A b \in Actions : ~Launched(b)' =>
          started'[b] = 0 /\ finished'[b] = 0 /\ total'[b] = 0 /\ ~processCancelled'[b]
    BY <2>0, <1>l, <1>e DEF IInv, PhaseInv
  <2>3. ASSUME NEW b \in Actions, Launched(b)', b \notin appData' PROVE AllOver(b)'
    <3>1. CASE b # a
      BY <2>3, <3>1, <1>c, <1>l, <1>e DEF IInv, PhaseInv
    <3>2. CASE b = a
      <4>1. AllFinished(a) /\ Launched(a)'
        BY <2>3, <3>2, <1>e, <1>l
      <4>2. initial'[a] = Cardinality(Tops(a))
        BY <2>1, <4>1, <1>e
      <4>3. OverTops(a)' \subseteq Tops(a)
        BY DEF OverTops
      <4>4. OverTops(a)' = Tops(a)
        BY <4>1, <4>2, <4>3, <1>c, <1>e, FiniteParts, PartSizes DEF AllFinished
      <4> QED
        BY <3>2, <4>4 DEF OverTops, AllOver
    <3> QED
      BY <3>1, <3>2
  <2>4. /\ batch' # NoAction => initial'[batch'] # -1
        /\ requesting' # NoAction => batch' = requesting'
        /\ \A b \in appData' : Tops(b) # {}
    BY <1>e DEF IInv, PhaseInv, Launched, appVars
  <2> QED
    BY <2>1, <2>2, <2>3, <2>4 DEF PhaseInv, Launched
<1>5. CancelInv'
  BY <1>l, <1>e DEF IInv, CancelInv, appVars, TypeOK
<1>6. StageInv'
  BY <1>e DEF IInv, StageInv, BlockedForABatch, scanVars, appVars
<1>f. AllFinished(a) <=> AllOver(a)'
  BY <1>e, <1>l, <1>1, <1>2, <1>3, <1>c, FinishedIsOver
<1>q. PICK calls \in {queued, Append(queued, notify(a))} :
        /\ queued' = calls \/ (queued' = Append(calls, scanFinished(a)) /\ ScanIsOver(a))
        /\ calls # queued \/ appData' # appData => AllFinished(a)
        /\ AllFinished(a) => calls # queued \/ a \notin appData'
  BY <1>e
<1>n. queued \in Seq(Calls) /\ notify(a) \in Calls /\ scanFinished(a) \in Calls /\ calls \in Seq(Calls)
  <2>1. queued \in Seq(Calls) /\ notify(a) \in Calls /\ scanFinished(a) \in Calls
    BY <1>e, CallNames DEF TypeOK
  <2> QED
    BY <2>1, <1>q
<1>d. calls = queued \/ calls = Append(queued, notify(a))
  BY <1>q
<1>7. ScanInv'
  <2> SUFFICES ASSUME NEW b \in Actions, IsIn(queued, scanFinished(b))', ~processCancelled'[b]
               PROVE  Complete(b)'
    BY DEF ScanInv
  <2>1. IsIn(calls, scanFinished(b)) <=> IsIn(queued, scanFinished(b))
    BY <1>d, <1>n, <1>e, CallNames, PerhapsAppended
  <2>2. CASE IsIn(queued, scanFinished(b))
    <3>1. Complete(b)
      BY <2>2, <1>e DEF IInv, ScanInv
    <3>2. \A f \in Files : mFiles[f] # "absent" => mFiles'[f] # "absent"
      BY <1>e, <1>o DEF TypeOK
    <3> QED
      BY <3>1, <3>2, <1>o, StaysComplete
  <2>3. CASE ~IsIn(queued, scanFinished(b))
    <3>1. b = a /\ ScanIsOver(a)
      <4>1. ~IsIn(calls, scanFinished(b)) /\ IsIn(queued', scanFinished(b))
        BY <2>1, <2>3 DEF IsIn
      <4>2. queued' = Append(calls, scanFinished(a)) /\ ScanIsOver(a)
        BY <4>1, <1>q
      <4>3. scanFinished(b) = scanFinished(a)
        BY <4>1, <4>2, <1>n, AppendedCalls
      <4> QED
        BY <4>2, <4>3, <1>e, CallNames
    <3>2. a \in appData' \/ AllOver(a)'
      BY <1>q, <1>f, <1>e
    <3> QED
      BY <3>1, <3>2, <1>e, <1>1, <1>2, <1>3, <1>4, OverIsComplete
  <2> QED
    BY <2>2, <2>3
<1>8. ReportInv'
  <2> SUFFICES ASSUME NEW b \in Actions PROVE Reported(b)'
    BY DEF ReportInv
  <2>r. Reported(b) /\ notified'[b] = notified[b] /\ initial'[b] = initial[b] /\ notified[b] \in Nat
    BY <1>e DEF IInv, ReportInv, TypeOK
  <2>1. /\ IsIn(queued, notify(b))' <=> IsIn(calls, notify(b))
        /\ Once(calls, notify(b)) => Once(queued, notify(b))'
    <3>1. /\ IsIn(Append(calls, scanFinished(a)), notify(b)) <=> IsIn(calls, notify(b))
          /\ Once(calls, notify(b)) => Once(Append(calls, scanFinished(a)), notify(b))
      BY <1>n, <1>e, CallNames, AppendedCalls
    <3>2. CASE queued' = calls
      BY <3>2 DEF IsIn, Once
    <3>3. CASE queued' = Append(calls, scanFinished(a))
      BY <3>1, <3>3 DEF IsIn, Once
    <3> QED
      BY <3>2, <3>3, <1>q
  <2>2. CASE b # a
    <3>1. /\ IsIn(calls, notify(b)) <=> IsIn(queued, notify(b))
          /\ Once(queued, notify(b)) => Once(calls, notify(b))
      BY <2>2, <1>d, <1>n, <1>e, CallNames, PerhapsAppended
    <3>2. b \in appData' <=> b \in appData
      BY <2>2, <1>e
    <3> QED
      BY <2>r, <2>1, <2>2, <3>1, <3>2, <1>c DEF Reported
  <2>3. CASE b = a
    <3>1. ~IsIn(queued, notify(a)) /\ notified[a] = 0 /\ Once(queued, notify(a))
      BY <2>r, <2>3, <1>e DEF Reported
    <3>2. IsIn(calls, notify(a)) => calls # queued
      BY <3>1
    <3>3. calls # queued => IsIn(calls, notify(a))
      BY <1>d, <1>n, PerhapsAppended
    <3>4. Once(calls, notify(a))
      BY <3>1, <1>d, <1>n, PerhapsAppended
    <3> QED
      BY <2>r, <2>1, <2>3, <3>1, <3>2, <3>3, <3>4, <1>q, <1>f DEF Reported
  <2> QED
    BY <2>2, <2>3
<1> QED
  BY <1>1, <1>2, <1>3, <1>4, <1>5, <1>6, <1>7, <1>8 DEF IInv

-----------------------------------------------------------------------------
(* The steps of the GUI thread                                                *)

LEMMA ScannedKeeps ==
    ASSUME TypeOK, TypeOK', IInv, NEW d \in Folders, onFolderTransferUpdate(d)
    PROVE  IInv'
<1> DEFINE a == ActionOf[d]
<1>e. /\ a \in Actions /\ d \in Tops(a)
      /\ Inside(d) # {} /\ d \notin scanned /\ Begun(d)
      /\ d \notin emptyFolders
      /\ scanned' = scanned \union {d}
      /\ a \in appData => /\ total'[a] = total[a] + Cardinality(Inside(d))
                          /\ started'[a] = started[a] + 1
      /\ a \notin appData => UNCHANGED <<total, started>>
      /\ \A b \in Actions \ {a} : total'[b] = total[b] /\ started'[b] = started[b]
      /\ \/ queued' = queued
         \/ /\ a \in appData
            /\ queued' = Append(queued, scanFinished(a)) /\ ScanIsOver(a)
      /\ UNCHANGED <<sdk, tokens, appData, finished, emptyFolders, hasChanged, appVars,
                     notified, scanVars, initial, processCancelled, mFiles>>
  BY ScannedEffect
<1>o. \A x : (Over(x)' <=> Over(x)) /\ (Begun(x)' <=> Begun(x))
  BY <1>e DEF Over, Begun
<1>a. \A b \in Actions : (AllOver(b)' <=> AllOver(b)) /\ OverTops(b)' = OverTops(b)
  BY <1>o, SameOvers
<1>l. (\A b : Launched(b)' <=> Launched(b)) /\ Launched(a)
  <2>1. d \in Transfers /\ Owner(d) = a /\ sdk[d] # "none"
    BY <1>e, ConstantTypes DEF Begun
  <2> QED
    BY <2>1, <1>e DEF Launched, IInv, SdkInv
<1>1. SdkInv'
  BY <1>o, <1>l, <1>e DEF IInv, SdkInv
<1>2. PhaseInv'
  <2>1. \A b \in Actions : ~Launched(b) => b # a
    BY <1>l
  <2> QED
    BY <2>1, <1>a, <1>l, <1>e DEF IInv, PhaseInv, appVars
<1>3. FilesInv'
  BY <1>o, <1>e DEF IInv, FilesInv
<1>4. CountInv'
  <2>1. \A b \in Actions : finished'[b] = Cardinality(OverTops(b)')
    BY <1>e, <1>a DEF IInv, CountInv
  <2>2. ASSUME NEW b \in appData', ~processCancelled'[b], b # a
        PROVE  started'[b] = Cardinality(CountedTops(b)') /\ total'[b] = Cardinality(Expected(b)')
    <3>1. d \notin Tops(b) /\ \A f \in NestedFiles \cap FilesOf(b) : FolderOf[f] # d
      BY <2>2, ConstantTypes DEF Tops, FilesOf, Owner
    <3>2. CountedTops(b)' = CountedTops(b) /\ Expected(b)' = Expected(b)
      BY <3>1, <1>o, <1>e DEF CountedTops, Expected
    <3>3. b \in Actions
      BY <2>2 DEF TypeOK
    <3> QED
      BY <2>2, <3>2, <3>3, <1>e DEF IInv, CountInv
  <2>3. ASSUME a \in appData, ~processCancelled'[a]
        PROVE  started'[a] = Cardinality(CountedTops(a)') /\ total'[a] = Cardinality(Expected(a)')
    <3>1. d \notin CountedTops(a) /\ CountedTops(a)' = CountedTops(a) \union {d}
      BY <1>o, <1>e, ConstantTypes DEF CountedTops
    <3>2. Cardinality(CountedTops(a)') = Cardinality(CountedTops(a)) + 1
      BY <3>1, <1>e, CountFacts, Grown
    <3>3. Expected(a)' = Expected(a) \union Inside(d) /\ Expected(a) \cap Inside(d) = {}
      <4>1. \A f \in Inside(d) : f \in NestedFiles /\ FolderOf[f] = d /\ f \in FilesOf(a)
                                 /\ f \notin TopFiles
        BY <1>e, ConstantTypes DEF Inside, FilesOf, Tops
      <4>2. \A f \in NestedFiles : FolderOf[f] = d => f \in Inside(d)
        BY DEF Inside
      <4>3. Expected(a) \cap Inside(d) = {}
        BY <4>1, <1>e DEF Expected
      <4>4. Expected(a)' = Expected(a) \union Inside(d)
        BY <4>1, <4>2, <1>o, <1>e DEF Expected
      <4> QED
        BY <4>3, <4>4
    <3>4. Cardinality(Expected(a)') = Cardinality(Expected(a)) + Cardinality(Inside(d))
      BY <3>3, <1>e, CountFacts, FiniteParts, Joined
    <3> QED
      BY <2>3, <3>2, <3>4, <1>e DEF IInv, CountInv
  <2> QED
    BY <2>1, <2>2, <2>3, <1>e DEF CountInv
<1>5. CancelInv'
  BY <1>l, <1>e DEF IInv, CancelInv, appVars
<1>6. StageInv'
  BY <1>e DEF IInv, StageInv, BlockedForABatch, scanVars, appVars
<1>7. ScanInv'
  <2> SUFFICES ASSUME NEW b \in Actions, IsIn(queued, scanFinished(b))', ~processCancelled'[b]
               PROVE  Complete(b)'
    BY DEF ScanInv
  <2>1. CASE IsIn(queued, scanFinished(b))
    <3>1. Complete(b)
      BY <2>1, <1>e DEF IInv, ScanInv
    <3>2. \A f \in Files : mFiles[f] # "absent" => mFiles'[f] # "absent"
      BY <1>e
    <3> QED
      BY <3>1, <3>2, <1>o, StaysComplete
  <2>2. CASE ~IsIn(queued, scanFinished(b))
    <3>1. queued' # queued /\ b = a
      BY <2>2, <1>e, ScanQueued
    <3> QED
      BY <3>1, <1>e, <1>1, <1>2, <1>3, <1>4, OverIsComplete
  <2> QED
    BY <2>1, <2>2
<1>8. ReportInv'
  <2> SUFFICES ASSUME NEW b \in Actions PROVE Reported(b)'
    BY DEF ReportInv
  <2>1. /\ IsIn(queued, notify(b))' <=> IsIn(queued, notify(b))
        /\ Once(queued, notify(b)) => Once(queued, notify(b))'
    BY <1>e, ScanQueued
  <2> QED
    BY <2>1, <1>e, <1>a DEF IInv, ReportInv, Reported
<1> QED
  BY <1>1, <1>2, <1>3, <1>4, <1>5, <1>6, <1>7, <1>8 DEF IInv

(* A request says nothing new to the metadata.                                *)
LEMMA RequestKeeps ==
    ASSUME TypeOK, TypeOK', IInv, NEW t \in Top, upload(t) \/ download(t)
    PROVE  IInv'
<1>e. /\ requesting \in Actions /\ t \in Tops(requesting) /\ sdk[t] = "none"
      /\ sdk' = [sdk EXCEPT ![t] = "requested"]
      /\ requesting' \in {requesting, NoAction}
      /\ startDelayedScanStage \/ UNCHANGED scanVars
      /\ UNCHANGED <<scanned, tokens, metaVars, batch, batchCancelled, replaced, queued, notified>>
  BY BatchAssumption DEF upload, download, Requested
<1>t. t \in Transfers /\ t \notin NestedFiles /\ Owner(t) = requesting
  BY <1>e, ConstantTypes DEF Transfers, Tops
<1>s. \A x \in Transfers : sdk'[x] = IF x = t THEN "requested" ELSE sdk[x]
  BY <1>e DEF TypeOK
<1>o. \A x \in Transfers : (Over(x)' <=> Over(x)) /\ (Begun(x)' <=> Begun(x))
  BY <1>e, <1>s DEF Over, Ends, Begun
<1>a. \A b \in Actions : (AllOver(b)' <=> AllOver(b)) /\ OverTops(b)' = OverTops(b)
  BY <1>o, SameOvers
<1>l. (\A b : Launched(b)' <=> Launched(b)) /\ Launched(requesting) /\ batch = requesting
      /\ requesting # NoAction
  BY <1>e, BatchAssumption DEF Launched, IInv, PhaseInv, metaVars
<1>1. SdkInv'
  <2>1. ASSUME NEW f \in NestedFiles
        PROVE  /\ sdk'[f] # "requested"
               /\ sdk'[f] # "none" => Begun(FolderOf[f])'
               /\ sdk'[f] = "started" => sdk'[FolderOf[f]] = "started"
    <3>1. f \in Transfers /\ FolderOf[f] \in Transfers
      BY ConstantTypes
    <3> QED
      BY <3>1, <1>e, <1>t, <1>s, <1>o DEF IInv, SdkInv
  <2>2. \A d \in scanned' : Begun(d)' /\ Inside(d) # {}
    <3>1. \A d \in scanned : d \in Transfers
      BY ConstantTypes DEF TypeOK
    <3> QED
      BY <3>1, <1>e, <1>o DEF IInv, SdkInv
  <2>3. \A x \in Transfers : ~Launched(Owner(x))' => sdk'[x] = "none"
    BY <1>t, <1>s, <1>l DEF IInv, SdkInv
  <2> QED
    BY <2>1, <2>2, <2>3 DEF SdkInv
<1>2. PhaseInv'
  BY <1>e, <1>a, <1>l DEF IInv, PhaseInv, metaVars
<1>3. FilesInv'
  <2>1. ASSUME NEW f \in Files PROVE mFiles'[f] = Mirror(sdk'[f])
    <3>1. f \in Transfers
      BY DEF Transfers, Files, Top
    <3> QED
      BY <3>1, <1>e, <1>s DEF IInv, FilesInv, Mirror, metaVars
  <2>2. ASSUME NEW d \in emptyFolders' PROVE Over(d)' /\ \A f \in Inside(d) : sdk'[f] = "none"
    <3>1. /\ d \in Transfers /\ Over(d) /\ \A f \in Inside(d) : sdk[f] = "none"
          /\ \A f \in Inside(d) : f \in Transfers /\ f # t
      BY <1>e, <1>t, ConstantTypes DEF IInv, FilesInv, TypeOK, metaVars, Inside
    <3> QED
      BY <3>1, <1>o, <1>s
  <2> QED
    BY <2>1, <2>2 DEF FilesInv
<1>4. CountInv'
  <2>1. \A b \in Actions : CountedTops(b)' = CountedTops(b) /\ Expected(b)' = Expected(b)
    <3>1. \A x \in TopFiles : Begun(x)' <=> Begun(x)
      BY <1>o, ConstantTypes
    <3> QED
      BY <3>1, <1>e DEF CountedTops, Expected, metaVars
  <2> QED
    BY <2>1, <1>a, <1>e DEF IInv, CountInv, metaVars, TypeOK
<1>5. CancelInv'
  BY <1>l, <1>e DEF IInv, CancelInv, metaVars
<1>6. StageInv'
  BY <1>l, <1>e DEF IInv, StageInv, BlockedForABatch, scanVars, startDelayedScanStage
<1>7. ScanInv'
  <2> SUFFICES ASSUME NEW b \in Actions, IsIn(queued, scanFinished(b))', ~processCancelled'[b]
               PROVE  Complete(b)'
    BY DEF ScanInv
  <2>1. Complete(b) /\ \A f \in Files : mFiles[f] # "absent" => mFiles'[f] # "absent"
    BY <1>e DEF IInv, ScanInv, metaVars, IsIn
  <2> QED
    BY <2>1, <1>o, StaysComplete
<1>8. ReportInv'
  BY <1>e, <1>a DEF IInv, ReportInv, Reported, metaVars, IsIn, Once
<1> QED
  BY <1>1, <1>2, <1>3, <1>4, <1>5, <1>6, <1>7, <1>8 DEF IInv

(* Nothing was asked for in an action before it is launched, so the counters  *)
(* may start at nought.                                                       *)
LEMMA NothingYet ==
    ASSUME TypeOK, IInv, NEW a \in Actions, ~Launched(a)
    PROVE  /\ \A t \in Transfers : Owner(t) = a => sdk[t] = "none" /\ ~Over(t) /\ ~Begun(t)
           /\ CountedTops(a) = {} /\ Expected(a) = {} /\ OverTops(a) = {}
           /\ a \notin tokens /\ ~processCancelled[a]
           /\ started[a] = 0 /\ finished[a] = 0 /\ total[a] = 0
<1>1. ASSUME NEW t \in Transfers, Owner(t) = a PROVE sdk[t] = "none" /\ ~Over(t) /\ ~Begun(t)
  BY <1>1 DEF IInv, SdkInv, Over, Ends, Begun
<1>2. Tops(a) \subseteq Transfers /\ \A t \in Tops(a) : Owner(t) = a
  BY ConstantTypes DEF Tops, Transfers
<1>3. CountedTops(a) = {} /\ OverTops(a) = {}
  BY <1>1, <1>2 DEF CountedTops, OverTops, IInv, SdkInv, FilesInv
<1>4. Expected(a) = {}
  <2> SUFFICES ASSUME NEW f \in Expected(a) PROVE FALSE
    OBVIOUS
  <2>1. f \in FilesOf(a) /\ f \in Transfers /\ Owner(f) = a
    BY DEF Expected, FilesOf, Files, Transfers, Top
  <2>2. CASE f \in NestedFiles /\ FolderOf[f] \in scanned
    <3>1. FolderOf[f] \in Transfers /\ Owner(FolderOf[f]) = a /\ Begun(FolderOf[f])
      BY <2>1, <2>2, ConstantTypes DEF IInv, SdkInv
    <3> QED
      BY <3>1, <1>1
  <2> QED
    BY <2>1, <2>2, <1>1 DEF Expected
<1> QED
  BY <1>1, <1>3, <1>4 DEF IInv, CancelInv, PhaseInv

LEMMA LaunchKeeps ==
    ASSUME TypeOK, TypeOK', IInv, NEW a \in Actions,
           onUploadsCheckedAndReady(a) \/ launchDownload(a) \/ downloadAtOnce(a)
    PROVE  IInv'
<1> DEFINE nr == Cardinality(Tops(a))
<1>e. /\ requesting = NoAction /\ initial[a] = -1
      /\ appData' = appData \union {a}
      /\ initial' = [initial EXCEPT ![a] = nr]
      /\ batch' = a /\ requesting' = a
      /\ replaced' = (replaced \/ batch # NoAction \/ ui # "normal")
      /\ UNCHANGED <<sdk, scanned, tokens, started, finished, total, processCancelled, mFiles,
                     emptyFolders, hasChanged, batchCancelled, queued, notified, scanVars>>
      /\ launchDownload(a) => a \in appData
      /\ ~launchDownload(a) => Tops(a) # {}
  BY DEF onUploadsCheckedAndReady, launchDownload, downloadAtOnce, launch, GuiIsFree, NotBegun
<1>n. /\ \A t \in Transfers : Owner(t) = a => sdk[t] = "none" /\ ~Over(t) /\ ~Begun(t)
      /\ CountedTops(a) = {} /\ Expected(a) = {} /\ OverTops(a) = {}
      /\ a \notin tokens /\ ~processCancelled[a]
      /\ started[a] = 0 /\ finished[a] = 0 /\ total[a] = 0
  BY <1>e, NothingYet DEF Launched
<1>i. /\ \A b \in Actions : initial'[b] = IF b = a THEN nr ELSE initial[b]
      /\ Tops(a) # {} /\ nr \in Nat \ {0} /\ a # NoAction
  <2>1. Tops(a) # {}
    BY <1>e DEF IInv, PhaseInv, onUploadsCheckedAndReady, launchDownload, downloadAtOnce
  <2> QED
    BY <2>1, <1>e, FiniteParts, FS_EmptySet, BatchAssumption DEF TypeOK
<1>l. \A b \in Actions : Launched(b)' <=> b = a \/ Launched(b)
  BY <1>i DEF Launched
<1>o. \A x : (Over(x)' <=> Over(x)) /\ (Begun(x)' <=> Begun(x))
  BY <1>e DEF Over, Begun
<1>a. /\ \A b \in Actions : (AllOver(b)' <=> AllOver(b)) /\ OverTops(b)' = OverTops(b)
      /\ ~AllOver(a)
  <2>1. \A t \in Tops(a) : ~Over(t)
    BY <1>n DEF OverTops
  <2> QED
    BY <2>1, <1>i, <1>o, SameOvers DEF AllOver
<1>1. SdkInv'
  BY <1>o, <1>l, <1>e, ConstantTypes DEF IInv, SdkInv
<1>2. PhaseInv'
  <2>1. \A b \in Actions : Launched(b)' => initial'[b] = Cardinality(Tops(b)) /\ Tops(b) # {}
    BY <1>i, <1>l DEF IInv, PhaseInv
  <2>2. \A b \in Actions : ~Launched(b)' =>
          started'[b] = 0 /\ finished'[b] = 0 /\ total'[b] = 0 /\ ~processCancelled'[b]
    BY <1>l, <1>e DEF IInv, PhaseInv
  <2>3. \A b \in Actions : Launched(b)' /\ b \notin appData' => AllOver(b)'
    BY <1>l, <1>e, <1>a DEF IInv, PhaseInv
  <2>4. \A b \in appData' : Tops(b) # {}
    BY <1>e, <1>i DEF IInv, PhaseInv
  <2>5. initial'[batch'] # -1 /\ batch' = requesting'
    BY <1>i, <1>e
  <2> QED
    BY <2>1, <2>2, <2>3, <2>4, <2>5 DEF PhaseInv, Launched
<1>3. FilesInv'
  BY <1>o, <1>e DEF IInv, FilesInv
<1>4. CountInv'
  <2>1. \A b \in Actions : CountedTops(b)' = CountedTops(b) /\ Expected(b)' = Expected(b)
    BY <1>o, <1>e DEF CountedTops, Expected
  <2>2. \A b \in Actions : finished'[b] = Cardinality(OverTops(b)')
    BY <1>e, <1>a DEF IInv, CountInv
  <2>3. started'[a] = Cardinality(CountedTops(a)') /\ total'[a] = Cardinality(Expected(a)')
    BY <2>1, <1>n, <1>e, FS_EmptySet
  <2>4. ASSUME NEW b \in appData', ~processCancelled'[b], b # a
        PROVE  started'[b] = Cardinality(CountedTops(b)') /\ total'[b] = Cardinality(Expected(b)')
    <3>1. b \in Actions /\ b \in appData
      BY <2>4, <1>e DEF TypeOK
    <3> QED
      BY <3>1, <2>1, <2>4, <1>e DEF IInv, CountInv
  <2> QED
    BY <2>2, <2>3, <2>4 DEF CountInv
<1>5. CancelInv'
  <2>1. batchCancelled' => batch' # NoAction /\ (batch' \in tokens' \/ replaced')
    BY <1>i, <1>e DEF IInv, CancelInv
  <2> QED
    BY <2>1, <1>l, <1>n, <1>e DEF IInv, CancelInv, TypeOK
<1>6. StageInv'
  BY <1>i, <1>e DEF IInv, StageInv, BlockedForABatch, scanVars
<1>7. ScanInv'
  <2> SUFFICES ASSUME NEW b \in Actions, IsIn(queued, scanFinished(b))', ~processCancelled'[b]
               PROVE  Complete(b)'
    BY DEF ScanInv
  <2>1. Complete(b) /\ \A f \in Files : mFiles[f] # "absent" => mFiles'[f] # "absent"
    BY <1>e DEF IInv, ScanInv, IsIn
  <2> QED
    BY <2>1, <1>o, StaysComplete
<1>8. ReportInv'
  <2> SUFFICES ASSUME NEW b \in Actions PROVE Reported(b)'
    BY DEF ReportInv
  <2>1. /\ IsIn(queued, notify(b))' <=> IsIn(queued, notify(b))
        /\ Once(queued, notify(b)) => Once(queued, notify(b))'
        /\ notified'[b] = notified[b] /\ Reported(b)
    BY <1>e DEF IsIn, Once, IInv, ReportInv
  <2>2. CASE b = a
    BY <2>1, <2>2, <1>a DEF Reported
  <2>3. CASE b # a
    BY <2>1, <2>3, <1>a, <1>i, <1>e DEF Reported
  <2> QED
    BY <2>2, <2>3
<1> QED
  BY <1>1, <1>2, <1>3, <1>4, <1>5, <1>6, <1>7, <1>8 DEF IInv

LEMMA DataKeep ==
    ASSUME TypeOK, TypeOK', IInv, NEW a \in Actions,
           createTransferMetaData(a) \/ forgetDownload(a)
    PROVE  IInv'
<1>e. /\ initial[a] = -1 /\ appData' \in {appData \union {a}, appData \ {a}}
      /\ a \in appData' => Tops(a) # {}
      /\ UNCHANGED <<initial, started, finished, total, processCancelled, mFiles, emptyFolders,
                     hasChanged, sdk, scanned, tokens, batch, batchCancelled, requesting,
                     replaced, queued, notified, scanVars>>
  BY DEF createTransferMetaData, forgetDownload, NotBegun, appVars
<1>n. /\ CountedTops(a) = {} /\ Expected(a) = {} /\ OverTops(a) = {}
      /\ a \notin tokens /\ ~processCancelled[a] /\ ~Launched(a)
      /\ started[a] = 0 /\ finished[a] = 0 /\ total[a] = 0
  BY <1>e, NothingYet DEF Launched
<1>o. \A x : (Over(x)' <=> Over(x)) /\ (Begun(x)' <=> Begun(x)) /\ (Launched(x)' <=> Launched(x))
  BY <1>e DEF Over, Begun, Launched
<1>a. \A b \in Actions : (AllOver(b)' <=> AllOver(b)) /\ OverTops(b)' = OverTops(b)
  BY <1>o, SameOvers
<1>1. SdkInv'
  BY <1>o, <1>e DEF IInv, SdkInv
<1>2. PhaseInv'
  BY <1>o, <1>a, <1>n, <1>e DEF IInv, PhaseInv
<1>3. FilesInv'
  BY <1>o, <1>e DEF IInv, FilesInv
<1>4. CountInv'
  <2>1. \A b \in Actions : CountedTops(b)' = CountedTops(b) /\ Expected(b)' = Expected(b)
    BY <1>o, <1>e DEF CountedTops, Expected
  <2>2. \A b \in Actions : finished'[b] = Cardinality(OverTops(b)')
    BY <1>e, <1>a DEF IInv, CountInv
  <2>3. started'[a] = Cardinality(CountedTops(a)') /\ total'[a] = Cardinality(Expected(a)')
    BY <2>1, <1>n, <1>e, FS_EmptySet
  <2>4. ASSUME NEW b \in appData', ~processCancelled'[b], b # a
        PROVE  started'[b] = Cardinality(CountedTops(b)') /\ total'[b] = Cardinality(Expected(b)')
    <3>1. b \in Actions /\ b \in appData
      BY <2>4, <1>e DEF TypeOK
    <3> QED
      BY <3>1, <2>1, <2>4, <1>e DEF IInv, CountInv
  <2> QED
    BY <2>2, <2>3, <2>4 DEF CountInv
<1>5. CancelInv'
  BY <1>o, <1>n, <1>e DEF IInv, CancelInv
<1>6. StageInv'
  BY <1>e DEF IInv, StageInv, BlockedForABatch, scanVars
<1>7. ScanInv'
  <2> SUFFICES ASSUME NEW b \in Actions, IsIn(queued, scanFinished(b))', ~processCancelled'[b]
               PROVE  Complete(b)'
    BY DEF ScanInv
  <2>1. Complete(b) /\ \A f \in Files : mFiles[f] # "absent" => mFiles'[f] # "absent"
    BY <1>e DEF IInv, ScanInv, IsIn
  <2> QED
    BY <2>1, <1>o, StaysComplete
<1>8. ReportInv'
  <2> SUFFICES ASSUME NEW b \in Actions PROVE Reported(b)'
    BY DEF ReportInv
  <2>1. /\ IsIn(queued, notify(b))' <=> IsIn(queued, notify(b))
        /\ Once(queued, notify(b)) => Once(queued, notify(b))'
        /\ notified'[b] = notified[b] /\ initial'[b] = initial[b] /\ Reported(b)
        /\ ~(initial[a] > 0)
    BY <1>e DEF IsIn, Once, IInv, ReportInv
  <2>2. b # a => (b \in appData' <=> b \in appData)
    BY <1>e
  <2> QED
    BY <2>1, <2>2, <1>a DEF Reported
<1> QED
  BY <1>1, <1>2, <1>3, <1>4, <1>5, <1>6, <1>7, <1>8 DEF IInv

(* Where only the windows, the batch and the queue change, what is known of   *)
(* the transfers stays as it is.                                              *)
LEMMA OthersKeep ==
    ASSUME TypeOK, TypeOK', IInv,
           UNCHANGED <<sdk, scanned, appData, initial, started, finished, total, mFiles, emptyFolders>>,
           \A b \in Actions : processCancelled[b] => processCancelled'[b],
           \A b \in Actions : processCancelled'[b] => processCancelled[b] \/ Launched(b),
           batch' \in {batch, NoAction}, requesting' \in {requesting, NoAction},
           requesting' = NoAction \/ batch' = batch
    PROVE  /\ SdkInv' /\ PhaseInv' /\ FilesInv' /\ CountInv'
           /\ \A b \in Actions : (AllOver(b)' <=> AllOver(b)) /\ (Launched(b)' <=> Launched(b))
           /\ \A b \in Actions : Complete(b) => Complete(b)'
<1>o. \A x : (Over(x)' <=> Over(x)) /\ (Begun(x)' <=> Begun(x)) /\ (Launched(x)' <=> Launched(x))
  BY DEF Over, Begun, Launched
<1>a. \A b \in Actions : (AllOver(b)' <=> AllOver(b)) /\ OverTops(b)' = OverTops(b)
  BY <1>o, SameOvers
<1>1. SdkInv'
  BY <1>o DEF IInv, SdkInv
<1>2. PhaseInv'
  <2>1. \A b \in Actions : ~Launched(b)' => ~processCancelled'[b]
    BY <1>o DEF IInv, PhaseInv
  <2> QED
    BY <2>1, <1>o, <1>a DEF IInv, PhaseInv
<1>3. FilesInv'
  BY <1>o DEF IInv, FilesInv
<1>4. CountInv'
  <2>1. \A b \in Actions : CountedTops(b)' = CountedTops(b) /\ Expected(b)' = Expected(b)
    BY <1>o DEF CountedTops, Expected
  <2> QED
    BY <2>1, <1>a DEF IInv, CountInv, TypeOK
<1>5. \A b \in Actions : Complete(b) => Complete(b)'
  BY <1>o DEF Complete
<1> QED
  BY <1>1, <1>2, <1>3, <1>4, <1>5, <1>a, <1>o

LEMMA IdleKeeps ==
    ASSUME TypeOK, TypeOK', IInv, timeout \/ UNCHANGED batchVars
    PROVE  IInv'
<1>e. /\ UNCHANGED <<sdk, scanned, tokens, metaVars, appVars, queued, notified>>
      /\ (GuiIsFree /\ Timers) \/ UNCHANGED scanVars
  BY DEF timeout, batchVars
<1>k. /\ SdkInv' /\ PhaseInv' /\ FilesInv' /\ CountInv'
      /\ \A b \in Actions : (AllOver(b)' <=> AllOver(b)) /\ (Launched(b)' <=> Launched(b))
      /\ \A b \in Actions : Complete(b) => Complete(b)'
  BY <1>e, OthersKeep DEF metaVars, appVars
<1>1. CancelInv'
  BY <1>e, <1>k DEF IInv, CancelInv, metaVars, appVars, TypeOK
<1>2. StageInv'
  <2> USE <1>e DEF IInv, StageInv, BlockedForABatch, appVars
  <2>1. CASE UNCHANGED scanVars
    BY <2>1 DEF scanVars
  <2>2. CASE GuiIsFree /\ startScanStage
    <3>1. shots' > 0
      BY <2>2 DEF startScanStage, TypeOK, ScanTypeOK
    <3> QED
      BY <2>2, <3>1 DEF startScanStage, GuiIsFree
  <2>3. CASE GuiIsFree /\ onMinimumDisplayTimeElapsed
    BY <2>3 DEF onMinimumDisplayTimeElapsed, setUiInNormalStage, TypeOK, ScanTypeOK
  <2>4. CASE GuiIsFree /\ setUiInCancellingStage
    BY <2>4 DEF setUiInCancellingStage
  <2> QED
    BY <2>1, <2>2, <2>3, <2>4 DEF Timers
<1>3. ScanInv'
  BY <1>e, <1>k DEF IInv, ScanInv, metaVars, IsIn
<1>4. ReportInv'
  BY <1>e, <1>k DEF IInv, ReportInv, Reported, metaVars, IsIn, Once
<1> QED
  BY <1>k, <1>1, <1>2, <1>3, <1>4 DEF IInv

LEMMA QueuedKeeps ==
    ASSUME TypeOK, TypeOK', IInv, handleQueued
    PROVE  IInv'
<1> DEFINE call == Head(queued)
<1>e. /\ requesting = NoAction /\ queued \in Seq(Calls) /\ queued # <<>> /\ queued' = Tail(queued)
      /\ UNCHANGED <<sdk, scanned, tokens, metaVars, requesting, noUploadedStarted,
                   mNoTransferStarted, replaced>>
  BY DEF handleQueued, GuiIsFree, TypeOK
<1>c. call \in Calls /\ call.id \in Actions
  BY <1>e, HandledCall DEF Calls
<1>b. \/ /\ call.kind = "scanFinished"
         /\ transferBatchFinished(call.id)
         /\ UNCHANGED notified
      \/ /\ call = notify(call.id)
         /\ notified' = [notified EXCEPT ![call.id] = @ + (IF call.id \in appData THEN 1 ELSE 0)]
         /\ UNCHANGED <<batch, batchCancelled, scanVars>>
  BY <1>c DEF handleQueued, Calls, notify
<1>k. /\ SdkInv' /\ PhaseInv' /\ FilesInv' /\ CountInv'
      /\ \A b \in Actions : (AllOver(b)' <=> AllOver(b)) /\ (Launched(b)' <=> Launched(b))
      /\ \A b \in Actions : Complete(b) => Complete(b)'
  <2>1. batch' \in {batch, NoAction}
    BY <1>b DEF transferBatchFinished
  <2> QED
    BY <2>1, <1>e, OthersKeep DEF metaVars
<1>1. CancelInv'
  <2>1. batchCancelled' => batch' = batch /\ batchCancelled
    BY <1>b DEF transferBatchFinished, TypeOK
  <2> QED
    BY <2>1, <1>e, <1>k DEF IInv, CancelInv, metaVars, TypeOK
<1>2. StageInv'
  <2> USE DEF IInv, StageInv, BlockedForABatch
  <2>1. CASE UNCHANGED <<batch, scanVars>>
    BY <2>1, <1>e DEF scanVars
  <2>2. CASE batch' \in {batch, NoAction} /\ stopDelayedScanStage
    BY <2>2, <1>e DEF stopDelayedScanStage, setUiInNormalStage
  <2> QED
    BY <2>1, <2>2, <1>b DEF transferBatchFinished
<1>3. ScanInv'
  <2> SUFFICES ASSUME NEW b \in Actions, IsIn(queued, scanFinished(b))', ~processCancelled'[b]
               PROVE  Complete(b)'
    BY DEF ScanInv
  <2>1. IsIn(Tail(queued), scanFinished(b))
    BY <1>e DEF IsIn
  <2>2. IsIn(queued, scanFinished(b)) /\ ~processCancelled[b]
    BY <2>1, <1>e, HandledCall DEF metaVars
  <2> QED
    BY <2>2, <1>k DEF IInv, ScanInv
<1>4. ReportInv'
  <2> SUFFICES ASSUME NEW b \in Actions PROVE Reported(b)'
    BY DEF ReportInv
  <2>1. /\ IsIn(queued, notify(b))' <=> IsIn(Tail(queued), notify(b))
        /\ Once(Tail(queued), notify(b)) => Once(queued, notify(b))'
    BY <1>e DEF IsIn, Once
  <2>2. /\ Reported(b) /\ initial'[b] = initial[b] /\ appData' = appData
        /\ (AllOver(b)' <=> AllOver(b)) /\ notified[b] \in Nat
    BY <1>e, <1>k DEF IInv, ReportInv, metaVars, TypeOK
  <2>3. CASE call = notify(b)
    <3>1. call.id = b /\ call.kind = "notify"
      BY <2>3 DEF notify
    <3>2. notified'[b] = notified[b] + (IF b \in appData THEN 1 ELSE 0)
      BY <3>1, <1>b DEF TypeOK
    <3>3. IsIn(queued, notify(b)) /\ Once(queued, notify(b)) /\ notified[b] = 0 /\ AllOver(b)
      <4>1. IsIn(queued, notify(b))
        BY <2>3, <1>e, HandledCall
      <4> QED
        BY <4>1, <2>2 DEF Reported
    <3>4. ~IsIn(Tail(queued), notify(b)) /\ Once(Tail(queued), notify(b))
      BY <3>3, <2>3, <1>e, HandledCall
    <3> QED
      BY <2>1, <2>2, <3>2, <3>3, <3>4 DEF Reported
  <2>4. CASE call # notify(b)
    <3>1. notified'[b] = notified[b]
      BY <2>4, <1>b, <1>c DEF TypeOK
    <3>2. /\ IsIn(Tail(queued), notify(b)) <=> IsIn(queued, notify(b))
          /\ Once(queued, notify(b)) => Once(Tail(queued), notify(b))
      BY <2>4, <1>e, HandledCall
    <3> QED
      BY <2>1, <2>2, <3>1, <3>2 DEF Reported
  <2> QED
    BY <2>3, <2>4
<1> QED
  BY <1>k, <1>1, <1>2, <1>3, <1>4 DEF IInv

LEMMA CancelKeeps ==
    ASSUME TypeOK, TypeOK', IInv, cancelScanning
    PROVE  IInv'
<1>e. /\ requesting = NoAction /\ ui = "scan"
      /\ setDelayedCancellingStage
      /\ UNCHANGED <<sdk, scanned, appData, initial, started, finished, total, mFiles, emptyFolders,
                     hasChanged, batch, requesting, noUploadedStarted, mNoTransferStarted,
                     notified, replaced>>
  BY DEF cancelScanning, GuiIsFree
<1>b. \/ UNCHANGED <<tokens, batchCancelled, processCancelled, queued>>
      \/ /\ batch \in Actions /\ tokens' = tokens \union {batch} /\ batchCancelled'
         /\ \/ /\ batch \in appData
               /\ processCancelled' = [processCancelled EXCEPT ![batch] = TRUE]
               /\ checkScanningState(batch, queued)
            \/ batch \notin appData /\ UNCHANGED <<processCancelled, queued>>
  BY DEF cancelScanning, TypeOK
<1>p. \A b \in Actions : /\ processCancelled[b] => processCancelled'[b]
                         /\ processCancelled'[b] => processCancelled[b] \/ Launched(b)
                         /\ processCancelled'[b] \/ processCancelled'[b] = processCancelled[b]
  <2>1. CASE UNCHANGED processCancelled
    BY <2>1
  <2>2. CASE batch \in Actions /\ processCancelled' = [processCancelled EXCEPT ![batch] = TRUE]
    <3>1. Launched(batch)
      BY <2>2, BatchAssumption DEF IInv, PhaseInv
    <3>2. \A b \in Actions : processCancelled'[b] = IF b = batch THEN TRUE ELSE processCancelled[b]
      BY <2>2 DEF TypeOK
    <3> QED
      BY <3>1, <3>2
  <2> QED
    BY <2>1, <2>2, <1>b
<1>k. /\ SdkInv' /\ PhaseInv' /\ FilesInv' /\ CountInv'
      /\ \A b \in Actions : (AllOver(b)' <=> AllOver(b)) /\ (Launched(b)' <=> Launched(b))
      /\ \A b \in Actions : Complete(b) => Complete(b)'
  BY <1>p, <1>e, OthersKeep
<1>1. CancelInv'
  <2>1. CASE UNCHANGED <<tokens, batchCancelled, processCancelled, queued>>
    BY <2>1, <1>e, <1>k DEF IInv, CancelInv, TypeOK
  <2>2. CASE batch \in Actions /\ tokens' = tokens \union {batch} /\ batchCancelled'
    <3>1. batch # NoAction /\ Launched(batch)
      BY <2>2, BatchAssumption DEF IInv, PhaseInv
    <3>2. \A b \in appData' \cap tokens' : processCancelled'[b]
      BY <2>2, <1>b, <1>e, <1>p DEF IInv, CancelInv, TypeOK
    <3>3. \A b \in tokens' : Launched(b)'
      BY <2>2, <3>1, <1>k DEF IInv, CancelInv, TypeOK
    <3> QED
      BY <2>2, <3>1, <3>2, <3>3, <1>e DEF CancelInv
  <2> QED
    BY <2>1, <2>2, <1>b
<1>2. StageInv'
  BY <1>e DEF IInv, StageInv, BlockedForABatch, setDelayedCancellingStage
<1>q. /\ \A b \in Actions : /\ IsIn(queued, notify(b))' <=> IsIn(queued, notify(b))
                            /\ Once(queued, notify(b)) => Once(queued, notify(b))'
      /\ \A b \in Actions : ~processCancelled'[b] =>
            (IsIn(queued, scanFinished(b))' <=> IsIn(queued, scanFinished(b)))
  <2>1. CASE queued' = queued
    BY <2>1 DEF IsIn, Once
  <2>2. CASE queued' # queued
    <3>1. batch \in Actions /\ queued' = Append(queued, scanFinished(batch)) /\ processCancelled'[batch]
      BY <2>2, <1>b DEF checkScanningState, TypeOK
    <3> QED
      BY <3>1, ScanQueued
  <2> QED
    BY <2>1, <2>2
<1>3. ScanInv'
  BY <1>q, <1>p, <1>k DEF IInv, ScanInv
<1>4. ReportInv'
  BY <1>q, <1>k, <1>e DEF IInv, ReportInv, Reported
<1> QED
  BY <1>k, <1>1, <1>2, <1>3, <1>4 DEF IInv

-----------------------------------------------------------------------------
(* Theorems                                                                   *)

LEMMA InitInv == BatchInit => IInv
<1> SUFFICES ASSUME BatchInit PROVE IInv
  OBVIOUS
<1>1. TypeOK
  BY TypeInit
<1>2. /\ \A t \in Transfers : sdk[t] = "none" /\ ~Over(t) /\ ~Begun(t)
      /\ \A a \in Actions : ~Launched(a) /\ initial[a] = -1
  BY DEF BatchInit, Over, Ends, Begun, Launched
<1>3. \A a \in Actions : OverTops(a) = {}
  <2>1. \A a \in Actions : Tops(a) \subseteq Transfers
    BY DEF Tops, Transfers
  <2> QED
    BY <1>2, <2>1 DEF OverTops
<1>4. SdkInv
  BY <1>2, ConstantTypes DEF SdkInv, BatchInit
<1>5. PhaseInv
  BY <1>2 DEF PhaseInv, BatchInit
<1>6. FilesInv
  <2>1. \A f \in Files : f \in Transfers
    BY DEF Files, Transfers, Top
  <2> QED
    BY <1>2, <2>1 DEF FilesInv, Mirror, BatchInit
<1>7. CountInv
  BY <1>3, FS_EmptySet DEF CountInv, BatchInit
<1>8. CancelInv /\ StageInv
  BY DEF CancelInv, StageInv, BlockedForABatch, BatchInit, ScanInit
<1>9. ScanInv /\ ReportInv
  <2>1. \A c : ~IsIn(queued, c) /\ Once(queued, c)
    BY DEF IsIn, Once, BatchInit
  <2> QED
    BY <1>2, <2>1 DEF ScanInv, ReportInv, Reported, BatchInit
<1> QED
  BY <1>4, <1>5, <1>6, <1>7, <1>8, <1>9 DEF IInv

LEMMA StepInv == TypeOK /\ IInv /\ [BatchNext]_batchVars => IInv'
<1> SUFFICES ASSUME TypeOK, IInv, [BatchNext]_batchVars PROVE IInv'
  OBVIOUS
<1>t. TypeOK'
  BY TypeStep
<1>1. CASE SdkNext
  BY <1>1, <1>t, StartKeeps, FinishKeeps DEF SdkNext
<1>2. CASE GuiNext
  BY <1>2, <1>t, ScannedKeeps, LaunchKeeps, RequestKeeps, QueuedKeeps, CancelKeeps, IdleKeeps
  DEF GuiNext
<1>3. CASE DownloadNext
  BY <1>3, <1>t, LaunchKeeps, DataKeep DEF DownloadNext
<1>4. CASE UNCHANGED batchVars
  BY <1>4, <1>t, IdleKeeps
<1> QED
  BY <1>1, <1>2, <1>3, <1>4 DEF BatchNext

THEOREM Invariant == BatchSpec => [](TypeOK /\ IInv)
<1>1. BatchInit => TypeOK /\ IInv
  BY TypeInit, InitInv
<1>2. (TypeOK /\ IInv) /\ [BatchNext]_batchVars => (TypeOK /\ IInv)'
  BY TypeStep, StepInv
<1> QED
  BY <1>1, <1>2, PTL DEF BatchSpec

(* The SDK reports nothing of an action whose metadata are gone: the metadata *)
(* are removed with the last end only (TransferMetaData.cpp:114), so that no  *)
(* transfer is taken for one of an older session.                             *)
THEOREM NoneOutlivesMetadata == BatchSpec => []MetadataOutlivesTransfers
<1>1. TypeOK /\ IInv => MetadataOutlivesTransfers
  BY LiveFacts DEF IInv, MetadataOutlivesTransfers
<1> QED
  BY <1>1, Invariant, PTL

(* The end of a scan is announced when each file is known, in whatever order  *)
(* the listener counts files and the GUI thread the totals of folders.        *)
THEOREM ScansAreComplete == BatchSpec => []ScanIsComplete
<1>1. TypeOK /\ IInv => ScanIsComplete
  <2> SUFFICES ASSUME TypeOK, IInv, NEW i \in 1..Len(queued),
                      queued[i].kind = "scanFinished", ~processCancelled[queued[i].id]
               PROVE  Complete(queued[i].id)
    BY DEF ScanIsComplete, Complete
  <2>1. queued[i] \in Calls
    BY DEF TypeOK
  <2>2. queued[i].id \in Actions /\ queued[i] = scanFinished(queued[i].id)
    BY <2>1 DEF Calls, scanFinished
  <2> QED
    BY <2>2 DEF IInv, ScanInv, IsIn
<1> QED
  BY <1>1, Invariant, PTL

(* An action that is over is reported or forgotten, and reported once.        *)
THEOREM EndsAreReportedOnce == BatchSpec => []EndIsReportedOnce
<1>1. TypeOK /\ IInv => EndIsReportedOnce
  BY DEF IInv, ReportInv, Reported, EndIsReportedOnce, Announced, IsIn, Once
<1> QED
  BY <1>1, Invariant, PTL

(* The windows are blocked for a batch that will release them.                *)
THEOREM BlockedForBatches == BatchSpec => []BlockedForABatch
<1>1. TypeOK /\ IInv => BlockedForABatch
  BY DEF IInv, StageInv
<1> QED
  BY <1>1, Invariant, PTL

(* A call about an older action does not end the stage of the next one.       *)
THEOREM NobodyElseUnblocks == BatchSpec => OthersDoNotUnblock
<1> DEFINE Ended == (scanTimer \/ scanning) /\ ~(scanTimer' \/ scanning')
           Fair == batch' = NoAction \/ batch \in tokens \/ replaced
<1>1. TypeOK /\ IInv /\ [BatchNext]_batchVars => [Ended => Fair]_batchVars
  <2> SUFFICES ASSUME TypeOK, IInv, BatchNext, Ended PROVE Fair
    OBVIOUS
  <2>1. CASE handleQueued
    <3>1. transferBatchFinished(Head(queued).id)
      BY <2>1 DEF handleQueued, scanVars
    <3> QED
      BY <3>1 DEF transferBatchFinished, scanVars, IInv, CancelInv
  <2>2. CASE timeout
    BY <2>2 DEF timeout, Timers, startScanStage, onMinimumDisplayTimeElapsed, setUiInCancellingStage
  <2>3. CASE \E t \in Top : upload(t) \/ download(t)
    BY <2>3 DEF upload, download, startDelayedScanStage, scanVars
  <2>4. CASE cancelScanning
    BY <2>4 DEF cancelScanning, setDelayedCancellingStage
  <2>5. CASE UNCHANGED scanVars
    BY <2>5 DEF scanVars
  <2>6. SdkNext \/ DownloadNext \/ (\E d \in Folders : onFolderTransferUpdate(d))
        \/ (\E a \in Actions : onUploadsCheckedAndReady(a)) => UNCHANGED scanVars
    BY DEF SdkNext, DownloadNext, onTransferStart, onTransferFinish, onFolderTransferUpdate,
           onUploadsCheckedAndReady, createTransferMetaData, launchDownload, downloadAtOnce,
           forgetDownload, launch
  <2> QED
    BY <2>1, <2>2, <2>3, <2>4, <2>5, <2>6 DEF BatchNext, GuiNext
<1> QED
  BY <1>1, Invariant, PTL DEF BatchSpec, OthersDoNotUnblock

-----------------------------------------------------------------------------
(* That the windows do not stay blocked for nothing: while the GUI thread     *)
(* waits for the end of a scan, what brings that end is still under way. The  *)
(* condition of checkScanningState is looked at only when something happens,  *)
(* so the last thing that happens must find it true, whichever it is.         *)

OverNow(a) ==
    /\ initial[a] > 0
    /\ IF processCancelled[a]
         THEN InState(mFiles, a, "pending") = {}
         ELSE /\ total[a] = Cardinality(Known(mFiles, a))
              /\ started[a] = initial[a]

RequestedInv ==
    \A a \in Actions : Launched(a) /\ requesting # a => \A t \in Tops(a) : sdk[t] # "none"

NothingIn(d) == \A f \in Inside(d) : sdk[f] = "none"

EmptyInv == \A d \in Folders : Over(d) /\ NothingIn(d) => d \in emptyFolders

OverInv ==
    \A d \in Folders : Over(d) => \/ ActionOf[d] \in tokens
                                  \/ \A f \in Inside(d) : Over(f)
                                  \/ d \notin scanned /\ NothingIn(d)

ToldInv == batch \in appData /\ OverNow(batch) => IsIn(queued, scanFinished(batch))

ReleaseInv == RequestedInv /\ EmptyInv /\ OverInv /\ ToldInv

(* The batch that is waited for and whose metadata are there has been told,   *)
(* is still being asked for, has a transfer under way, or a folder whose      *)
(* scan the GUI thread has yet to hear of.                                    *)
BatchIsNotStuck ==
    batch \in appData =>
        \/ IsIn(queued, scanFinished(batch))
        \/ requesting = batch
        \/ \E t \in Transfers : Owner(t) = batch /\ sdk[t] \in Live
        \/ \E d \in Folders : ActionOf[d] = batch /\ WasScanned(d) /\ d \notin scanned

LEMMA NotStuck == TypeOK /\ IInv /\ ReleaseInv => BatchIsNotStuck
<1> SUFFICES ASSUME TypeOK, IInv, ReleaseInv, batch \in appData, requesting # batch,
                    \A t \in Transfers : Owner(t) = batch => sdk[t] \notin Live,
                    \A d \in Folders : ActionOf[d] = batch /\ WasScanned(d) => d \in scanned
             PROVE  OverNow(batch)
  BY DEF BatchIsNotStuck, ReleaseInv, ToldInv
<1> DEFINE a == batch
<1>1. a \in Actions /\ Launched(a)
  BY BatchAssumption DEF TypeOK, IInv, PhaseInv
<1>2. initial[a] = Cardinality(Tops(a)) /\ initial[a] > 0
  <2>1. initial[a] = Cardinality(Tops(a)) /\ Tops(a) # {} /\ IsFiniteSet(Tops(a))
    BY <1>1, FiniteParts DEF IInv, PhaseInv
  <2> QED
    BY <2>1, <1>1, FS_EmptySet, FiniteParts
<1>3. \A t \in Transfers : Owner(t) = a => sdk[t] \in {"none"} \union Ends
  BY DEF TypeOK, SdkStates
<1>4. \A t \in Tops(a) : Over(t) /\ Begun(t) /\ t \in Transfers /\ Owner(t) = a
  <2> SUFFICES ASSUME NEW t \in Tops(a) PROVE Over(t) /\ Begun(t) /\ t \in Transfers /\ Owner(t) = a
    OBVIOUS
  <2>1. t \in Top /\ t \in Transfers /\ Owner(t) = a
    BY ConstantTypes DEF Tops, Transfers
  <2>2. sdk[t] # "none"
    BY <1>1 DEF ReleaseInv, RequestedInv
  <2> QED
    BY <2>1, <2>2, <1>3 DEF Over, Begun, Ends
<1>5. \A f \in FilesOf(a) : /\ sdk[f] \in {"none"} \union Ends /\ mFiles[f] = Mirror(sdk[f])
                            /\ f \in TopFiles => f \in Tops(a)
                            /\ f \in NestedFiles => FolderOf[f] \in Folders \cap Tops(a) /\ f \in Inside(FolderOf[f])
  BY <1>3, ConstantTypes DEF FilesOf, Files, IInv, FilesInv, Tops, Owner
<1>6. CASE processCancelled[a]
  BY <1>2, <1>5, <1>6 DEF OverNow, InState, Mirror, Ends
<1>7. CASE ~processCancelled[a]
  <2>1. a \notin tokens /\ started[a] = Cardinality(CountedTops(a)) /\ total[a] = Cardinality(Expected(a))
    BY <1>1, <1>7 DEF IInv, CancelInv, CountInv
  <2>2. ASSUME NEW d \in Folders \cap Tops(a)
        PROVE  /\ (\A f \in Inside(d) : Over(f)) \/ (d \notin scanned /\ NothingIn(d))
               /\ NothingIn(d) => d \in emptyFolders
               /\ ~NothingIn(d) => d \in scanned
    <3>1. Over(d) /\ ActionOf[d] = a
      BY <1>4 DEF Tops
    <3>2. ~NothingIn(d) => WasScanned(d)
      BY DEF NothingIn, WasScanned
    <3> QED
      BY <2>1, <3>1, <3>2 DEF ReleaseInv, OverInv, EmptyInv
  <2>3. CountedTops(a) = Tops(a)
    <3>1. \A t \in Tops(a) : t \in TopFiles \/ t \in Folders
      BY DEF Tops, Top
    <3> QED
      BY <3>1, <2>2, <1>4 DEF CountedTops
  <2>4. Expected(a) = Known(mFiles, a)
    <3> SUFFICES ASSUME NEW f \in FilesOf(a) PROVE f \in Expected(a) <=> f \in Known(mFiles, a)
      BY DEF Expected, Known
    <3>1. CASE f \in TopFiles
      BY <3>1, <1>4, <1>5 DEF Expected, Known, Mirror, Begun, Over, Ends
    <3>2. CASE f \in NestedFiles
      <4> DEFINE d == FolderOf[f]
      <4>1. d \in Folders \cap Tops(a) /\ f \in Inside(d) /\ f \notin TopFiles
        BY <3>2, <1>5, ConstantTypes
      <4>2. f \in Known(mFiles, a) <=> sdk[f] # "none"
        BY <1>5 DEF Known, Mirror, Ends
      <4>3. sdk[f] # "none" => d \in scanned
        BY <4>1, <2>2 DEF NothingIn
      <4>4. d \in scanned => Over(f)
        BY <4>1, <2>2
      <4> QED
        BY <3>2, <4>1, <4>2, <4>3, <4>4 DEF Expected, Over, Ends
    <3> QED
      BY <3>1, <3>2 DEF FilesOf, Files
  <2> QED
    BY <1>2, <1>7, <2>1, <2>3, <2>4 DEF OverNow
<1> QED
  BY <1>6, <1>7

(* A step that leaves alone what the condition looks at, or looks at it when  *)
(* it has changed it, keeps ToldInv.                                          *)
LEMMA TellsAfterwards ==
    ASSUME TypeOK, NEW a \in Actions, NEW calls \in Seq(Calls),
           calls = queued \/ (\E c \in Calls : calls = Append(queued, c)),
           checkScanningState(a, calls), ToldInv, batch' = batch, appData' \subseteq appData,
           batch # a => (OverNow(batch)' => OverNow(batch))
    PROVE  ToldInv'
<1> SUFFICES ASSUME batch \in appData, OverNow(batch)' PROVE IsIn(queued', scanFinished(batch))
  BY DEF ToldInv, IsIn
<1>1. \A c \in Calls : /\ Append(calls, c) \in Seq(Calls) /\ IsIn(Append(calls, c), c)
                       /\ \A x : IsIn(calls, x) => IsIn(Append(calls, c), x)
  BY AppendedCalls
<1>2. scanFinished(a) \in Calls
  BY DEF scanFinished, Calls
<1>3. CASE batch = a
  <2>1. ScanIsOver(a)
    BY <1>3 DEF OverNow, ScanIsOver
  <2> QED
    BY <2>1, <1>1, <1>2, <1>3 DEF checkScanningState
<1>4. CASE batch # a
  <2>1. IsIn(queued, scanFinished(batch))
    BY <1>4 DEF ToldInv
  <2>2. queued \in Seq(Calls) /\ \A c \in Calls : IsIn(Append(queued, c), scanFinished(batch))
    <3>1. queued \in Seq(Calls)
      BY DEF TypeOK
    <3> QED
      BY <2>1, <3>1, AppendedCalls
  <2>3. IsIn(calls, scanFinished(batch))
    BY <2>1, <2>2
  <2> QED
    BY <2>3, <1>1, <1>2 DEF checkScanningState
<1> QED
  BY <1>3, <1>4

LEMMA SameData ==
    ASSUME NEW a \in Actions,
           initial'[a] = initial[a], processCancelled'[a] = processCancelled[a],
           started'[a] = started[a], total'[a] = total[a],
           \A f \in FilesOf(a) : mFiles'[f] = mFiles[f]
    PROVE  OverNow(a)' <=> OverNow(a)
<1>1. /\ Known(mFiles', a) = Known(mFiles, a)
      /\ InState(mFiles', a, "pending") = InState(mFiles, a, "pending")
  BY DEF Known, InState
<1> QED
  BY <1>1 DEF OverNow

(* Nothing that was asked for becomes unasked, no end is taken back.          *)
LEMMA SdkForward ==
    ASSUME TypeOK, IInv, [BatchNext]_batchVars
    PROVE  /\ \A t \in Transfers : /\ sdk[t] # "none" => sdk'[t] # "none"
                                   /\ Over(t) => Over(t)' /\ sdk'[t] = sdk[t]
           /\ tokens \subseteq tokens'
           /\ emptyFolders \subseteq emptyFolders'
<1> USE DEF Over, Ends
<1>1. CASE \E t \in Transfers : onTransferStart(t)
  <2>1. PICK t \in Transfers : onTransferStart(t)
    BY <1>1
  <2> QED
    BY <2>1, StartEffect DEF TypeOK
<1>2. CASE \E t \in Transfers, end \in Ends, enabled \in BOOLEAN : onTransferFinish(t, end, enabled)
  <2>1. PICK t \in Transfers, end \in Ends, enabled \in BOOLEAN : onTransferFinish(t, end, enabled)
    BY <1>2
  <2>2. /\ sdk' = [sdk EXCEPT ![t] = end] /\ sdk[t] = "started" /\ UNCHANGED tokens
        /\ emptyFolders \subseteq emptyFolders'
    BY <2>1, FinishEffect
  <2> QED
    BY <2>2 DEF TypeOK
<1>3. CASE \E t \in Top : upload(t) \/ download(t)
  <2>1. PICK t \in Top : sdk[t] = "none" /\ sdk' = [sdk EXCEPT ![t] = "requested"]
                         /\ UNCHANGED <<tokens, emptyFolders>>
    BY <1>3 DEF upload, download, Requested, metaVars
  <2> QED
    BY <2>1 DEF TypeOK
<1>4. CASE UNCHANGED <<sdk, tokens, emptyFolders>>
  BY <1>4
<1>5. CASE cancelScanning
  BY <1>5 DEF cancelScanning
<1>6. (\E d \in Folders : onFolderTransferUpdate(d)) \/ (\E a \in Actions : onUploadsCheckedAndReady(a))
      \/ handleQueued \/ timeout \/ DownloadNext \/ UNCHANGED batchVars
      => UNCHANGED <<sdk, tokens, emptyFolders>>
  BY DEF onFolderTransferUpdate, onUploadsCheckedAndReady, launch, handleQueued, timeout, metaVars,
         DownloadNext, createTransferMetaData, launchDownload, downloadAtOnce, forgetDownload,
         batchVars
<1> QED
  BY <1>1, <1>2, <1>3, <1>4, <1>5, <1>6 DEF BatchNext, SdkNext, GuiNext

LEMMA RequestedStep ==
    ASSUME TypeOK, IInv, RequestedInv, [BatchNext]_batchVars
    PROVE  RequestedInv'
<1>1. \A t \in Transfers : sdk[t] # "none" => sdk'[t] # "none"
  BY SdkForward
<1>2. \A b \in Actions : Tops(b) \subseteq Transfers
  BY DEF Tops, Transfers
<1>3. CASE UNCHANGED <<initial, requesting>>
  BY <1>1, <1>2, <1>3 DEF RequestedInv, Launched
<1>4. CASE \E a \in Actions : launch(a, Cardinality(Tops(a))) /\ requesting = NoAction /\ requesting' = a
  <2>1. PICK a \in Actions : /\ initial' = [initial EXCEPT ![a] = Cardinality(Tops(a))]
                             /\ requesting = NoAction /\ requesting' = a
    BY <1>4 DEF launch
  <2>2. \A b \in Actions \ {a} : Launched(b)' => Launched(b) /\ requesting # b
    BY <2>1, BatchAssumption DEF TypeOK, Launched
  <2> QED
    BY <1>1, <1>2, <2>1, <2>2 DEF RequestedInv
<1>5. CASE \E t \in Top : upload(t) \/ download(t)
  <2>0. PICK t \in Top : upload(t) \/ download(t)
    BY <1>5
  <2>1. /\ requesting \in Actions /\ t \in Tops(requesting) /\ Requested(t)
        /\ UNCHANGED initial
    BY <2>0, BatchAssumption DEF upload, download, metaVars
  <2> DEFINE a == requesting
  <2>2. sdk'[t] # "none" /\ t \in Transfers /\ Owner(t) = a
    BY <2>1, ConstantTypes DEF Requested, TypeOK, Transfers, Tops
  <2>3. \A b \in Actions \ {a} : Launched(b)' => \A s \in Tops(b) : sdk'[s] # "none"
    BY <1>1, <1>2, <2>1 DEF RequestedInv, Launched
  <2>4. requesting' # a => \A s \in Tops(a) : sdk'[s] # "none"
    BY <1>1, <1>2, <2>1, <2>2 DEF Requested
  <2> QED
    BY <2>1, <2>3, <2>4 DEF RequestedInv
<1>6. (\E a \in Actions : onUploadsCheckedAndReady(a) \/ launchDownload(a) \/ downloadAtOnce(a))
      => \E a \in Actions : launch(a, Cardinality(Tops(a))) /\ requesting = NoAction /\ requesting' = a
  BY DEF onUploadsCheckedAndReady, launchDownload, downloadAtOnce, GuiIsFree
<1>7. SdkNext \/ (\E d \in Folders : onFolderTransferUpdate(d)) \/ handleQueued \/ cancelScanning \/ timeout
      \/ (\E a \in Actions : createTransferMetaData(a) \/ forgetDownload(a)) \/ UNCHANGED batchVars
      => UNCHANGED <<initial, requesting>>
  <2>1. \A t \in Transfers : onTransferStart(t) => UNCHANGED <<initial, requesting>>
    BY StartEffect DEF appVars
  <2>2. \A t \in Transfers, end \in Ends, enabled \in BOOLEAN :
            onTransferFinish(t, end, enabled) => UNCHANGED <<initial, requesting>>
    BY FinishEffect DEF appVars
  <2>3. \A d \in Folders : onFolderTransferUpdate(d) => UNCHANGED <<initial, requesting>>
    BY ScannedEffect DEF appVars
  <2>4. cancelScanning => UNCHANGED <<initial, requesting>>
    BY DEF cancelScanning
  <2>5. handleQueued \/ timeout \/ (\E a \in Actions : createTransferMetaData(a) \/ forgetDownload(a))
        \/ UNCHANGED batchVars => UNCHANGED <<initial, requesting>>
    BY DEF handleQueued, timeout, createTransferMetaData, forgetDownload, batchVars, metaVars, appVars
  <2> QED
    BY <2>1, <2>2, <2>3, <2>4, <2>5 DEF SdkNext
<1> QED
  BY <1>3, <1>4, <1>5, <1>6, <1>7 DEF BatchNext, GuiNext, DownloadNext

(* The ends of folders.                                                       *)
LEMMA FoldersStep ==
    ASSUME TypeOK, IInv, EmptyInv, OverInv, [BatchNext]_batchVars
    PROVE  EmptyInv' /\ OverInv'
<1>1. /\ \A t \in Transfers : /\ sdk[t] # "none" => sdk'[t] # "none"
                              /\ Over(t) => Over(t)' /\ sdk'[t] = sdk[t]
      /\ tokens \subseteq tokens' /\ emptyFolders \subseteq emptyFolders'
  BY SdkForward
<1>2. \A d \in Folders : d \in Transfers /\ d \notin NestedFiles /\ Inside(d) \subseteq NestedFiles
                         /\ NestedFiles \subseteq Transfers
  BY ConstantTypes DEF Inside, Transfers
<1>3. ASSUME NEW d \in Folders, Over(d)', ~Over(d)
      PROVE  \E end \in Ends, enabled \in BOOLEAN : onTransferFinish(d, end, enabled)
  <2>1. ASSUME NEW t \in Transfers, onTransferStart(t) PROVE FALSE
    <3>1. sdk' = [sdk EXCEPT ![t] = "started"]
      BY <2>1, StartEffect
    <3> QED
      BY <3>1, <1>2, <1>3 DEF TypeOK, Over, Ends
  <2>2. ASSUME NEW t \in Transfers, NEW end \in Ends, NEW enabled \in BOOLEAN,
               onTransferFinish(t, end, enabled)
        PROVE  t = d
    <3>1. sdk' = [sdk EXCEPT ![t] = end]
      BY <2>2, FinishEffect
    <3> QED
      BY <3>1, <1>2, <1>3 DEF TypeOK, Over
  <2>3. ASSUME NEW t \in Top, upload(t) \/ download(t) PROVE FALSE
    <3>1. sdk' = [sdk EXCEPT ![t] = "requested"]
      BY <2>3 DEF upload, download, Requested
    <3> QED
      BY <3>1, <1>2, <1>3 DEF TypeOK, Over, Ends
  <2>4. sdk' # sdk
    BY <1>3 DEF Over
  <2>5. (\E b \in Folders : onFolderTransferUpdate(b)) \/ (\E a \in Actions : onUploadsCheckedAndReady(a))
        \/ handleQueued \/ cancelScanning \/ timeout \/ DownloadNext \/ UNCHANGED batchVars
        => sdk' = sdk
    BY DEF onFolderTransferUpdate, onUploadsCheckedAndReady, launch, handleQueued, timeout,
           cancelScanning, DownloadNext, createTransferMetaData, launchDownload, downloadAtOnce,
           forgetDownload, batchVars
  <2>6. CASE \E t \in Transfers, end \in Ends, enabled \in BOOLEAN : onTransferFinish(t, end, enabled)
    BY <2>2, <2>6
  <2> QED
    BY <2>1, <2>3, <2>4, <2>5, <2>6 DEF BatchNext, SdkNext, GuiNext
<1>4. ASSUME NEW d \in Folders, NEW end \in Ends, NEW enabled \in BOOLEAN,
             onTransferFinish(d, end, enabled)
      PROVE  /\ \A f \in Inside(d) : sdk'[f] = sdk[f]
             /\ NothingIn(d) => d \in emptyFolders'
             /\ \/ ActionOf[d] \in tokens
                \/ \A f \in Inside(d) : Over(f)
                \/ d \notin scanned /\ NothingIn(d)
             /\ UNCHANGED scanned
  <2>1. /\ sdk' = [sdk EXCEPT ![d] = end] /\ CanEnd(d, end) /\ UNCHANGED scanned
        /\ emptyFolders' = IF EndedEmpty(d) THEN emptyFolders \union {d} ELSE emptyFolders
    BY <1>2, <1>4, FinishEffect
  <2>2. \A f \in Inside(d) : sdk'[f] = sdk[f]
    BY <2>1, <1>2 DEF TypeOK
  <2>3. NothingIn(d) => EndedEmpty(d)
    <3>1. \A f \in Inside(d) : mFiles[f] = Mirror(sdk[f])
      BY <1>2, ConstantTypes DEF IInv, FilesInv
    <3> QED
      BY <3>1 DEF NothingIn, EndedEmpty, Mirror
  <2>4. Owner(d) = ActionOf[d]
    BY <1>2 DEF Owner
  <2> QED
    BY <2>1, <2>2, <2>3, <2>4 DEF CanEnd, NothingIn
<1>5. EmptyInv'
  <2> SUFFICES ASSUME NEW d \in Folders, Over(d)', NothingIn(d)' PROVE d \in emptyFolders'
    BY DEF EmptyInv
  <2>1. NothingIn(d)
    BY <1>1, <1>2 DEF NothingIn
  <2>2. CASE Over(d)
    BY <2>1, <2>2, <1>1 DEF EmptyInv
  <2>3. CASE ~Over(d)
    BY <2>1, <2>3, <1>3, <1>4
  <2> QED
    BY <2>2, <2>3
<1>6. OverInv'
  <2> SUFFICES ASSUME NEW d \in Folders, Over(d)'
               PROVE  \/ ActionOf[d] \in tokens'
                      \/ \A f \in Inside(d) : Over(f)'
                      \/ d \notin scanned' /\ NothingIn(d)'
    BY DEF OverInv
  <2>1. (\A f \in Inside(d) : Over(f)) => \A f \in Inside(d) : Over(f)'
    BY <1>1, <1>2
  <2>2. CASE ~Over(d)
    <3>1. NothingIn(d) /\ d \notin scanned => NothingIn(d)' /\ d \notin scanned'
      BY <2>2, <1>3, <1>4 DEF NothingIn
    <3> QED
      BY <2>1, <2>2, <3>1, <1>1, <1>3, <1>4
  <2>3. CASE Over(d)
    <3>1. ASSUME NothingIn(d), d \notin scanned PROVE NothingIn(d)' /\ d \notin scanned'
      <4>1. d \notin scanned'
        <5>1. ASSUME NEW b \in Folders, onFolderTransferUpdate(b) PROVE b # d
          BY <5>1, <2>3, <3>1 DEF onFolderTransferUpdate, WasScanned, NothingIn, Over, Ends
        <5>2. \A b \in Folders : onFolderTransferUpdate(b) => scanned' = scanned \union {b}
          BY DEF onFolderTransferUpdate
        <5>3. (\E a \in Actions : onUploadsCheckedAndReady(a)) \/ handleQueued \/ cancelScanning
              \/ timeout \/ DownloadNext \/ SdkNext \/ (\E t \in Top : upload(t) \/ download(t))
              \/ UNCHANGED batchVars
              => scanned' = scanned
          BY DEF onUploadsCheckedAndReady, launch, handleQueued, timeout, cancelScanning,
                 DownloadNext, createTransferMetaData, launchDownload, downloadAtOnce,
                 forgetDownload, upload, download, SdkNext, onTransferStart, onTransferFinish, batchVars
        <5> QED
          BY <3>1, <5>1, <5>2, <5>3 DEF BatchNext, GuiNext
      <4>2. NothingIn(d)'
        <5>1. sdk[d] # "started"
          BY <2>3 DEF Over, Ends
        <5>2. ASSUME NEW t \in Transfers, onTransferStart(t) PROVE \A f \in Inside(d) : sdk'[f] = sdk[f]
          <6>1. sdk' = [sdk EXCEPT ![t] = "started"] /\ (t \in NestedFiles => sdk[FolderOf[t]] = "started")
            BY <5>2, StartEffect
          <6>2. t \notin Inside(d)
            BY <6>1, <5>1 DEF Inside
          <6> QED
            BY <6>1, <6>2, <1>2 DEF TypeOK
        <5>3. ASSUME NEW t \in Transfers, NEW end \in Ends, NEW enabled \in BOOLEAN,
                     onTransferFinish(t, end, enabled)
              PROVE  \A f \in Inside(d) : sdk'[f] = sdk[f]
          <6>1. sdk' = [sdk EXCEPT ![t] = end] /\ sdk[t] = "started"
            BY <5>3, FinishEffect
          <6>2. t \notin Inside(d)
            BY <6>1, <3>1 DEF NothingIn
          <6> QED
            BY <6>1, <6>2, <1>2 DEF TypeOK
        <5>4. ASSUME NEW t \in Top, upload(t) \/ download(t)
              PROVE  \A f \in Inside(d) : sdk'[f] = sdk[f]
          <6>1. sdk' = [sdk EXCEPT ![t] = "requested"]
            BY <5>4 DEF upload, download, Requested
          <6>2. t \notin Inside(d)
            BY ConstantTypes DEF Inside
          <6> QED
            BY <6>1, <6>2, <1>2 DEF TypeOK
        <5>5. (\E b \in Folders : onFolderTransferUpdate(b)) \/ (\E a \in Actions : onUploadsCheckedAndReady(a))
              \/ handleQueued \/ cancelScanning \/ timeout \/ DownloadNext \/ UNCHANGED batchVars
              => sdk' = sdk
          BY DEF onFolderTransferUpdate, onUploadsCheckedAndReady, launch, handleQueued, timeout,
                 cancelScanning, DownloadNext, createTransferMetaData, launchDownload,
                 downloadAtOnce, forgetDownload, batchVars
        <5>6. \A f \in Inside(d) : sdk'[f] = sdk[f]
          BY <5>2, <5>3, <5>4, <5>5 DEF BatchNext, SdkNext, GuiNext
        <5> QED
          BY <3>1, <5>6 DEF NothingIn
      <4> QED
        BY <4>1, <4>2
    <3> QED
      BY <2>1, <2>3, <3>1, <1>1 DEF OverInv
  <2> QED
    BY <2>2, <2>3
<1> QED
  BY <1>5, <1>6

LEMMA ToldStep ==
    ASSUME TypeOK, TypeOK', IInv, ToldInv, [BatchNext]_batchVars
    PROVE  ToldInv'
<1>q. queued \in Seq(Calls) /\ \A a \in Actions : notify(a) \in Calls /\ Append(queued, notify(a)) \in Seq(Calls)
  <2>1. queued \in Seq(Calls) /\ \A a \in Actions : notify(a) \in Calls
    BY DEF TypeOK, notify, Calls
  <2> QED
    BY <2>1, AppendedCalls
<1>b. /\ batch \in Actions \union {NoAction} /\ appData \subseteq Actions /\ NoAction \notin Actions
      /\ batch \in Actions => Launched(batch)
  BY BatchAssumption DEF TypeOK, IInv, PhaseInv
<1>o. \A t \in Transfers, b \in Actions : Owner(t) # b => t \notin FilesOf(b)
  BY DEF FilesOf
<1>i. CASE /\ UNCHANGED <<initial, processCancelled, started, total, mFiles, batch, queued>>
           /\ batch \in appData' => batch \in appData
  BY <1>i, <1>b, SameData DEF ToldInv
<1>1. ASSUME NEW t \in Transfers, onTransferStart(t) PROVE ToldInv'
  <2> DEFINE a == Owner(t)
  <2>1. /\ a \in appData /\ a \in Actions
        /\ mFiles' = IF t \in Files THEN [mFiles EXCEPT ![t] = "pending"] ELSE mFiles
        /\ \A b \in Actions \ {a} : total'[b] = total[b] /\ started'[b] = started[b]
        /\ UNCHANGED <<batch, appData, initial, processCancelled>>
    BY <1>1, StartEffect DEF appVars
  <2>2. CASE t \in Files
    <3>1. checkScanningState(a, queued)
      BY <1>1, <2>1, <2>2 DEF onTransferStart, startInMetaData
    <3>2. batch \in Actions /\ batch # a => (OverNow(batch)' => OverNow(batch))
      <4> SUFFICES ASSUME batch \in Actions, batch # a PROVE OverNow(batch)' => OverNow(batch)
        OBVIOUS
      <4>1. \A f \in FilesOf(batch) : mFiles'[f] = mFiles[f]
        BY <2>1, <1>o DEF TypeOK, FilesOf
      <4> QED
        BY <2>1, <4>1, SameData
    <3>3. CASE batch \in Actions
      BY <2>1, <3>1, <3>2, <3>3, <1>q, TellsAfterwards
    <3>4. CASE batch \notin Actions
      BY <2>1, <3>4, <1>b DEF ToldInv
    <3> QED
      BY <3>3, <3>4
  <2>3. CASE t \notin Files
    BY <1>1, <2>1, <2>3, <1>i DEF onTransferStart, startInMetaData
  <2> QED
    BY <2>2, <2>3
<1>2. ASSUME NEW t \in Transfers, NEW end \in Ends, NEW enabled \in BOOLEAN,
             onTransferFinish(t, end, enabled)
      PROVE  ToldInv'
  <2> DEFINE a == Owner(t)
             changed == hasChanged[a] \/ (t \in Files /\ mFiles[t] = "pending")
  <2>1. /\ a \in appData /\ a \in Actions
        /\ mFiles' = IF t \in Files THEN [mFiles EXCEPT ![t] = end] ELSE mFiles
        /\ \A b \in Actions \ {a} : started'[b] = started[b]
        /\ UNCHANGED <<batch, initial, processCancelled, total>> /\ appData' \subseteq appData
    BY <1>2, FinishEffect DEF appVars
  <2>2. PICK calls \in {queued, Append(queued, notify(a))} : checkScanningState(a, calls)
    <3>1. checkAndSendNotification(a, enabled, changed)
      BY <1>2, <2>1 DEF onTransferFinish, finishInMetaData
    <3> QED
      BY <3>1 DEF checkAndSendNotification
  <2>3. ASSUME batch \in Actions, batch # a PROVE OverNow(batch)' => OverNow(batch)
    <3>1. \A f \in FilesOf(batch) : mFiles'[f] = mFiles[f]
      BY <2>1, <2>3, <1>o DEF TypeOK, FilesOf
    <3> QED
      BY <2>1, <2>3, <3>1, SameData
  <2>4. CASE batch \in Actions
    BY <2>1, <2>2, <2>3, <2>4, <1>q, TellsAfterwards
  <2>5. CASE batch \notin Actions
    BY <2>1, <2>5, <1>b DEF ToldInv
  <2> QED
    BY <2>4, <2>5
<1>3. ASSUME NEW d \in Folders, onFolderTransferUpdate(d) PROVE ToldInv'
  <2> DEFINE a == ActionOf[d]
  <2>1. /\ a \in Actions
        /\ \A b \in Actions \ {a} : total'[b] = total[b] /\ started'[b] = started[b]
        /\ UNCHANGED <<batch, appData, initial, processCancelled, mFiles>>
    BY <1>3, ScannedEffect DEF appVars
  <2>2. CASE a \in appData
    <3>1. checkScanningState(a, queued)
      BY <1>3, <2>2 DEF onFolderTransferUpdate
    <3>2. batch \in Actions /\ batch # a => (OverNow(batch)' => OverNow(batch))
      BY <2>1, SameData
    <3>3. CASE batch \in Actions
      BY <2>1, <3>1, <3>2, <3>3, <1>q, TellsAfterwards
    <3>4. CASE batch \notin Actions
      BY <2>1, <3>4, <1>b DEF ToldInv
    <3> QED
      BY <3>3, <3>4
  <2>3. CASE a \notin appData
    BY <1>3, <2>1, <2>3, <1>i DEF onFolderTransferUpdate
  <2> QED
    BY <2>2, <2>3
<1>4. ASSUME NEW a \in Actions, launch(a, Cardinality(Tops(a))), ~Launched(a) PROVE ToldInv'
  <2>1. started[a] = 0 /\ ~processCancelled[a]
    BY <1>4 DEF IInv, PhaseInv
  <2>2. UNCHANGED <<started, processCancelled>> /\ batch' = a
    BY <1>4 DEF launch
  <2>3. ~OverNow(a)'
    BY <2>1, <2>2 DEF OverNow
  <2> QED
    BY <2>2, <2>3 DEF ToldInv, OverNow
<1>5. ASSUME NEW a \in Actions, createTransferMetaData(a) \/ forgetDownload(a) PROVE ToldInv'
  <2>1. ~Launched(a) /\ appData' \subseteq appData \union {a}
        /\ UNCHANGED <<initial, processCancelled, started, total, mFiles, batch, queued>>
    BY <1>5 DEF createTransferMetaData, forgetDownload, NotBegun, Launched, appVars
  <2> QED
    BY <2>1, <1>i, <1>b
<1>6. CASE handleQueued
  <2> DEFINE call == Head(queued)
  <2>1. /\ UNCHANGED metaVars /\ queued' = Tail(queued) /\ queued # <<>>
        /\ call.kind = "scanFinished" => transferBatchFinished(call.id)
        /\ batch' \in {batch, NoAction}
    BY <1>6 DEF handleQueued, transferBatchFinished
  <2> SUFFICES ASSUME (batch \in appData)', OverNow(batch)'
               PROVE  IsIn(queued, scanFinished(batch))'
    BY DEF ToldInv
  <2>2. batch' = batch /\ batch \in appData /\ batch \in Actions
    BY <2>1, <1>b DEF metaVars
  <2>3. OverNow(batch)
    BY <2>1, <2>2 DEF metaVars, OverNow
  <2>4. IsIn(queued, scanFinished(batch))
    BY <2>2, <2>3 DEF ToldInv
  <2>5. call # scanFinished(batch)
    BY <2>1, <2>2, <1>b DEF scanFinished, transferBatchFinished
  <2>6. IsIn(Tail(queued), scanFinished(batch))
    BY <2>1, <2>4, <2>5, <1>q, HandledCall
  <2> QED
    BY <2>1, <2>2, <2>6 DEF IsIn, scanFinished
<1>7. CASE cancelScanning
  <2>1. UNCHANGED <<appData, batch, initial, started, total, mFiles>>
    BY <1>7 DEF cancelScanning
  <2>2. CASE batch \in appData
    <3>1. checkScanningState(batch, queued)
      BY <1>7, <2>2, <1>b DEF cancelScanning
    <3> QED
      BY <2>1, <2>2, <3>1, <1>b, <1>q, TellsAfterwards
  <2> QED
    BY <2>1, <2>2 DEF ToldInv
<1>8. ASSUME NEW t \in Top, upload(t) \/ download(t) PROVE ToldInv'
  BY <1>8, <1>i DEF upload, download, metaVars
<1>9. CASE timeout \/ UNCHANGED batchVars
  BY <1>9, <1>i DEF timeout, metaVars, appVars, batchVars
<1>10. \A a \in Actions : onUploadsCheckedAndReady(a) \/ launchDownload(a) \/ downloadAtOnce(a)
        => launch(a, Cardinality(Tops(a))) /\ ~Launched(a)
  BY DEF onUploadsCheckedAndReady, launchDownload, downloadAtOnce, NotBegun, Launched
<1> QED
  BY <1>1, <1>2, <1>3, <1>4, <1>5, <1>6, <1>7, <1>8, <1>9, <1>10
  DEF BatchNext, SdkNext, GuiNext, DownloadNext

(* The windows are not left blocked for a batch of which nothing is to come:  *)
(* what UiIsUnblocked rests on besides the fairness of the parties. A count   *)
(* that misses a file or a folder in some order of the calls breaks it.       *)
THEOREM BatchesAreNotStuck == BatchSpec => []BatchIsNotStuck
<1>1. BatchInit => ReleaseInv
  BY ConstantTypes DEF BatchInit, ReleaseInv, RequestedInv, EmptyInv, OverInv, ToldInv, Launched, Over, Ends
<1>2. TypeOK /\ IInv /\ ReleaseInv /\ [BatchNext]_batchVars => ReleaseInv'
  <2> SUFFICES ASSUME TypeOK, IInv, ReleaseInv, [BatchNext]_batchVars PROVE ReleaseInv'
    OBVIOUS
  <2> QED
    BY TypeStep, RequestedStep, FoldersStep, ToldStep DEF ReleaseInv
<1>3. TypeOK /\ IInv /\ ReleaseInv => BatchIsNotStuck
  BY NotStuck
<1> QED
  BY <1>1, <1>2, <1>3, Invariant, PTL DEF BatchSpec
=============================================================================
