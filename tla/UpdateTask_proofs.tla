--------------------------- MODULE UpdateTask_proofs ---------------------------
(***************************************************************************)
(* Proofs about UpdateTask.  While files are swapped, every file of the    *)
(* list is in one of three states, whichever renames failed; which files   *)
(* are in which state follows from where performUpdate or rollbackUpdate   *)
(* has got to.  From that the old copies are all there, a completed update *)
(* is complete, and without failures of the rollback the swap is atomic.   *)
(***************************************************************************)
EXTENDS UpdateTask, TLAPS

Untouched(f) ==
  app[f] = before[f] /\ bak[f] = None /\ upd[f] = Release[updateVersion][f]
BackedUp(f) ==
  app[f] = None /\ bak[f] = before[f] /\ upd[f] = Release[updateVersion][f]
Swapped(f) ==
  app[f] = Release[updateVersion][f] /\ bak[f] = before[f] /\ upd[f] = None

\* What holds of every file while files are swapped.
SwapInv ==
  phase \in Installing =>
    /\ currentFile \in localPaths
    /\ \A f \in Files \ localPaths :
         app[f] = before[f] /\ app[f] = Release[updateVersion][f]
    /\ \A f \in localPaths :
         /\ before[f] # Release[updateVersion][f]
         /\ Untouched(f) \/ BackedUp(f) \/ Swapped(f)

\* performUpdate goes up the list.
UpInv ==
  phase \in {"backup", "install"} => \A f \in localPaths :
    /\ f < currentFile => Swapped(f)
    /\ f > currentFile => Untouched(f)
    /\ f = currentFile => Untouched(f) \/ (phase = "install" /\ BackedUp(f))

\* rollbackUpdate goes down the list and leaves the old files behind.
DownInv ==
  ~RollbackMayFail /\ phase \in {"undo", "restore"} => \A f \in localPaths :
    /\ f > currentFile => Untouched(f)
    /\ f = currentFile /\ phase = "restore" => Untouched(f) \/ BackedUp(f)

\* While files are downloaded, those before the current one are there.
DownloadInv ==
  phase = "file" =>
    /\ currentFile \in localPaths
    /\ localPaths = NotInstalled(updateVersion)
    /\ \A f \in localPaths : f < currentFile => upd[f] = Release[updateVersion][f]

VerifiedInv == OnlyVerifiedInstalled /\ \A f \in Files : before[f] # Bad

\* A message to the GUI stands only between two runs.
AnswerInv == running \/ phase = "down" => answer.signal = "none"

IInv ==
  /\ TypeOK
  /\ RunningMeansWork /\ AnswerInv
  /\ updateVersion <= server
  /\ VerifiedInv
  /\ DownloadInv
  /\ SwapInv /\ UpInv /\ DownInv
  /\ CompletedMeansComplete

\* All that a step relies on.
USE DEF Phases, Waiting, Installing, Contents, None, Bad
-----------------------------------------------------------------------------
(* Type correctness of the parts of a step *)

LEMMA ReleaseType ==
  /\ Release \in [Versions -> [Files -> Versions]]
  /\ \A v \in Versions, f \in Files : Release[v][f] \in Versions /\ Release[v][f] \in Nat \ {0}
PROOF BY ReleasesAssumption

LEMMA InitInv == Init => IInv
<1> SUFFICES ASSUME Init PROVE IInv
  OBVIOUS
<1> USE DEF Init
<1>0. Release[1] \in [Files -> Versions] /\ NoFiles \in [Files -> {None}]
  BY ReleasesAssumption DEF NoFiles
<1>1. TypeOK
  <2>1. app \in [Files -> Contents] /\ upd \in [Files -> Contents] /\ bak \in [Files -> Contents]
        /\ before \in [Files -> Contents]
    BY <1>0
  <2>2. answer \in Answers
    BY DEF Answers
  <2>3. crashes \in 0..MaxCrashes
    BY EnvironmentAssumption
  <2>4. version \in Versions /\ updateVersion \in Versions /\ currentFile \in Files
    BY ReleasesAssumption
  <2> QED
    BY <2>1, <2>2, <2>3, <2>4 DEF TypeOK
<1>2. VerifiedInv
  BY <1>0, ReleaseType, ReleasesAssumption DEF VerifiedInv, OnlyVerifiedInstalled
<1>3. updateVersion <= server
  BY ReleasesAssumption
<1>4. RunningMeansWork /\ AnswerInv /\ DownloadInv /\ SwapInv /\ UpInv /\ DownInv
      /\ CompletedMeansComplete
  BY DEF RunningMeansWork, AnswerInv, DownloadInv, SwapInv, UpInv, DownInv,
         CompletedMeansComplete
<1> QED
  BY <1>1, <1>2, <1>3, <1>4 DEF IInv
-----------------------------------------------------------------------------
(* Steps that swap no files *)

\* The parts of the invariant that matter only while files are downloaded or swapped.
LEMMA QuietInv ==
  ASSUME phase' \in {"down", "idle", "list"}
  PROVE  DownloadInv' /\ SwapInv' /\ UpInv' /\ DownInv'
PROOF BY DEF DownloadInv, SwapInv, UpInv, DownInv

\* Nothing that the invariant is about changes.
LEMMA FrameInv ==
  ASSUME IInv, UNCHANGED <<disk, version, running, updateVersion, localPaths, phase,
                           currentFile, answer, before>>,
         server' \in Versions, server' >= server, automatic' \in BOOLEAN,
         forceInstall' \in BOOLEAN, forceCheck' \in BOOLEAN, crashes' = crashes
  PROVE  IInv'
<1> USE DEF IInv, disk
<1>1. TypeOK'
  BY DEF TypeOK
<1>2. updateVersion' <= server'
  BY ReleasesAssumption DEF TypeOK
<1>3. RunningMeansWork' /\ AnswerInv' /\ VerifiedInv' /\ CompletedMeansComplete'
  BY DEF RunningMeansWork, AnswerInv, VerifiedInv, OnlyVerifiedInstalled, CompletedMeansComplete
<1>4. DownloadInv'
  BY DEF DownloadInv, NotInstalled
<1>5. SwapInv' /\ UpInv' /\ DownInv'
  BY DEF SwapInv, UpInv, DownInv, Untouched, BackedUp, Swapped
<1> QED
  BY <1>1, <1>2, <1>3, <1>4, <1>5

LEMMA BeginStep ==
  ASSUME IInv, updateTimer \/ installUpdate \/ checkForUpdates
  PROVE  IInv'
<1>1. CASE running
  <2> UNCHANGED <<disk, version, running, updateVersion, localPaths, phase,
                  currentFile, answer, before, world>>
      /\ forceInstall' \in BOOLEAN /\ forceCheck' \in BOOLEAN
    BY <1>1 DEF updateTimer, installUpdate, checkForUpdates, tryUpdate, job, world, IInv, TypeOK
  <2> QED
    BY FrameInv, ReleasesAssumption DEF IInv, TypeOK, world
<1>2. CASE ~running
  <2>1. begin /\ UNCHANGED <<app, upd, updateVersion, currentFile, version, before, world>>
        /\ forceInstall' \in BOOLEAN /\ forceCheck' \in BOOLEAN
    BY <1>2 DEF updateTimer, installUpdate, checkForUpdates, tryUpdate, IInv, TypeOK
  <2> USE <2>1 DEF begin, IInv, world
  <2>2. TypeOK'
    BY DEF TypeOK, Answers
  <2>3. VerifiedInv'
    BY DEF VerifiedInv, OnlyVerifiedInstalled, Removed, TypeOK
  <2>4. RunningMeansWork' /\ AnswerInv' /\ CompletedMeansComplete'
    BY DEF RunningMeansWork, AnswerInv, CompletedMeansComplete
  <2> QED
    BY <2>2, <2>3, <2>4, QuietInv
<1> QED
  BY <1>1, <1>2 DEF IInv, TypeOK

LEMMA PostponeParts ==
  ASSUME TypeOK, postponeUpdate
  PROVE  /\ phase' = "idle" /\ running' = FALSE
         /\ forceInstall' = FALSE /\ forceCheck' = FALSE
         /\ answer' \in Answers /\ answer'.signal \in {"error", "notFound"}
PROOF BY DEF postponeUpdate, Signal, Stop, TypeOK, Answers

LEMMA RequestFailsStep ==
  ASSUME IInv, requestFails
  PROVE  IInv'
<1> USE DEF IInv, requestFails, disk, world
<1>1. TypeOK' /\ RunningMeansWork' /\ AnswerInv' /\ CompletedMeansComplete'
  BY PostponeParts DEF TypeOK, RunningMeansWork, AnswerInv, CompletedMeansComplete
<1>2. VerifiedInv'
  BY DEF VerifiedInv, OnlyVerifiedInstalled
<1> QED
  BY <1>1, <1>2, QuietInv, PostponeParts

LEMMA CrashStep ==
  ASSUME IInv, Crash
  PROVE  IInv'
<1> USE DEF IInv, Crash
<1>1. upd' \in [Files -> Contents]
  BY ReleaseType DEF TypeOK, Downloaded
<1>2. answer' \in Answers
  BY DEF Answers
<1>3. crashes' \in 0..MaxCrashes
  BY EnvironmentAssumption DEF TypeOK
<1>4. TypeOK'
  BY <1>1, <1>2, <1>3 DEF TypeOK
<1>5. RunningMeansWork' /\ AnswerInv' /\ CompletedMeansComplete' /\ VerifiedInv'
  BY DEF RunningMeansWork, AnswerInv, CompletedMeansComplete, VerifiedInv, OnlyVerifiedInstalled
<1> QED
  BY <1>4, <1>5, QuietInv

LEMMA StartStep ==
  ASSUME IInv, Start
  PROVE  IInv'
<1> USE DEF IInv, Start, disk, flags, world
<1>1. TypeOK' /\ RunningMeansWork' /\ AnswerInv' /\ CompletedMeansComplete' /\ VerifiedInv'
  BY DEF TypeOK, RunningMeansWork, AnswerInv, CompletedMeansComplete, VerifiedInv,
         OnlyVerifiedInstalled
<1> QED
  BY <1>1, QuietInv

LEMMA WorldStep ==
  ASSUME IInv, NewRelease \/ setUpdateAutomatically \/ UNCHANGED vars
  PROVE  IInv'
<1>1. UNCHANGED <<disk, version, running, updateVersion, localPaths, phase, currentFile, answer,
                  before>>
      /\ crashes' = crashes
  BY DEF NewRelease, setUpdateAutomatically, vars, disk, flags, job, world
<1>2. server' \in Versions /\ server' >= server
  BY ReleasesAssumption DEF NewRelease, setUpdateAutomatically, vars, world, IInv, TypeOK
<1>3. automatic' \in BOOLEAN /\ forceInstall' \in BOOLEAN /\ forceCheck' \in BOOLEAN
  BY DEF NewRelease, setUpdateAutomatically, vars, flags, world, IInv, TypeOK
<1> QED
  BY <1>1, <1>2, <1>3, FrameInv
-----------------------------------------------------------------------------
(* Downloads: the end of downloadFinished *)

\* S are the files that have not been looked at, all others of the list are downloaded.
LEMMA ContinueStep ==
  ASSUME IInv, phase \in Waiting,
         NEW v \in Versions, v <= server, updateVersion' = v,
         NEW list, list = NotInstalled(v), localPaths' = list,
         NEW folder \in [Files -> Contents], upd' = folder,
         NEW S \in SUBSET list, \A f \in list \ S : folder[f] = Release[v][f],
         \A f \in list \ S, g \in S : f < g,
         continue(S, list, folder, v),
         UNCHANGED <<app, version, world>>
  PROVE  IInv'
<1> USE DEF IInv, world
<1>0. list \subseteq Files /\ \A f \in list : app[f] # Release[v][f]
  BY DEF NotInstalled
<1>1. CASE \E f \in ToDownload(S, folder, v) :
             /\ First(ToDownload(S, folder, v), f)
             /\ phase' = "file" /\ currentFile' = f
             /\ UNCHANGED <<flags, bak, answer, before>>
  <2> PICK f \in ToDownload(S, folder, v) :
             /\ First(ToDownload(S, folder, v), f)
             /\ phase' = "file" /\ currentFile' = f
             /\ UNCHANGED <<flags, bak, answer, before>>
    BY <1>1
  <2>1. f \in S /\ f \in list /\ \A g \in S : g < f => folder[g] = Release[v][g]
    BY <1>0, ReleasesAssumption DEF ToDownload, First
  <2>2. TypeOK'
    BY <2>1, <1>0 DEF TypeOK, flags
  <2>3. DownloadInv'
    BY <2>1, <1>0 DEF DownloadInv, NotInstalled
  <2>4. SwapInv' /\ UpInv' /\ DownInv'
    BY DEF SwapInv, UpInv, DownInv
  <2>5. RunningMeansWork' /\ AnswerInv' /\ CompletedMeansComplete'
    BY DEF RunningMeansWork, AnswerInv, CompletedMeansComplete, flags
  <2>6. VerifiedInv'
    BY DEF VerifiedInv, OnlyVerifiedInstalled
  <2> QED
    BY <2>2, <2>3, <2>4, <2>5, <2>6
<1>2. CASE /\ ToDownload(S, folder, v) = {}
           /\ \E f \in list : First(list, f) /\ currentFile' = f
           /\ phase' = "backup"
           /\ bak' = NoFiles /\ before' = app
           /\ UNCHANGED <<flags, answer>>
  <2> PICK f \in list : First(list, f) /\ currentFile' = f
    BY <1>2
  <2>1. \A g \in list : folder[g] = Release[v][g]
    BY <1>2 DEF ToDownload
  <2>2. TypeOK'
    BY <1>2, <1>0 DEF TypeOK, flags, NoFiles
  <2>3. SwapInv'
    BY <1>2, <2>1, <1>0 DEF SwapInv, Untouched, NoFiles, NotInstalled
  <2>4. UpInv' /\ DownInv' /\ DownloadInv'
    <3>1. \A g \in list : g \in Nat /\ f <= g /\ Untouched(g)'
      BY <1>2, <2>1, <1>0, ReleasesAssumption DEF First, Untouched, NoFiles
    <3>2. phase' = "backup" /\ currentFile' = f /\ f \in Nat
      BY <1>2, <3>1
    <3>3. \A g \in list : ~(g < f)
      BY <3>1, <3>2
    <3>4. ASSUME NEW g \in localPaths'
          PROVE  /\ g < currentFile' => Swapped(g)'
                 /\ g > currentFile' => Untouched(g)'
                 /\ g = currentFile' => Untouched(g)'
      BY <3>1, <3>2, <3>3 DEF Untouched
    <3>5. UpInv'
      BY <3>4 DEF UpInv, Untouched, Swapped, BackedUp
    <3> QED
      BY <3>2, <3>5 DEF DownInv, DownloadInv
  <2>5. RunningMeansWork' /\ AnswerInv' /\ CompletedMeansComplete'
    BY <1>2 DEF RunningMeansWork, AnswerInv, CompletedMeansComplete, flags
  <2>6. VerifiedInv'
    BY <1>2 DEF VerifiedInv, OnlyVerifiedInstalled, NoFiles
  <2> QED
    BY <2>2, <2>3, <2>4, <2>5, <2>6
<1>3. CASE Signal("available") /\ Stop /\ UNCHANGED <<bak, before, currentFile>>
  <2>1. TypeOK' /\ RunningMeansWork' /\ AnswerInv' /\ CompletedMeansComplete'
    BY <1>3, <1>0
    DEF Signal, Stop, TypeOK, Answers, RunningMeansWork, AnswerInv, CompletedMeansComplete
  <2>2. VerifiedInv'
    BY <1>3 DEF VerifiedInv, OnlyVerifiedInstalled
  <2> QED
    BY <1>3, <2>1, <2>2, QuietInv DEF Stop
<1> QED
  BY <1>1, <1>2, <1>3 DEF continue

LEMMA ListReceivedStep ==
  ASSUME IInv, NEW intact \in BOOLEAN, listReceived(intact)
  PROVE  IInv'
<1> USE DEF IInv, listReceived, world
<1>1. CASE server <= version \/ ~intact \/ NotInstalled(server) = {}
  <2>1. TypeOK' /\ RunningMeansWork' /\ AnswerInv' /\ CompletedMeansComplete'
    BY <1>1, PostponeParts DEF TypeOK, RunningMeansWork, AnswerInv, CompletedMeansComplete
  <2>2. VerifiedInv' /\ updateVersion' <= server'
    BY <1>1, ReleasesAssumption DEF VerifiedInv, OnlyVerifiedInstalled, TypeOK
  <2> QED
    BY <1>1, <2>1, <2>2, PostponeParts, QuietInv
<1>2. CASE ~(server <= version \/ ~intact \/ NotInstalled(server) = {})
  <2>1. server \in Versions /\ server <= server /\ upd \in [Files -> Contents] /\ upd' = upd
    BY <1>2, ReleasesAssumption DEF TypeOK, continue
  <2>2. continue(NotInstalled(server), NotInstalled(server), upd, server)
        /\ localPaths' = NotInstalled(server)
    BY <1>2
  <2> QED
    BY <2>1, <2>2, ContinueStep
<1> QED
  BY <1>1, <1>2

LEMMA FileReceivedStep ==
  ASSUME IInv, NEW intact \in BOOLEAN, NEW written \in BOOLEAN, fileReceived(intact, written)
  PROVE  IInv'
<1> USE DEF IInv, fileReceived
<1>0. Downloaded \in [Files -> Contents]
  BY ReleaseType DEF Downloaded, TypeOK
<1>1. CASE intact /\ written
  <2>1. localPaths = NotInstalled(updateVersion) /\ currentFile \in localPaths
        /\ localPaths \subseteq Files /\ currentFile \in Nat
    BY ReleasesAssumption DEF DownloadInv, TypeOK
  <2>2. \A f \in localPaths \ After(currentFile) : Downloaded[f] = Release[updateVersion][f]
    BY <2>1, ReleasesAssumption DEF After, Downloaded, DownloadInv, TypeOK
  <2>3. \A f \in localPaths \ After(currentFile), g \in After(currentFile) : f < g
    BY <2>1, ReleasesAssumption DEF After
  <2>4. After(currentFile) \in SUBSET localPaths
    BY DEF After
  <2>5. updateVersion \in Versions /\ phase \in Waiting
    BY DEF TypeOK
  <2> QED
    BY <1>0, <1>1, <2>1, <2>2, <2>3, <2>4, <2>5, ContinueStep
<1>2. CASE ~(intact /\ written)
  <2>1. upd' \in [Files -> Contents]
    BY <1>2 DEF TypeOK
  <2>2. TypeOK' /\ RunningMeansWork' /\ AnswerInv' /\ CompletedMeansComplete'
    BY <1>2, <2>1, PostponeParts
    DEF TypeOK, RunningMeansWork, AnswerInv, CompletedMeansComplete, world
  <2>3. VerifiedInv' /\ updateVersion' <= server'
    BY <1>2 DEF VerifiedInv, OnlyVerifiedInstalled, world
  <2> QED
    BY <1>2, <2>2, <2>3, PostponeParts, QuietInv
<1> QED
  BY <1>1, <1>2
-----------------------------------------------------------------------------
(* Renames *)

\* The files of the list as the steps see them.
LEMMA SwapFacts ==
  ASSUME IInv, phase \in Installing
  PROVE  /\ currentFile \in localPaths /\ localPaths \subseteq Files
         /\ updateVersion \in Versions
         /\ \A f \in localPaths : f \in Nat
         /\ \A f \in localPaths : Release[updateVersion][f] \in Nat \ {0}
         /\ running = TRUE /\ answer.signal = "none"
PROOF BY ReleaseType, ReleasesAssumption
      DEF IInv, SwapInv, TypeOK, RunningMeansWork, AnswerInv

\* A rename within a run: the types, and what does not depend on the files' states.
LEMMA RenameParts ==
  ASSUME IInv, phase \in Installing, phase' \in Installing,
         app' \in [Files -> Contents], upd' \in [Files -> Contents], bak' \in [Files -> Contents],
         \A f \in Files : app'[f] # Bad /\ bak'[f] # Bad,
         currentFile' \in localPaths,
         UNCHANGED <<version, flags, updateVersion, localPaths, answer, before, world>>
  PROVE  /\ TypeOK' /\ RunningMeansWork' /\ AnswerInv' /\ updateVersion' <= server'
         /\ VerifiedInv' /\ DownloadInv' /\ CompletedMeansComplete'
<1> USE DEF IInv, flags, world
<1>1. TypeOK'
  BY DEF TypeOK
<1>2. RunningMeansWork' /\ AnswerInv' /\ updateVersion' <= server' /\ DownloadInv'
  BY DEF RunningMeansWork, AnswerInv, DownloadInv
<1>3. VerifiedInv'
  BY DEF VerifiedInv, OnlyVerifiedInstalled
<1>4. CompletedMeansComplete'
  BY SwapFacts DEF CompletedMeansComplete
<1> QED
  BY <1>1, <1>2, <1>3, <1>4

LEMMA RenameToBackupStep ==
  ASSUME IInv, NEW ok \in BOOLEAN, renameToBackup(ok)
  PROVE  IInv'
<1> USE DEF renameToBackup
<1>1. \A f \in Files : f # currentFile => app'[f] = app[f] /\ bak'[f] = bak[f] /\ upd'[f] = upd[f]
  BY DEF Moved, Gone, IInv, TypeOK
<1>2. Untouched(currentFile)' \/ BackedUp(currentFile)'
  <2>1. Untouched(currentFile) /\ currentFile \in Files
    BY SwapFacts DEF IInv, UpInv
  <2> QED
    BY <2>1 DEF Untouched, BackedUp, CanRename, Moved, Gone, IInv, TypeOK
<1>3. app' \in [Files -> Contents] /\ bak' \in [Files -> Contents] /\ upd' \in [Files -> Contents]
      /\ \A f \in Files : app'[f] # Bad /\ bak'[f] # Bad
  BY DEF Moved, Gone, IInv, TypeOK, VerifiedInv, OnlyVerifiedInstalled
<1>4. SwapInv'
  BY <1>1, <1>2, SwapFacts DEF SwapInv, IInv, Untouched, BackedUp, Swapped, TypeOK
<1>5. UpInv' /\ DownInv'
  BY <1>1, <1>2, SwapFacts DEF UpInv, DownInv, IInv, Untouched, BackedUp, Swapped, TypeOK
<1> QED
  BY <1>3, <1>4, <1>5, RenameParts, SwapFacts DEF IInv

LEMMA RenameToAppStep ==
  ASSUME IInv, NEW ok \in BOOLEAN, renameToApp(ok)
  PROVE  IInv'
<1> USE DEF renameToApp
<1>0. currentFile \in Files /\ (Untouched(currentFile) \/ BackedUp(currentFile))
  BY SwapFacts DEF IInv, UpInv
<1>1. CASE ok /\ CanRename(upd, app)
  <2>1. BackedUp(currentFile)
    BY <1>0, <1>1, SwapFacts DEF Untouched, BackedUp, CanRename
  <2>2. app' = Moved(upd, app) /\ app' \in [Files -> Contents]
    BY <1>1 DEF Moved, IInv, TypeOK
  <2>3. app'[currentFile] = Release[updateVersion][currentFile]
        /\ \A f \in Files : f # currentFile => app'[f] = app[f]
    BY <1>0, <2>1, <2>2 DEF BackedUp, Moved, IInv, TypeOK
  <2>4. \A f \in Files : app'[f] # Bad
    <3>1. app'[currentFile] \in Nat
      BY <2>3, SwapFacts
    <3>2. \A f \in Files : app[f] # Bad
      BY DEF IInv, VerifiedInv, OnlyVerifiedInstalled
    <3> QED
      BY <2>3, <3>1, <3>2
  <2>5. Gone(upd) \in [Files -> Contents] /\ Gone(upd)[currentFile] = None
        /\ \A f \in Files : f # currentFile => Gone(upd)[f] = upd[f]
    BY <1>0 DEF Gone, IInv, TypeOK
  <2>6. CASE /\ \E f \in After(currentFile) : First(After(currentFile), f) /\ currentFile' = f
             /\ phase' = "backup" /\ upd' = Gone(upd)
             /\ UNCHANGED <<version, flags, answer>>
    <3>0. UNCHANGED <<bak, before, updateVersion, localPaths>>
      BY <1>1
    <3>1. currentFile' \in localPaths /\ currentFile' > currentFile
          /\ \A g \in localPaths : g < currentFile' => g <= currentFile
      BY <2>6, SwapFacts DEF After, First
    <3>2. app'[currentFile] = Release[updateVersion][currentFile]
          /\ bak[currentFile] = before[currentFile] /\ upd'[currentFile] = None
      BY <2>1, <2>3, <2>5, <2>6 DEF BackedUp
    <3>3. \A f \in Files : f # currentFile => app'[f] = app[f] /\ upd'[f] = upd[f]
      BY <2>3, <2>5, <2>6
    <3>a. currentFile \in localPaths /\ localPaths \subseteq Files /\ localPaths \subseteq Nat
      BY SwapFacts
    <3>b. \A f \in localPaths : f < currentFile' =>
            app'[f] = Release[updateVersion][f] /\ bak[f] = before[f] /\ upd'[f] = None
      <4> SUFFICES ASSUME NEW f \in localPaths, f < currentFile', f # currentFile
                   PROVE  app'[f] = Release[updateVersion][f] /\ bak[f] = before[f]
                          /\ upd'[f] = None
        BY <3>2
      <4>1. f < currentFile
        BY <3>1, <3>a
      <4> QED
        BY <3>3, <3>a, <4>1 DEF UpInv, IInv, Swapped
    <3>c. \A f \in localPaths : f >= currentFile' =>
            app'[f] = before[f] /\ bak[f] = None /\ upd'[f] = Release[updateVersion][f]
      <4> SUFFICES ASSUME NEW f \in localPaths, f >= currentFile'
                   PROVE  app'[f] = before[f] /\ bak[f] = None
                          /\ upd'[f] = Release[updateVersion][f]
        OBVIOUS
      <4>1. f > currentFile
        BY <3>1, <3>a
      <4> QED
        BY <3>3, <3>a, <4>1 DEF UpInv, IInv, Untouched
    <3>4. SwapInv'
      <4>1. \A f \in Files \ localPaths :
              app'[f] = before[f] /\ app'[f] = Release[updateVersion][f]
        BY <3>3, <3>a DEF SwapInv, IInv
      <4>2. \A f \in localPaths : before[f] # Release[updateVersion][f]
        BY DEF SwapInv, IInv
      <4>3. \A f \in localPaths : f < currentFile' \/ f >= currentFile'
        BY <3>1, <3>a
      <4> QED
        BY <3>0, <3>1, <3>b, <3>c, <4>1, <4>2, <4>3 DEF SwapInv, Untouched, Swapped
    <3>5. UpInv' /\ DownInv'
      <4>1. \A f \in localPaths : f > currentFile' \/ f = currentFile' => f >= currentFile'
        BY <3>1, <3>a
      <4> QED
        BY <2>6, <3>0, <3>b, <3>c, <4>1 DEF UpInv, DownInv, Untouched, Swapped
    <3>6. upd' \in [Files -> Contents] /\ bak' \in [Files -> Contents]
          /\ \A f \in Files : bak'[f] # Bad
      BY <1>1, <2>5, <2>6 DEF IInv, TypeOK, VerifiedInv, OnlyVerifiedInstalled
    <3> QED
      BY <2>2, <2>4, <2>6, <3>1, <3>4, <3>5, <3>6, RenameParts DEF IInv
  <2>7. CASE /\ After(currentFile) = {}
             /\ finalCleanup(Gone(upd)) /\ Stop
             /\ UNCHANGED currentFile
    <3> USE DEF finalCleanup, Stop, Signal
    <3>1. app' = Release[updateVersion]
      <4>1. \A f \in localPaths : f # currentFile => f < currentFile
        BY <2>7, SwapFacts DEF After
      <4>2. \A f \in Files : app'[f] = Release[updateVersion][f]
        BY <2>3, <4>1, SwapFacts DEF IInv, SwapInv, UpInv, Swapped
      <4>3. Release[updateVersion] \in [Files -> Versions]
        BY SwapFacts, ReleasesAssumption
      <4> QED
        BY <2>2, <4>2, <4>3
    <3>2. TypeOK'
      BY <2>2, <2>7 DEF IInv, TypeOK, Answers, world
    <3>3. VerifiedInv' /\ updateVersion' <= server'
      BY <2>4, <2>7 DEF IInv, VerifiedInv, OnlyVerifiedInstalled, world
    <3>4. RunningMeansWork' /\ AnswerInv' /\ CompletedMeansComplete'
      BY <2>7, <3>1 DEF RunningMeansWork, AnswerInv, CompletedMeansComplete
    <3> QED
      BY <2>7, <3>2, <3>3, <3>4, QuietInv DEF IInv
  <2> QED
    BY <1>1, <2>6, <2>7
<1>2. CASE ~(ok /\ CanRename(upd, app))
  <2>1. phase' = "undo" /\ UNCHANGED <<app, upd, bak, version, flags, currentFile, answer, before,
                                      updateVersion, localPaths, world>>
    BY <1>2
  <2>2. SwapInv'
    BY <2>1 DEF IInv, SwapInv, Untouched, BackedUp, Swapped
  <2>3. UpInv' /\ DownInv'
    BY <2>1, SwapFacts DEF IInv, UpInv, DownInv, Untouched, BackedUp
  <2> QED
    BY <2>1, <2>2, <2>3, SwapFacts, RenameParts
    DEF IInv, TypeOK, VerifiedInv, OnlyVerifiedInstalled
<1> QED
  BY <1>1, <1>2

LEMMA RenameBackToUpdateStep ==
  ASSUME IInv, NEW ok \in RollbackResults, renameBackToUpdate(ok)
  PROVE  IInv'
<1> USE DEF renameBackToUpdate
<1>0. currentFile \in Files /\ currentFile \in localPaths
      /\ (Untouched(currentFile) \/ BackedUp(currentFile) \/ Swapped(currentFile))
  BY SwapFacts DEF IInv, SwapInv
<1>1. \A f \in Files : f # currentFile => app'[f] = app[f] /\ bak'[f] = bak[f] /\ upd'[f] = upd[f]
  BY DEF Moved, Gone, IInv, TypeOK
<1>2. /\ Untouched(currentFile)' \/ BackedUp(currentFile)' \/ Swapped(currentFile)'
      /\ ok => Untouched(currentFile)' \/ BackedUp(currentFile)'
  <2>1. CASE ok /\ CanRename(app, upd)
    <3>1. Swapped(currentFile)
      BY <1>0, <2>1, SwapFacts DEF Untouched, BackedUp, CanRename
    <3>2. app'[currentFile] = None /\ upd'[currentFile] = app[currentFile]
          /\ UNCHANGED <<bak, before, updateVersion, currentFile>>
      BY <1>0, <2>1 DEF Moved, Gone, IInv, TypeOK
    <3> QED
      BY <3>1, <3>2 DEF Swapped, BackedUp, Untouched
  <2>2. CASE ~(ok /\ CanRename(app, upd))
    <3>1. ok => ~Swapped(currentFile)
      BY <1>0, <2>2, SwapFacts DEF Swapped, CanRename
    <3> QED
      BY <1>0, <2>2, <3>1 DEF Swapped, BackedUp, Untouched
  <2> QED
    BY <2>1, <2>2
<1>3. app' \in [Files -> Contents] /\ bak' \in [Files -> Contents] /\ upd' \in [Files -> Contents]
      /\ \A f \in Files : app'[f] # Bad /\ bak'[f] # Bad
  BY DEF Moved, Gone, IInv, TypeOK, VerifiedInv, OnlyVerifiedInstalled
<1>4. SwapInv'
  BY <1>0, <1>1, <1>2, SwapFacts DEF SwapInv, IInv, Untouched, BackedUp, Swapped, TypeOK
<1>5. UpInv' /\ DownInv'
  BY <1>0, <1>1, <1>2, SwapFacts, EnvironmentAssumption
  DEF UpInv, DownInv, IInv, Untouched, BackedUp, Swapped, RollbackResults
<1> QED
  BY <1>0, <1>3, <1>4, <1>5, RenameParts DEF IInv

LEMMA RenameFromBackupStep ==
  ASSUME IInv, NEW ok \in RollbackResults, renameFromBackup(ok)
  PROVE  /\ IInv'
         /\ ~RollbackMayFail /\ phase' = "idle" => app' = before
<1> USE DEF renameFromBackup
<1>0. currentFile \in localPaths /\ localPaths \subseteq Files /\ localPaths \subseteq Nat
      /\ (Untouched(currentFile) \/ BackedUp(currentFile) \/ Swapped(currentFile))
  BY SwapFacts DEF IInv, SwapInv
<1>1. \A f \in Files : f # currentFile => app'[f] = app[f] /\ bak'[f] = bak[f]
  BY DEF Moved, Gone, IInv, TypeOK
<1>2. app' \in [Files -> Contents] /\ bak' \in [Files -> Contents]
      /\ \A f \in Files : app'[f] # Bad /\ bak'[f] # Bad
  BY DEF Moved, Gone, IInv, TypeOK, VerifiedInv, OnlyVerifiedInstalled
<1>3. UNCHANGED <<upd, before, updateVersion, localPaths>>
  OBVIOUS
\* The two ways the rename ends, for the current file.
<1>4. \/ /\ UNCHANGED <<app, bak>>
         /\ ok /\ BackedUp(currentFile) => before[currentFile] = None
      \/ BackedUp(currentFile) /\ app'[currentFile] = before[currentFile]
         /\ bak'[currentFile] = None
  <2>1. CASE ok /\ CanRename(bak, app)
    <3>1. BackedUp(currentFile)
      BY <1>0, <2>1, SwapFacts DEF Untouched, BackedUp, Swapped, CanRename
    <3>2. app'[currentFile] = bak[currentFile] /\ bak'[currentFile] = None
      BY <1>0, <2>1 DEF Moved, Gone, IInv, TypeOK
    <3> QED
      BY <3>1, <3>2 DEF BackedUp
  <2>2. CASE ~(ok /\ CanRename(bak, app))
    BY <2>2 DEF BackedUp, CanRename
  <2> QED
    BY <2>1, <2>2
\* Where every file of the list is afterwards.
<1>5. \A f \in localPaths :
        \/ app'[f] = before[f] /\ bak'[f] = None /\ upd[f] = Release[updateVersion][f]
        \/ app'[f] = None /\ bak'[f] = before[f] /\ upd[f] = Release[updateVersion][f]
        \/ app'[f] = Release[updateVersion][f] /\ bak'[f] = before[f] /\ upd[f] = None
  BY <1>0, <1>1, <1>4 DEF IInv, SwapInv, Untouched, BackedUp, Swapped
<1>6. ASSUME ~RollbackMayFail
      PROVE  \A f \in localPaths : f >= currentFile =>
               app'[f] = before[f] /\ bak'[f] = None /\ upd[f] = Release[updateVersion][f]
  <2>1. ok = TRUE
    BY <1>6 DEF RollbackResults
  <2>2. \A f \in localPaths : f > currentFile => Untouched(f)
    BY <1>6 DEF IInv, DownInv
  <2>3. Untouched(currentFile) \/ BackedUp(currentFile)
    BY <1>0, <1>6 DEF IInv, DownInv
  <2>4. app'[currentFile] = before[currentFile] /\ bak'[currentFile] = None
        /\ upd[currentFile] = Release[updateVersion][currentFile]
    BY <1>4, <2>1, <2>3 DEF Untouched, BackedUp
  <2>5. \A f \in localPaths : f >= currentFile => f > currentFile \/ f = currentFile
    BY <1>0
  <2> QED
    BY <1>0, <1>1, <2>2, <2>4, <2>5 DEF Untouched
<1>7. CASE /\ \E f \in Below(currentFile) : Final(Below(currentFile), f) /\ currentFile' = f
           /\ phase' = "undo"
           /\ UNCHANGED <<flags, answer>>
  <2>1. currentFile' \in localPaths
        /\ \A f \in localPaths : f > currentFile' => f >= currentFile
    BY <1>0, <1>7 DEF Below, Final
  <2>2. SwapInv'
    <3>1. \A f \in Files \ localPaths :
            app'[f] = before[f] /\ app'[f] = Release[updateVersion][f]
      BY <1>0, <1>1 DEF SwapInv, IInv
    <3>2. \A f \in localPaths : before[f] # Release[updateVersion][f]
      BY DEF SwapInv, IInv
    <3> QED
      BY <1>3, <1>5, <2>1, <3>1, <3>2 DEF SwapInv, Untouched, BackedUp, Swapped
  <2>3. UpInv' /\ DownInv'
    BY <1>3, <1>6, <1>7, <2>1 DEF UpInv, DownInv, Untouched
  <2>4. upd' \in [Files -> Contents] /\ phase' # "idle"
    BY <1>3, <1>7 DEF IInv, TypeOK
  <2> QED
    BY <1>2, <1>7, <2>1, <2>2, <2>3, <2>4, RenameParts DEF IInv
<1>8. CASE Below(currentFile) = {} /\ postponeUpdate /\ UNCHANGED currentFile
  <2>1. TypeOK' /\ RunningMeansWork' /\ AnswerInv' /\ CompletedMeansComplete'
    BY <1>2, <1>8, PostponeParts
    DEF IInv, TypeOK, RunningMeansWork, AnswerInv, CompletedMeansComplete, world
  <2>2. VerifiedInv' /\ updateVersion' <= server'
    BY <1>2 DEF IInv, VerifiedInv, OnlyVerifiedInstalled, world
  <2>3. IInv'
    BY <1>8, <2>1, <2>2, PostponeParts, QuietInv DEF IInv
  <2>4. ASSUME ~RollbackMayFail PROVE app' = before
    <3>1. \A f \in localPaths : f >= currentFile
      BY <1>0, <1>8 DEF Below
    <3>2. \A f \in Files \ localPaths : app'[f] = before[f]
      BY <1>0, <1>1 DEF SwapInv, IInv
    <3>3. \A f \in Files : app'[f] = before[f]
      BY <1>6, <2>4, <3>1, <3>2
    <3>4. before \in [Files -> Contents]
      BY DEF IInv, TypeOK
    <3> QED
      BY <1>2, <3>3, <3>4
  <2> QED
    BY <2>3, <2>4
<1> QED
  BY <1>7, <1>8
-----------------------------------------------------------------------------
(* The invariant and what follows from it *)

LEMMA StepInv == IInv /\ [Next]_vars => IInv'
<1> SUFFICES ASSUME IInv, [Next]_vars PROVE IInv'
  OBVIOUS
<1>1. CASE updateTimer \/ installUpdate \/ checkForUpdates
  BY <1>1, BeginStep
<1>2. CASE requestFails
  BY <1>2, RequestFailsStep
<1>3. CASE \E intact \in BOOLEAN : listReceived(intact)
  BY <1>3, ListReceivedStep
<1>4. CASE \E intact, written \in BOOLEAN : fileReceived(intact, written)
  BY <1>4, FileReceivedStep
<1>5. CASE \E ok \in BOOLEAN : renameToBackup(ok)
  BY <1>5, RenameToBackupStep
<1>6. CASE \E ok \in BOOLEAN : renameToApp(ok)
  BY <1>6, RenameToAppStep
<1>7. CASE \E ok \in RollbackResults : renameBackToUpdate(ok)
  BY <1>7, RenameBackToUpdateStep
<1>8. CASE \E ok \in RollbackResults : renameFromBackup(ok)
  BY <1>8, RenameFromBackupStep
<1>9. CASE Crash
  BY <1>9, CrashStep
<1>10. CASE Start
  BY <1>10, StartStep
<1>11. CASE NewRelease \/ setUpdateAutomatically \/ UNCHANGED vars
  BY <1>11, WorldStep
<1> QED
  BY <1>1, <1>2, <1>3, <1>4, <1>5, <1>6, <1>7, <1>8, <1>9, <1>10, <1>11
  DEF Next, UserNext, TaskNext

THEOREM UpdateInvariant == Spec => []IInv
PROOF BY InitInv, StepInv, PTL DEF Spec

\* Every variable keeps its type.
THEOREM TypeInvariant == Spec => []TypeOK
<1>1. IInv => TypeOK
  BY DEF IInv
<1> QED
  BY <1>1, UpdateInvariant, PTL

\* Only complete, verified files reach the application folder or its backup.
THEOREM VerifiedInstalled == Spec => []OnlyVerifiedInstalled
<1>1. IInv => OnlyVerifiedInstalled
  BY DEF IInv, VerifiedInv
<1> QED
  BY <1>1, UpdateInvariant, PTL

\* While performUpdate or rollbackUpdate is at work, no old file is lost.
THEOREM OldCopies == Spec => []OldCopyKept
<1>1. IInv => OldCopyKept
  <2> SUFFICES ASSUME IInv, phase \in Installing, NEW f \in Files
               PROVE  app[f] = before[f] \/ bak[f] = before[f]
    BY DEF OldCopyKept
  <2> QED
    BY DEF IInv, SwapInv, Untouched, BackedUp, Swapped
<1> QED
  BY <1>1, UpdateInvariant, PTL

\* The GUI is told of a completed update only when all of it is there.
THEOREM Completed == Spec => []CompletedMeansComplete
<1>1. IInv => CompletedMeansComplete
  BY DEF IInv
<1> QED
  BY <1>1, UpdateInvariant, PTL

\* running is set exactly while a run is under way.
THEOREM Running == Spec => []RunningMeansWork
<1>1. IInv => RunningMeansWork
  BY DEF IInv
<1> QED
  BY <1>1, UpdateInvariant, PTL

\* Both: the task's flags and answers are true.
THEOREM Flags == Spec => []FlagsAreTrue
<1>1. CompletedMeansComplete /\ RunningMeansWork => FlagsAreTrue
  BY DEF FlagsAreTrue
<1> QED
  BY <1>1, Completed, Running, PTL

-----------------------------------------------------------------------------
(* Answers *)

\* A request of the user is given up only with a message to the user.
LEMMA AnswerStep ==
  ASSUME IInv, Next
  PROVE  /\ forceInstall /\ ~forceInstall' /\ phase' # "down"
              => answer'.signal \in {"completed", "error"}
         /\ forceCheck /\ ~forceCheck' /\ phase' # "down"
              => answer'.requested \/ answer'.signal \in {"completed", "error"}
<1> DEFINE Told ==
      /\ forceInstall => answer'.signal \in {"completed", "error"}
      /\ forceCheck => answer'.requested \/ answer'.signal \in {"completed", "error"}
<1>1. ASSUME postponeUpdate PROVE Told
  BY <1>1 DEF postponeUpdate, Signal
<1>2. ASSUME NEW S, NEW list, NEW folder, NEW v, continue(S, list, folder, v)
      PROVE  Told \/ UNCHANGED flags
  BY <1>2 DEF continue, Ready, Signal
<1>3. CASE listReceived(TRUE) \/ listReceived(FALSE)
  BY <1>1, <1>2, <1>3 DEF listReceived, flags
<1>4. CASE \E intact, written \in BOOLEAN : fileReceived(intact, written)
  BY <1>1, <1>2, <1>4 DEF fileReceived, flags
<1>5. CASE requestFails
  BY <1>1, <1>5 DEF requestFails
<1>6. CASE \E ok \in BOOLEAN : renameToApp(ok)
  BY <1>6 DEF renameToApp, finalCleanup, Signal, flags
<1>7. CASE \E ok \in RollbackResults : renameFromBackup(ok)
  BY <1>1, <1>7 DEF renameFromBackup, flags
<1>8. CASE \/ updateTimer \/ installUpdate \/ checkForUpdates
           \/ (\E ok \in BOOLEAN : renameToBackup(ok))
           \/ (\E ok \in RollbackResults : renameBackToUpdate(ok))
           \/ Crash \/ Start \/ NewRelease \/ setUpdateAutomatically
  BY <1>8 DEF updateTimer, installUpdate, checkForUpdates, renameToBackup, renameBackToUpdate,
              Crash, Start, NewRelease, setUpdateAutomatically, flags
<1> QED
  BY <1>3, <1>4, <1>5, <1>6, <1>7, <1>8 DEF Next, UserNext, TaskNext

\* No request of the user ends in silence.
THEOREM Answered == Spec => RequestsAreAnswered
<1>1. IInv /\ [Next]_vars =>
        [/\ forceInstall /\ ~forceInstall' /\ phase' # "down"
              => answer'.signal \in {"completed", "error"}
         /\ forceCheck /\ ~forceCheck' /\ phase' # "down"
              => answer'.requested \/ answer'.signal \in {"completed", "error"}]_vars
  BY AnswerStep
<1> QED
  BY <1>1, UpdateInvariant, PTL DEF Spec, RequestsAreAnswered
-----------------------------------------------------------------------------
(* Ends of runs *)

\* The stages of a run, and its place in the stage: downloads and performUpdate go up the
\* list, rollbackUpdate goes down.
Stage(p) ==
  IF p = "list" THEN 0 ELSE IF p = "file" THEN 1 ELSE IF p \in {"backup", "install"} THEN 2 ELSE 3

Further ==
  \/ Stage(phase') > Stage(phase)
  \/ phase \in {"file", "install"} /\ Stage(phase') = Stage(phase) /\ currentFile' > currentFile
  \/ phase = "restore" /\ phase' = "undo" /\ currentFile' < currentFile
  \/ <<phase, phase'>> \in {<<"backup", "install">>, <<"undo", "restore">>}
     /\ currentFile' = currentFile

\* While a run goes on, each step of the task brings it further, along a list that is fixed
\* when it has been received; nothing that the user or the world does brings it back.
RunsAdvance ==
  [][running /\ running' =>
       IF TaskNext
       THEN Further /\ currentFile' \in localPaths' /\ (phase = "list" \/ localPaths' = localPaths)
       ELSE UNCHANGED <<phase, currentFile, localPaths>>]_vars

LEMMA ContinueGoesOn ==
  ASSUME NEW S, NEW list, S \subseteq list, NEW folder, NEW v, continue(S, list, folder, v),
         list \subseteq Nat, currentFile \in Nat, phase \in Waiting, running',
         phase = "file" => \A f \in S : f > currentFile
  PROVE  Further /\ currentFile' \in list
<1>1. CASE phase' = "file"
  <2>1. currentFile' \in S
    BY <1>1 DEF continue, ToDownload, Stop
  <2> QED
    BY <1>1, <2>1 DEF Further, Stage
<1>2. CASE phase' = "backup"
  BY <1>2 DEF continue, First, Further, Stage, Stop
<1> QED
  BY <1>1, <1>2 DEF continue, Stop

LEMMA AdvanceStep ==
  ASSUME IInv, TaskNext, running, running'
  PROVE  Further /\ currentFile' \in localPaths' /\ (phase = "list" \/ localPaths' = localPaths)
<1>t. localPaths \subseteq Nat /\ currentFile \in Nat /\ \A v : NotInstalled(v) \subseteq Nat
  BY ReleasesAssumption DEF IInv, TypeOK, NotInstalled
<1>p. ~postponeUpdate
  BY DEF postponeUpdate, Stop
<1>1. ~updateTimer /\ ~requestFails
  BY <1>p DEF updateTimer, requestFails
<1>2. CASE \E intact \in BOOLEAN : listReceived(intact)
  <2> DEFINE list == NotInstalled(server)
  <2>1. phase = "list" /\ localPaths' = list /\ continue(list, list, upd, server)
    BY <1>2, <1>p DEF listReceived
  <2> QED
    BY <2>1, <1>t, ContinueGoesOn
<1>3. CASE \E intact, written \in BOOLEAN : fileReceived(intact, written)
  <2>1. /\ phase = "file" /\ localPaths' = localPaths
        /\ continue(After(currentFile), localPaths, Downloaded, updateVersion)
    BY <1>3, <1>p DEF fileReceived
  <2>2. After(currentFile) \subseteq localPaths /\ \A f \in After(currentFile) : f > currentFile
    BY DEF After
  <2> QED
    BY <2>1, <2>2, <1>t, ContinueGoesOn
<1>4. CASE \E ok \in BOOLEAN : renameToBackup(ok)
  BY <1>4 DEF renameToBackup, Further, IInv, SwapInv
<1>5. CASE \E ok \in BOOLEAN : renameToApp(ok)
  <2>1. phase = "install" /\ localPaths' = localPaths /\ currentFile \in localPaths
    BY <1>5 DEF renameToApp, IInv, SwapInv
  <2>2. \/ phase' = "undo" /\ currentFile' = currentFile
        \/ phase' = "backup" /\ currentFile' \in After(currentFile)
    BY <1>5 DEF renameToApp, Stop, First
  <2> QED
    BY <2>1, <2>2, <1>t DEF Further, Stage, After
<1>6. CASE \E ok \in RollbackResults : renameBackToUpdate(ok)
  BY <1>6 DEF renameBackToUpdate, Further, IInv, SwapInv
<1>7. CASE \E ok \in RollbackResults : renameFromBackup(ok)
  <2>1. phase = "restore" /\ localPaths' = localPaths
    BY <1>7 DEF renameFromBackup
  <2>2. phase' = "undo" /\ currentFile' \in Below(currentFile)
    BY <1>7, <1>p DEF renameFromBackup, Final
  <2> QED
    BY <2>1, <2>2 DEF Further, Below
<1> QED
  BY <1>1, <1>2, <1>3, <1>4, <1>5, <1>6, <1>7 DEF TaskNext

\* A run does not go round in circles, and no other run starts over on its lists: whatever
\* is answered and fails, its steps are bounded by the list.  That some step is taken is the
\* fairness of RunsEnd.
THEOREM RunsGoForward == Spec => RunsAdvance
<1>1. IInv /\ [Next]_vars =>
        [running /\ running' =>
           IF TaskNext
           THEN Further /\ currentFile' \in localPaths' /\ (phase = "list" \/ localPaths' = localPaths)
           ELSE UNCHANGED <<phase, currentFile, localPaths>>]_vars
  <2> SUFFICES ASSUME IInv, Next, running, running', ~TaskNext
               PROVE  UNCHANGED <<phase, currentFile, localPaths>>
    BY AdvanceStep
  <2>1. ~Crash
    BY DEF Crash
  <2> QED
    BY <2>1 DEF Next, UserNext, installUpdate, checkForUpdates, tryUpdate, setUpdateAutomatically,
                NewRelease, Start, IInv, RunningMeansWork, job
<1> QED
  BY <1>1, UpdateInvariant, PTL DEF Spec, RunsAdvance
-----------------------------------------------------------------------------
(* Atomicity *)

installed == IF phase \in Installing THEN before ELSE app

\* A step that brings performUpdate to its end installs the whole release.
LEMMA InstallStep ==
  ASSUME IInv, IInv', NEW ok \in BOOLEAN, renameToApp(ok)
  PROVE  Whole!Install \/ UNCHANGED <<server, installed>>
<1> USE DEF renameToApp, world
<1>1. CASE phase' \in Installing
  BY <1>1 DEF installed
<1>2. CASE phase' \notin Installing
  <2>1. answer'.signal = "completed" /\ phase' = "idle" /\ updateVersion' = updateVersion
        /\ server' = server
    BY <1>2 DEF finalCleanup, Signal, Stop
  <2>2. app' = Release[updateVersion]
    BY <2>1 DEF IInv, CompletedMeansComplete
  <2>3. before # Release[updateVersion]
    BY SwapFacts DEF IInv, SwapInv
  <2>4. updateVersion \in Versions /\ updateVersion <= server
    BY DEF IInv, TypeOK
  <2> QED
    BY <2>1, <2>2, <2>3, <2>4 DEF Whole!Install
<1> QED
  BY <1>1, <1>2

LEMMA AtomicStep ==
  ASSUME ~RollbackMayFail, MaxCrashes = 0, IInv, IInv', [Next]_vars
  PROVE  Whole!Publish \/ Whole!Install \/ UNCHANGED <<server, installed>>
<1> USE DEF installed
<1>1. CASE updateTimer \/ installUpdate \/ checkForUpdates
  BY <1>1 DEF updateTimer, installUpdate, checkForUpdates, tryUpdate, begin, BetweenSlots,
              disk, job, world
<1>2. CASE requestFails
  BY <1>2 DEF requestFails, postponeUpdate, Stop, disk, world
<1>3. CASE \E intact \in BOOLEAN : listReceived(intact)
  BY <1>3 DEF listReceived, continue, postponeUpdate, Stop, world
<1>4. CASE \E intact, written \in BOOLEAN : fileReceived(intact, written)
  BY <1>4 DEF fileReceived, continue, postponeUpdate, Stop, world
<1>5. CASE \E ok \in BOOLEAN : renameToBackup(ok)
  BY <1>5 DEF renameToBackup, world
<1>6. CASE \E ok \in BOOLEAN : renameToApp(ok)
  BY <1>6, InstallStep
<1>7. CASE \E ok \in RollbackResults : renameBackToUpdate(ok)
  BY <1>7 DEF renameBackToUpdate, world
<1>8. CASE \E ok \in RollbackResults : renameFromBackup(ok)
  <2> PICK ok \in RollbackResults : renameFromBackup(ok)
    BY <1>8
  <2>1. phase' = "idle" => app' = before
    BY RenameFromBackupStep
  <2>2. phase \in Installing /\ before' = before /\ server' = server
        /\ (phase' = "undo" \/ phase' = "idle")
    BY DEF renameFromBackup, postponeUpdate, Stop, world
  <2> QED
    BY <2>1, <2>2
<1>9. CASE Crash
  BY <1>9 DEF Crash, IInv, TypeOK
<1>10. CASE Start \/ setUpdateAutomatically \/ UNCHANGED vars
  BY <1>10 DEF Start, setUpdateAutomatically, vars, disk, job, world
<1>11. CASE NewRelease
  <2>1. server' \in Versions /\ server' > server
    BY <1>11, ReleasesAssumption DEF NewRelease, IInv, TypeOK
  <2> QED
    BY <1>11, <2>1 DEF NewRelease, disk, job, Whole!Publish
<1> QED
  BY <1>1, <1>2, <1>3, <1>4, <1>5, <1>6, <1>7, <1>8, <1>9, <1>10, <1>11
  DEF Next, UserNext, TaskNext

\* If the renames of rollbackUpdate work and the process is not killed, whoever looks at the
\* application between two runs finds one release, complete.
THEOREM Atomic ==
  ASSUME ~RollbackMayFail, MaxCrashes = 0
  PROVE  Spec => ImplementsAtomicUpdate
<1>1. Init => Whole!AtomicInit
  BY ReleasesAssumption DEF Init, Whole!AtomicInit
<1>2. IInv /\ IInv' /\ [Next]_vars =>
        [Whole!Publish \/ Whole!Install]_<<server, IF phase \in Installing THEN before ELSE app>>
  BY AtomicStep DEF installed
<1> QED
  BY <1>1, <1>2, UpdateInvariant, PTL DEF Spec, ImplementsAtomicUpdate, Whole!AtomicSpec
=============================================================================
