------------------------------ MODULE UpdateTask ------------------------------
(***************************************************************************)
(* The self-update of the application (class UpdateTask in                 *)
(* control/UpdateTask.cpp), which runs in a thread of its own: download    *)
(* the list of the latest release, download the files that differ into the *)
(* update folder, then swap them into the application folder, keeping the  *)
(* old ones in a backup folder, and swap them back if a rename fails.      *)
(*                                                                         *)
(* The slots of the thread are one step each, except performUpdate and     *)
(* rollbackUpdate, where every rename is a step: the process may die       *)
(* between two of them (stopUpdateTask does not wait for the thread).      *)
(* The contents of files are named by the release that introduced them.    *)
(***************************************************************************)
EXTENDS Integers

CONSTANTS
  Files,            \* the files of a release, in the order of the list
  Exec,             \* the one that carries the application's version
  Versions,         \* the releases, 1 is installed at first
  Release,          \* the content of every file in every release
  RollbackMayFail,  \* whether the renames of rollbackUpdate may fail
  MaxCrashes        \* bound: how often the process dies

ASSUME ReleasesAssumption ==
  /\ Files \subseteq Nat /\ Exec \in Files
  /\ Versions \subseteq Nat \ {0} /\ 1 \in Versions
  /\ Release \in [Versions -> [Files -> Versions]]
  /\ \A v \in Versions : Release[v][Exec] = v

ASSUME EnvironmentAssumption == RollbackMayFail \in BOOLEAN /\ MaxCrashes \in Nat

VARIABLES
  server,        \* the latest release (external)
  app, upd, bak, \* appFolder, updateFolder and the last backupFolder
  version,       \* QApplication::applicationVersion
  running, forceInstall, forceCheck,
  updateVersion, \* release of the list that is processed
  localPaths,    \* files of that list to be installed
  phase,         \* where the thread is; see Phases
  currentFile,   \* file that is downloaded, installed or rolled back
  automatic,     \* Preferences::updateAutomatically
  answer,        \* history: the last signal to the GUI
  before,        \* history: appFolder when performUpdate began
  crashes        \* history: how often the process died

disk == <<app, upd, bak>>
flags == <<running, forceInstall, forceCheck>>
job == <<updateVersion, localPaths, phase, currentFile>>
world == <<server, automatic, crashes>>
vars == <<disk, version, flags, job, answer, before, world>>

None == 0   \* no such file
Bad == -1   \* a file that was not completely written
Contents == Versions \cup {None, Bad}
NoFiles == [f \in Files |-> None]

\* "list", "file": a request is outstanding.  "backup", "install": before the two renames
\* of performUpdate for currentFile.  "undo", "restore": before those of rollbackUpdate.
Waiting == {"list", "file"}
Installing == {"backup", "install", "undo", "restore"}
Phases == {"down", "idle"} \cup Waiting \cup Installing

\* The thread's event loop runs: a slot may be called.
BetweenSlots == phase \in {"idle"} \cup Waiting

First(S, f) == f \in S /\ \A g \in S : f <= g
Final(S, f) == f \in S /\ \A g \in S : g <= f
After(f) == {g \in localPaths : g > f}
-----------------------------------------------------------------------------
(* Ends of a run *)

\* Mutant of Signal: an install request that fails is answered like a timer's check.
SignalQuiet(s) == answer' = [signal |-> s, requested |-> FALSE]
Signal(s) == answer' = [signal |-> s, requested |-> forceCheck]

\* Mutant of Stop: the flag that keeps other runs away is not reset.
StopStillRunning ==
  /\ phase' = "idle"
  /\ forceInstall' = FALSE /\ forceCheck' = FALSE
  /\ UNCHANGED running
Stop ==
  /\ phase' = "idle"
  /\ running' = FALSE /\ forceInstall' = FALSE /\ forceCheck' = FALSE

postponeUpdate ==
  /\ Signal(IF forceInstall THEN "error" ELSE "notFound")
  /\ Stop

\* removeRecursively leaves files behind that are in use.
Removed(folder, after) == \A f \in Files : after[f] \in {folder[f], None}

\* Mutant of finalCleanup: the version stays.
finalCleanupKeepingVersion(folder) ==
  /\ upd' \in [Files -> Contents] /\ Removed(folder, upd')
  /\ Signal("completed")
  /\ UNCHANGED version
finalCleanup(folder) ==
  /\ version' = updateVersion
  /\ upd' \in [Files -> Contents] /\ Removed(folder, upd')
  /\ Signal("completed")
-----------------------------------------------------------------------------
(* Starting a run *)

\* The run's first request; initialCleanup deletes the backups of earlier ones.
begin ==
  /\ running' = TRUE
  /\ phase' = "list"
  /\ localPaths' = {}
  /\ bak' \in [Files -> Contents] /\ Removed(bak, bak')
  /\ answer' = [signal |-> "none", requested |-> FALSE]

\* Mutant of tryUpdate: a run starts although another one is under way.
tryUpdateAgain ==
  begin /\ UNCHANGED <<app, upd, updateVersion, currentFile, version, before, world>>

tryUpdate ==
  IF running
  THEN UNCHANGED <<running, disk, job, version, answer, before, world>>
  ELSE begin /\ UNCHANGED <<app, upd, updateVersion, currentFile, version, before, world>>

updateTimer ==
  BetweenSlots /\ ~running /\ tryUpdate /\ UNCHANGED <<forceInstall, forceCheck>>

installUpdate ==
  BetweenSlots /\ forceInstall' = TRUE /\ tryUpdate /\ UNCHANGED forceCheck

checkForUpdates ==
  BetweenSlots /\ forceCheck' = TRUE /\ tryUpdate /\ UNCHANGED forceInstall
-----------------------------------------------------------------------------
(* Downloads *)

\* onTimeout, or an answer that is an error.
requestFails ==
  /\ phase \in Waiting
  /\ postponeUpdate
  /\ UNCHANGED <<disk, version, updateVersion, localPaths, currentFile, before, world>>

Ready == automatic \/ forceInstall

\* The files of S that are not in the update folder yet, as alreadyDownloaded finds out.
\* Mutant: a file that is there is taken for the right one.
ToDownloadIfAbsent(S, folder, v) == {f \in S : folder[f] = None}
ToDownload(S, folder, v) == {f \in S : folder[f] # Release[v][f]}

\* The end of downloadFinished: download the next file of S that is missing, or install
\* the whole list, or tell the GUI that it may be installed.
continue(S, list, folder, v) ==
  \/ \E f \in ToDownload(S, folder, v) :
       /\ First(ToDownload(S, folder, v), f)
       /\ phase' = "file" /\ currentFile' = f
       /\ UNCHANGED <<flags, bak, answer, before>>
  \/ /\ ToDownload(S, folder, v) = {} /\ Ready
     /\ \E f \in list : First(list, f) /\ currentFile' = f
     /\ phase' = "backup"
     /\ bak' = NoFiles /\ before' = app
     /\ UNCHANGED <<flags, answer>>
  \/ /\ ToDownload(S, folder, v) = {} /\ ~Ready
     /\ Signal("available") /\ Stop
     /\ UNCHANGED <<bak, before, currentFile>>

NotInstalled(v) == {f \in Files : app[f] # Release[v][f]}

\* downloadFinished with the list, genuine or not (intact).
listReceived(intact) ==
  /\ phase = "list"
  /\ updateVersion' = server
  /\ IF server <= version \/ ~intact \/ NotInstalled(server) = {}
     THEN /\ postponeUpdate
          /\ UNCHANGED <<localPaths, currentFile, bak, before>>
     ELSE /\ localPaths' = NotInstalled(server)
          /\ continue(NotInstalled(server), NotInstalled(server), upd, server)
  /\ UNCHANGED <<app, upd, version, world>>

\* downloadFinished with a file, whose signature is right or not (intact), and which can be
\* written to the update folder or not (written).
Downloaded == [upd EXCEPT ![currentFile] = Release[updateVersion][currentFile]]

fileReceived(intact, written) ==
  /\ phase = "file"
  /\ IF intact /\ written
     THEN upd' = Downloaded /\ continue(After(currentFile), localPaths, Downloaded, updateVersion)
     ELSE /\ IF intact THEN \E c \in {None, Bad} : upd' = [upd EXCEPT ![currentFile] = c]
                       ELSE UNCHANGED upd
          /\ postponeUpdate
          /\ UNCHANGED <<bak, before, currentFile>>
  /\ UNCHANGED <<app, version, updateVersion, localPaths, world>>
-----------------------------------------------------------------------------
(* performUpdate and rollbackUpdate, rename by rename *)

\* QDir::rename does nothing unless the file exists and the target does not.
\* Mutant: it replaces the target.
CanReplace(from, to) == from[currentFile] # None
CanRename(from, to) == from[currentFile] # None /\ to[currentFile] = None
Gone(folder) == [folder EXCEPT ![currentFile] = None]
Moved(from, to) == [to EXCEPT ![currentFile] = from[currentFile]]

\* Line 431: the result is not looked at.
renameToBackup(ok) ==
  /\ phase = "backup"
  /\ IF ok /\ CanRename(app, bak)
     THEN bak' = Moved(app, bak) /\ app' = Gone(app)
     ELSE UNCHANGED <<app, bak>>
  /\ phase' = "install"
  /\ UNCHANGED <<upd, version, flags, updateVersion, localPaths, currentFile, answer, before, world>>

renameToApp(ok) ==
  /\ phase = "install"
  /\ IF ok /\ CanRename(upd, app)
     THEN /\ app' = Moved(upd, app)
          /\ \/ /\ \E f \in After(currentFile) : First(After(currentFile), f) /\ currentFile' = f
                /\ phase' = "backup" /\ upd' = Gone(upd)
                /\ UNCHANGED <<version, flags, answer>>
             \/ /\ After(currentFile) = {}
                /\ finalCleanup(Gone(upd)) /\ Stop
                /\ UNCHANGED currentFile
     ELSE /\ phase' = "undo"
          /\ UNCHANGED <<app, upd, version, flags, currentFile, answer>>
  /\ UNCHANGED <<bak, updateVersion, localPaths, before, world>>

RollbackResults == IF RollbackMayFail THEN BOOLEAN ELSE {TRUE}

renameBackToUpdate(ok) ==
  /\ phase = "undo"
  /\ IF ok /\ CanRename(app, upd)
     THEN upd' = Moved(app, upd) /\ app' = Gone(app)
     ELSE UNCHANGED <<app, upd>>
  /\ phase' = "restore"
  /\ UNCHANGED <<bak, version, flags, updateVersion, localPaths, currentFile, answer, before, world>>

\* Mutants of Below: the rollback leaves out the file before; it goes on below the first one.
BelowSkipping(f) == {g \in localPaths : g + 1 < f}
BelowTooFar(f) == {g \in localPaths \cup {0} : g < f}
Below(f) == {g \in localPaths : g < f}

renameFromBackup(ok) ==
  /\ phase = "restore"
  /\ IF ok /\ CanRename(bak, app)
     THEN app' = Moved(bak, app) /\ bak' = Gone(bak)
     ELSE UNCHANGED <<app, bak>>
  /\ \/ /\ \E f \in Below(currentFile) : Final(Below(currentFile), f) /\ currentFile' = f
        /\ phase' = "undo"
        /\ UNCHANGED <<flags, answer>>
     \/ /\ Below(currentFile) = {}
        /\ postponeUpdate
        /\ UNCHANGED currentFile
  /\ UNCHANGED <<upd, version, updateVersion, localPaths, before, world>>
-----------------------------------------------------------------------------
(* The process and the world *)

\* A file that is being written when the process dies is left as far as it got.
Crash ==
  /\ phase # "down" /\ crashes < MaxCrashes
  /\ crashes' = crashes + 1
  /\ phase' = "down"
  /\ running' = FALSE /\ forceInstall' = FALSE /\ forceCheck' = FALSE
  /\ localPaths' = {}
  /\ answer' = [signal |-> "none", requested |-> FALSE]
  /\ \/ UNCHANGED upd
     \/ phase = "file" /\ \E c \in {None, Bad} : upd' = [upd EXCEPT ![currentFile] = c]
     \/ phase = "file" /\ upd' = Downloaded
  /\ UNCHANGED <<app, bak, version, updateVersion, currentFile, before, server, automatic>>

\* The application starts if there is one; it knows the version it was built with.
Start ==
  /\ phase = "down" /\ app[Exec] \in Versions
  /\ phase' = "idle"
  /\ version' = app[Exec]
  /\ UNCHANGED <<disk, flags, updateVersion, localPaths, currentFile, answer, before, world>>

NewRelease ==
  /\ server + 1 \in Versions
  /\ server' = server + 1
  /\ UNCHANGED <<disk, version, flags, job, answer, before, automatic, crashes>>

setUpdateAutomatically ==
  /\ automatic' = ~automatic
  /\ UNCHANGED <<disk, version, flags, job, answer, before, server, crashes>>
-----------------------------------------------------------------------------
Init ==
  /\ server \in Versions
  /\ app = Release[1] /\ upd = NoFiles /\ bak = NoFiles
  /\ version = 1
  /\ running = FALSE /\ forceInstall = FALSE /\ forceCheck = FALSE
  /\ updateVersion = 1 /\ localPaths = {} /\ phase = "idle" /\ currentFile = Exec
  /\ automatic \in BOOLEAN
  /\ answer = [signal |-> "none", requested |-> FALSE]
  /\ before = app
  /\ crashes = 0

UserNext == installUpdate \/ checkForUpdates \/ setUpdateAutomatically

TaskNext ==
  \/ updateTimer
  \/ requestFails
  \/ \E intact \in BOOLEAN : listReceived(intact)
  \/ \E intact, written \in BOOLEAN : fileReceived(intact, written)
  \/ \E ok \in BOOLEAN : renameToBackup(ok)
  \/ \E ok \in BOOLEAN : renameToApp(ok)
  \/ \E ok \in RollbackResults : renameBackToUpdate(ok)
  \/ \E ok \in RollbackResults : renameFromBackup(ok)

Next == UserNext \/ TaskNext \/ Crash \/ Start \/ NewRelease

Spec == Init /\ [][Next]_vars

\* The timer fires again and again, a request ends (the timeout sees to that), and
\* performUpdate runs to its end.
RunFairness ==
  /\ WF_vars(updateTimer)
  /\ WF_vars(phase \in Waiting /\ TaskNext)
  /\ WF_vars(phase \in Installing /\ TaskNext)
  /\ WF_vars(Start)

\* The network and the disk work again and again, for every file that can be renamed.
WorldFairness ==
  /\ SF_vars(listReceived(TRUE))
  /\ \A f \in Files :
       /\ SF_vars(currentFile = f /\ fileReceived(TRUE, TRUE))
       /\ SF_vars(currentFile = f /\ CanRename(app, bak) /\ renameToBackup(TRUE))
       /\ SF_vars(currentFile = f /\ CanRename(upd, app) /\ renameToApp(TRUE))

FairSpec == Spec /\ RunFairness
LiveSpec == FairSpec /\ WorldFairness
-----------------------------------------------------------------------------
(* Correctness *)

Answers == [signal : {"none", "available", "notFound", "completed", "error"}, requested : BOOLEAN]

TypeOK ==
  /\ server \in Versions
  /\ app \in [Files -> Contents] /\ upd \in [Files -> Contents] /\ bak \in [Files -> Contents]
  /\ version \in Versions
  /\ running \in BOOLEAN /\ forceInstall \in BOOLEAN /\ forceCheck \in BOOLEAN
  /\ updateVersion \in Versions /\ localPaths \subseteq Files
  /\ phase \in Phases /\ currentFile \in Files
  /\ automatic \in BOOLEAN /\ answer \in Answers
  /\ before \in [Files -> Contents]
  /\ crashes \in 0..MaxCrashes

\* Only complete, verified files get into the application folder, or are kept to get back
\* there, whenever the process died while one was written.
OnlyVerifiedInstalled == \A f \in Files : app[f] # Bad /\ bak[f] # Bad

\* While files are swapped, the old copy of each of them is in the application folder or in
\* the backup, whichever renames failed so far.
OldCopyKept ==
  phase \in Installing =>
    \A f \in Files : before[f] # None => app[f] = before[f] \/ bak[f] = before[f]

\* When the GUI is told that the update is completed, every file of the release is there,
\* and the version the application compares the next release with is that of its files.
CompletedMeansComplete ==
  answer.signal = "completed" => app = Release[updateVersion] /\ version = updateVersion

\* A run is under way exactly as long as a request is outstanding or files are swapped: no
\* way out of a run forgets to allow the next one, and no two runs share the lists.
RunningMeansWork == running <=> phase \in Waiting \cup Installing

\* What the task says of itself is true: to the GUI in its answers, and to its own guards.
FlagsAreTrue == CompletedMeansComplete /\ RunningMeansWork

\* A request of the user ends with a message to the user: an install with success or error,
\* a check with one of them or with an answer that is marked as requested.
RequestsAreAnswered ==
  [][/\ forceInstall /\ ~forceInstall' /\ phase' # "down" => answer'.signal \in {"completed", "error"}
     /\ forceCheck /\ ~forceCheck' /\ phase' # "down"
          => answer'.requested \/ answer'.signal \in {"completed", "error"}]_vars

\* A run always comes to its end.
RunsEnd == running ~> ~running

\* The process died while the executable was in the backup folder: it cannot start again.
Headless == phase = "down" /\ app[Exec] = None

\* The latest release gets installed as a whole, however often downloads, renames or the
\* rollback fail on the way.  After a crash this takes a list that ends with the executable:
\* a mixed installation whose executable is new is taken for the new release.
UpdateArrives ==
  \A v \in Versions : [](server = v /\ automatic) => <>(app = Release[v] \/ Headless)

\* The application folder changes as AtomicUpdate says.
Whole == INSTANCE AtomicUpdate WITH
  installed <- IF phase \in Installing THEN before ELSE app
ImplementsAtomicUpdate == Whole!AtomicSpec
=============================================================================
