------------------------------ MODULE ScanStage ------------------------------
(* The blocked state of the transfer manager and of the info dialog while the *)
(* SDK scans what the user wants to transfer (ScanStageController.cpp). All   *)
(* of it is in the GUI thread; TransferBatch decides when a stage starts and  *)
(* ends, and says when the GUI thread is free to take a timer's event.        *)
(* The scanned flag that only chooses a text, mLastScanCancelled, is left out.*)
EXTENDS Naturals

VARIABLES
    scanTimer,    \* mScanStageTimer is active: the stage is to be shown in 800 ms
    scanning,     \* mIsInScanningState
    minimumTime,  \* mIsInScanningStateInMinimumTime
    shots,        \* single shots of 1200 ms under way, one for each stage shown
    cancelTimer,  \* mCancelStageTimer is active
    ui            \* what both windows show

scanVars == <<scanTimer, scanning, minimumTime, shots, cancelTimer, ui>>

UiStates == {"normal", "scan", "disabled", "cancelling"}

ScanTypeOK ==
    /\ scanTimer \in BOOLEAN
    /\ scanning \in BOOLEAN
    /\ minimumTime \in BOOLEAN
    /\ shots \in Nat
    /\ cancelTimer \in BOOLEAN
    /\ ui \in UiStates

ScanInit ==
    /\ scanTimer = FALSE
    /\ scanning = FALSE
    /\ minimumTime = FALSE
    /\ shots = 0
    /\ cancelTimer = FALSE
    /\ ui = "normal"

setUiInNormalStage ==
    /\ ui' = "normal"
    /\ cancelTimer' = FALSE

startDelayedScanStage ==
    /\ scanTimer' = TRUE
    /\ UNCHANGED <<scanning, minimumTime, shots, cancelTimer, ui>>

(* A stage that has not been shown yet is only not shown any more; one that   *)
(* is shown ends, for the user not before its minimum time.                   *)
stopDelayedScanStage ==
    IF scanTimer
      THEN /\ scanTimer' = FALSE
           /\ UNCHANGED <<scanning, minimumTime, shots, cancelTimer, ui>>
      ELSE /\ scanning' = FALSE
           /\ IF minimumTime
                THEN ui' = "disabled" /\ UNCHANGED cancelTimer
                ELSE setUiInNormalStage
           /\ UNCHANGED <<scanTimer, minimumTime, shots>>

startScanStage ==
    /\ scanTimer
    /\ scanTimer' = FALSE
    /\ scanning' = TRUE
    /\ minimumTime' = TRUE
    /\ shots' = shots + 1
    /\ ui' = "scan"
    /\ UNCHANGED cancelTimer

(* A mutant: an end that came during the minimum time is forgotten.           *)
onMinimumDisplayTimeElapsedOnly ==
    /\ shots > 0
    /\ shots' = shots - 1
    /\ minimumTime' = FALSE
    /\ UNCHANGED <<scanTimer, scanning, cancelTimer, ui>>

onMinimumDisplayTimeElapsed ==
    /\ shots > 0
    /\ shots' = shots - 1
    /\ minimumTime' = FALSE
    /\ IF scanning THEN UNCHANGED <<cancelTimer, ui>> ELSE setUiInNormalStage
    /\ UNCHANGED <<scanTimer, scanning>>

setDelayedCancellingStage ==
    /\ cancelTimer' = TRUE
    /\ UNCHANGED <<scanTimer, scanning, minimumTime, shots, ui>>

setUiInCancellingStage ==
    /\ cancelTimer
    /\ cancelTimer' = FALSE
    /\ ui' = "cancelling"
    /\ UNCHANGED <<scanTimer, scanning, minimumTime, shots>>

Timers == startScanStage \/ onMinimumDisplayTimeElapsed \/ setUiInCancellingStage
=============================================================================
