------------------------------ MODULE ToolPathGo ------------------------------
(***************************************************************************)
(* The paths of the UI thread.  The operator presses Tool Path, which      *)
(* extracts a glue path from one snapshot of the current image, and then   *)
(* GO, which turns the path into machine coordinates and sends it; or a    *)
(* tick of the timer serves a request of the HMI with the same two         *)
(* handlers.  Meanwhile the acquisition workers replace the image and      *)
(* clear the path, the timer takes over a new ROI and a new reference      *)
(* point, and the operator loads an image: the file dialog dispatches the  *)
(* timer, so that a request may be served behind it.                       *)
(*                                                                         *)
(* The data is reduced to what the conversion depends on: which frame a    *)
(* path was extracted from and the effective reference point (the origin   *)
(* of machine coordinates) it was extracted with.  A reference point is a  *)
(* version of (referenceX, referenceY) and whether it has been moved into  *)
(* the calibrated image (transformPoint).  When requests come is left      *)
(* open here; AutoRequest has the registers and flags that decide it.      *)
(***************************************************************************)
EXTENDS GrabThread

CONSTANTS
    MaxRef        \* bound on the number of reference points the HMI sets

ASSUME ToolPathAssumption == MaxRef \in Nat \ {0}

VARIABLES
    reference,    \* version of WorkTab::referenceX, referenceY
    calibrated,   \* a valid calibration.yml is there (m_vision.isCalibrated)
    roiFits,      \* MaskX/Y/Width/Height lie within m_mat
    hasGenRef,    \* m_hasGeneratedEffectiveReference
    genRef,       \* m_generatedEffectiveReference
    btnPc,        \* where the UI thread is in Tool Path and GO
    auto,         \* they are run by a tick, not by the operator
    dialog,       \* Load Image has its file dialog open
    snap,         \* sourceFrame (0: no Tool Path under way)
    effRef,       \* the local effectiveReference of Tool Path
    glueRef,      \* history: effectiveReference glue was extracted with
    loaded,       \* history: m_mat came from a file
    behind,       \* history: glue was extracted behind the file dialog
    sent          \* history: what GO is sending

configVars == <<reference, calibrated, roiFits>>
genVars    == <<hasGenRef, genRef>>
callVars   == <<btnPc, auto, dialog, snap, effRef>>
history    == <<glueRef, loaded, behind, sent>>
toolVars   == <<configVars, genVars, callVars, history>>
vars       == <<grabVars, toolVars>>

RefPoints == [version : 1 .. MaxRef, moved : BOOLEAN]
NoRef     == [version |-> 1, moved |-> FALSE]   \* cv::Point2d before its first use

\* referenceX/Y as they are, which is what ConvertToMachineCoordinates() uses.
RawRef == [version |-> reference, moved |-> FALSE]

NothingSent == [frame |-> 0, ref |-> NoRef, generated |-> NoRef]

\* The same point in the calibrated image.
MovedRef == [version |-> reference, moved |-> TRUE]

ToolTypeOK ==
    /\ GrabTypeOK
    /\ reference \in 1 .. MaxRef
    /\ calibrated \in BOOLEAN
    /\ roiFits \in BOOLEAN
    /\ hasGenRef \in BOOLEAN
    /\ genRef \in RefPoints
    /\ btnPc \in {"idle", "roi", "extract", "check", "convert", "write"}
    /\ auto \in BOOLEAN
    /\ dialog \in BOOLEAN
    /\ snap \in Frames
    /\ effRef \in RefPoints
    /\ glueRef \in RefPoints
    /\ loaded \in BOOLEAN
    /\ behind \in BOOLEAN
    /\ sent \in [frame : Frames, ref : RefPoints, generated : RefPoints]

\* A mutant of ToolInit: the generated reference is not initialised.
ToolInit_Garbage ==
    /\ GrabInit
    /\ reference = 1
    /\ calibrated \in BOOLEAN
    /\ roiFits = TRUE
    /\ hasGenRef = FALSE
    /\ genRef = [version |-> MaxRef + 1, moved |-> FALSE]
    /\ btnPc = "idle"
    /\ auto = FALSE
    /\ dialog = FALSE
    /\ snap = 0
    /\ effRef = NoRef
    /\ glueRef = NoRef
    /\ loaded = FALSE
    /\ behind = FALSE
    /\ sent = NothingSent

ToolInit ==
    /\ GrabInit
    /\ reference = 1
    /\ calibrated \in BOOLEAN
    /\ roiFits = TRUE
    /\ hasGenRef = FALSE
    /\ genRef = NoRef
    /\ btnPc = "idle"
    /\ auto = FALSE
    /\ dialog = FALSE
    /\ snap = 0
    /\ effRef = NoRef
    /\ glueRef = NoRef
    /\ loaded = FALSE
    /\ behind = FALSE
    /\ sent = NothingSent

-----------------------------------------------------------------------------

\* The UI thread is in no handler but, possibly, the file dialog's own loop,
\* which dispatches timers; buttons are out of reach while the dialog is open.
Dispatching == btnPc = "idle"
Button      == btnPc = "idle" /\ ~dialog

\* Return from the handlers with the locals gone.
Return ==
    /\ btnPc' = "idle"
    /\ auto' = FALSE
    /\ snap' = 0
    /\ effRef' = NoRef
    /\ UNCHANGED dialog

\* Tool Path returns to its caller: the message loop, or the service, which
\* then looks at the path.
ToolPathReturn ==
    /\ btnPc' = IF auto THEN "check" ELSE "idle"
    /\ snap' = 0
    /\ effRef' = NoRef
    /\ UNCHANGED <<auto, dialog>>

-----------------------------------------------------------------------------
(* Tool Path. *)

\* One clone of m_mat under m_matMutex; the generated reference is forgotten.
Freeze ==
    /\ mat # 0
    /\ snap' = mat
    /\ hasGenRef' = FALSE
    /\ btnPc' = "roi"
    /\ UNCHANGED <<scene, bGrabThread, phase, held, mat, configVars, genRef, dialog,
                   effRef, history>>

ToolPathFreeze == Button /\ Freeze /\ UNCHANGED <<glue, auto>>

\* The ROI check fails: early return, m_OptimizedGluePath is left as it was.
ToolPathRejectRoi ==
    /\ btnPc = "roi"
    /\ ~roiFits
    /\ ToolPathReturn
    /\ UNCHANGED <<grabVars, configVars, genVars, history>>

\* Calibration corrects image, mask and reference; when it throws, the handler
\* falls back to the raw image and keeps the raw reference.
ToolPathCorrect ==
    /\ btnPc = "roi"
    /\ roiFits
    /\ effRef' \in {RawRef} \cup (IF calibrated THEN {MovedRef} ELSE {})
    /\ btnPc' = "extract"
    /\ UNCHANGED <<grabVars, configVars, genVars, auto, dialog, snap, history>>

\* A mutant of ToolPathStore: the reference is remembered before the correction.
ToolPathStore_RawReference ==
    /\ btnPc = "extract"
    /\ glue' \in {snap, 0}
    /\ glueRef' = effRef
    /\ behind' = dialog
    /\ IF glue' # 0
       THEN hasGenRef' = TRUE /\ genRef' = RawRef
       ELSE UNCHANGED genVars
    /\ ToolPathReturn
    /\ UNCHANGED <<scene, bGrabThread, phase, held, mat, configVars, loaded, sent>>

\* The result is stored together with the reference it was computed with; a
\* result without points (nothing found, or toolPath cleared by a worker in the
\* middle of the extraction) is stored without one.
ToolPathStore ==
    /\ btnPc = "extract"
    /\ glue' \in {snap, 0}
    /\ glueRef' = effRef
    /\ behind' = dialog
    /\ IF glue' # 0
       THEN hasGenRef' = TRUE /\ genRef' = effRef
       ELSE UNCHANGED genVars
    /\ ToolPathReturn
    /\ UNCHANGED <<scene, bGrabThread, phase, held, mat, configVars, loaded, sent>>

-----------------------------------------------------------------------------
(* GO. *)

\* The first check, for the operator and for the service; the angle is then
\* read over Modbus, which takes a while.
GoBegin ==
    /\ Button \/ btnPc = "check"
    /\ glue # 0
    /\ btnPc' = "convert"
    /\ UNCHANGED <<grabVars, configVars, genVars, auto, dialog, snap, effRef, history>>

\* The path is converted as it is now; a worker may have emptied it, which the
\* second check catches.  The angle may also be unreadable: both end the handler.
GoAbandon ==
    /\ btnPc = "convert"
    /\ Return
    /\ UNCHANGED <<grabVars, configVars, genVars, history>>

\* A mutant of GoConvert: the conversion starts from the raw reference again.
GoConvert_RawReference ==
    /\ btnPc = "convert"
    /\ glue # 0
    /\ sent' = [frame |-> glue, ref |-> RawRef, generated |-> glueRef]
    /\ btnPc' = "write"
    /\ UNCHANGED <<grabVars, configVars, genVars, auto, dialog, snap, effRef, glueRef,
                   loaded, behind>>

\* The conversion proper, with the remembered reference if there is one.
GoConvert ==
    /\ btnPc = "convert"
    /\ glue # 0
    /\ sent' = [frame     |-> glue,
                ref       |-> IF hasGenRef THEN genRef ELSE RawRef,
                generated |-> glueRef]
    /\ btnPc' = "write"
    /\ UNCHANGED <<grabVars, configVars, genVars, auto, dialog, snap, effRef, glueRef,
                   loaded, behind>>

\* The writes and the message boxes that report them.
GoEnd ==
    /\ btnPc = "write"
    /\ Return
    /\ sent' = NothingSent
    /\ UNCHANGED <<grabVars, configVars, genVars, glueRef, loaded, behind>>

-----------------------------------------------------------------------------
(* The service of a request, by a tick in the message loop or in the dialog's. *)

\* Not grabbing and not waiting for a picture: a new acquisition.
AutoStart ==
    /\ Dispatching
    /\ \E t \in Threads : SpawnThread(t)
    /\ mat' = 0
    /\ glue' = 0
    /\ loaded' = FALSE
    /\ UNCHANGED <<scene, held, configVars, genVars, callVars, glueRef, behind, sent>>

\* The picture is there and acquisition has been stopped: the old path is
\* dropped and Tool Path called.
AutoGenerate ==
    /\ Dispatching
    /\ ~bGrabThread
    /\ Freeze
    /\ glue' = 0
    /\ auto' = TRUE

\* No path came of it.
AutoNoPath ==
    /\ btnPc = "check"
    /\ glue = 0
    /\ Return
    /\ UNCHANGED <<grabVars, configVars, genVars, history>>

-----------------------------------------------------------------------------
(* Load Image. *)

\* A mutant of LoadImgOpen: the paths of the old image are left in place.
LoadImgOpen_KeepsPath ==
    /\ Button
    /\ dialog' = TRUE
    /\ UNCHANGED <<grabVars, configVars, genVars, btnPc, auto, snap, effRef, history>>

\* All paths are cleared, then the file dialog is opened.
LoadImgOpen ==
    /\ Button
    /\ glue' = 0
    /\ dialog' = TRUE
    /\ UNCHANGED <<scene, bGrabThread, phase, held, mat, configVars, genVars, btnPc,
                   auto, snap, effRef, history>>

\* A file is chosen: its picture, of whichever shoe, replaces m_mat; it need not
\* have the camera's size.
LoadImgDone ==
    /\ dialog
    /\ Dispatching
    /\ mat' \in 1 .. MaxScene
    /\ roiFits' \in BOOLEAN
    /\ dialog' = FALSE
    /\ loaded' = TRUE
    /\ UNCHANGED <<scene, bGrabThread, phase, held, glue, reference, calibrated,
                   genVars, btnPc, auto, snap, effRef, glueRef, behind, sent>>

\* Cancelled, or a file that cannot be read.
LoadImgCancel ==
    /\ dialog
    /\ Dispatching
    /\ dialog' = FALSE
    /\ UNCHANGED <<grabVars, configVars, genVars, btnPc, auto, snap, effRef, history>>

-----------------------------------------------------------------------------
(* Configuration taken over from the HMI by the timer, also inside the dialog   *)
(* and the message boxes of the operator's GO; a tick is not entered twice.     *)
(* With SaveINI it is taken over unchecked.                                     *)

TakeConfig ==
    /\ Dispatching \/ (btnPc = "write" /\ ~auto)
    /\ reference' \in {reference, reference + 1} \cap 1 .. MaxRef
    /\ roiFits' \in BOOLEAN
    /\ UNCHANGED <<grabVars, calibrated, genVars, callVars, history>>

\* The calibration program is run beside this one and its result is picked up.
Calibrate ==
    /\ Dispatching
    /\ ~calibrated
    /\ calibrated' = TRUE
    /\ UNCHANGED <<grabVars, reference, roiFits, genVars, callVars, history>>

-----------------------------------------------------------------------------

\* The workers at any time; Grab and Stop by the operator or by a tick.
Acquisition ==
    /\ \/ ChangeShoe
       \/ \E t \in Threads : Worker(t)
       \/ Dispatching /\ (StopGrab \/ \E t \in Threads : StartGrab(t))
    /\ loaded' = (loaded /\ mat' = mat)
    /\ UNCHANGED <<configVars, genVars, callVars, glueRef, behind, sent>>

ToolNext ==
    \/ Acquisition
    \/ ToolPathFreeze \/ ToolPathRejectRoi \/ ToolPathCorrect \/ ToolPathStore
    \/ GoBegin \/ GoAbandon \/ GoConvert \/ GoEnd
    \/ AutoStart \/ AutoGenerate \/ AutoNoPath
    \/ LoadImgOpen \/ LoadImgDone \/ LoadImgCancel
    \/ TakeConfig \/ Calibrate

ToolSpec == ToolInit /\ [][ToolNext]_vars

-----------------------------------------------------------------------------
(* Properties. *)

\* The remembered reference is the one the stored path was extracted with: no
\* interleaving of workers, loads, services and failed extractions pairs a path
\* with the reference of another.
GenRefMatchesPath == hasGenRef /\ glue # 0 => genRef = glueRef

\* Load Image clears the paths "to avoid leftovers of the old data": while the
\* image shown is one loaded from a file, a stored path was extracted from that
\* image.  The exception is a path a service has stored behind the file dialog,
\* after the clearing: it survives the load, and GO would send it.
LoadedHasOwnPath == loaded /\ glue # 0 => glue = mat \/ behind

\* GO converts a path with the reference it was generated with, although the
\* HMI may have moved the reference point since.
SentWithOwnReference == sent.ref = sent.generated

\* The same, unless the reference has been forgotten since: as long as a reference
\* is remembered, GO and Tool Path agree on the origin of the path sent.
RememberedReferenceSent ==
    [][sent' \notin {sent, NothingSent} /\ hasGenRef => sent'.ref = glueRef]_vars

\* A new path is taken from the frozen snapshot only, whatever the workers publish
\* during the extraction.
PathFromSnapshot == [][glue' \in {0, glue, snap}]_vars
=============================================================================
