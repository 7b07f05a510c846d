--------------------------- MODULE ToolPathGo_proof ---------------------------
(***************************************************************************)
(* Proofs about ToolPathGo, for any set of workers and any number of shoes *)
(* and reference points: a remembered reference belongs to the stored      *)
(* path, GO uses it, a path is taken from the snapshot only, and an image  *)
(* loaded from a file has no path of another image but one that a service  *)
(* stored behind the file dialog.                                          *)
(***************************************************************************)
EXTENDS ToolPathGo, GrabThread_proof

\* While the file dialog is open, a path has been stored behind it: Load Image
\* has cleared the others.
DialogPathIsBehind == dialog /\ glue # 0 => behind

\* Tool Path works on the loaded image, unless that has been replaced.
SnapOfLoaded == btnPc \in {"roi", "extract"} /\ loaded => snap = mat

LoadInv ==
    /\ LoadedHasOwnPath
    /\ DialogPathIsBehind
    /\ SnapOfLoaded

\* The inductive invariant.
ToolInv ==
    /\ ToolTypeOK
    /\ GrabFlagHasThread
    /\ GenRefMatchesPath
    /\ LoadInv

-----------------------------------------------------------------------------
(* Acquisition as a part of this module. *)

\* The steps of the buttons that leave acquisition alone; mat and glue are theirs
\* too.
LEMMA AcquisitionIsGrab ==
    Acquisition => /\ [GrabNext]_grabVars
                   /\ UNCHANGED <<configVars, genVars, callVars, glueRef, behind, sent>>
                   /\ loaded' = (loaded /\ mat' = mat)
BY DEF Acquisition, GrabNext

\* A worker does not touch a path except to clear it.
LEMMA WorkersOnlyClear == GrabNext => glue' \in {glue, 0}
BY DEF GrabNext, ChangeShoe, StartGrab, StopGrab, Worker, OpenCamera, ExposeFrame,
       RetrieveTimeout, BadFrame, GoodFrame, Publish, ClearPaths, CloseCamera,
       ExitThread

LEMMA RefPointFacts ==
    ASSUME ToolTypeOK
    PROVE  RawRef \in RefPoints /\ MovedRef \in RefPoints /\ NoRef \in RefPoints
BY ToolPathAssumption DEF ToolTypeOK, RawRef, MovedRef, RefPoints, NoRef

\* Return leaves locals of the right types behind.
LEMMA ReturnTypes ==
    ASSUME ToolTypeOK, Return \/ ToolPathReturn
    PROVE  /\ btnPc' \in {"idle", "check"}
           /\ auto' \in BOOLEAN
           /\ dialog' = dialog
           /\ snap' \in Frames
           /\ effRef' \in RefPoints
<1>1. NoRef \in RefPoints /\ 0 \in Frames /\ auto \in BOOLEAN
  BY RefPointFacts, SceneAssumption DEF ToolTypeOK, Frames
<1>2. CASE Return
  BY <1>1, <1>2 DEF Return
<1>3. CASE ToolPathReturn
  BY <1>1, <1>3 DEF ToolPathReturn
<1> QED BY <1>2, <1>3

-----------------------------------------------------------------------------

LEMMA ToolInitInv == ToolInit => ToolInv
<1> SUFFICES ASSUME ToolInit PROVE ToolInv
  OBVIOUS
<1>1. GrabInv
  BY GrabInitInv DEF ToolInit
<1>2. NoRef \in RefPoints /\ reference \in 1 .. MaxRef /\ 0 \in Frames
  BY ToolPathAssumption, SceneAssumption DEF ToolInit, NoRef, RefPoints, Frames
<1>3. ToolTypeOK /\ GrabFlagHasThread
  BY <1>1, <1>2 DEF ToolInit, ToolTypeOK, GrabInv, NothingSent
<1>4. GenRefMatchesPath /\ LoadInv
  BY DEF ToolInit, GenRefMatchesPath, LoadInv, LoadedHasOwnPath, DialogPathIsBehind,
         SnapOfLoaded
<1> QED BY <1>3, <1>4 DEF ToolInv

\* Types, handler by handler.
LEMMA ToolTypeStep == ToolTypeOK /\ GrabTypeOK' /\ [ToolNext]_vars => ToolTypeOK'
<1> SUFFICES ASSUME ToolTypeOK, GrabTypeOK', [ToolNext]_vars PROVE ToolTypeOK'
  OBVIOUS
<1> USE DEF ToolTypeOK, configVars, genVars, callVars, history
<1>1. CASE Acquisition \/ UNCHANGED vars
  BY <1>1 DEF Acquisition, toolVars, vars
<1>2. CASE ToolPathFreeze \/ AutoGenerate
  BY <1>2 DEF ToolPathFreeze, AutoGenerate, Freeze, GrabTypeOK
<1>3. CASE ToolPathRejectRoi \/ GoAbandon \/ AutoNoPath
  BY <1>3, ReturnTypes DEF ToolPathRejectRoi, GoAbandon, AutoNoPath
<1>4. CASE ToolPathCorrect
  BY <1>4, RefPointFacts DEF ToolPathCorrect
<1>5. CASE ToolPathStore
  BY <1>5, ReturnTypes DEF ToolPathStore
<1>6. CASE GoBegin
  BY <1>6 DEF GoBegin
<1>7. CASE GoConvert
  <2>1. (IF hasGenRef THEN genRef ELSE RawRef) \in RefPoints /\ glue \in Frames
    BY RefPointFacts DEF GrabTypeOK
  <2> QED BY <1>7, <2>1 DEF GoConvert
<1>8. CASE GoEnd
  <2>1. NothingSent \in [frame : Frames, ref : RefPoints, generated : RefPoints]
    BY RefPointFacts, SceneAssumption DEF NothingSent, Frames
  <2> QED BY <1>8, <2>1, ReturnTypes DEF GoEnd
<1>9. CASE AutoStart \/ LoadImgOpen \/ LoadImgDone \/ LoadImgCancel
  BY <1>9 DEF AutoStart, LoadImgOpen, LoadImgDone, LoadImgCancel
<1>10. CASE TakeConfig \/ Calibrate
  BY <1>10 DEF TakeConfig, Calibrate
<1> QED
  BY <1>1, <1>2, <1>3, <1>4, <1>5, <1>6, <1>7, <1>8, <1>9, <1>10 DEF ToolNext

\* The pairing of path and reference: a path is stored with its reference, and
\* everything else drops the path, drops the reference or leaves both alone.
LEMMA PairingStep == GenRefMatchesPath /\ [ToolNext]_vars => GenRefMatchesPath'
<1> SUFFICES ASSUME GenRefMatchesPath, [ToolNext]_vars PROVE GenRefMatchesPath'
  OBVIOUS
<1> USE DEF GenRefMatchesPath, genVars, history, grabVars
<1>1. CASE Acquisition
  <2>1. glue' \in {glue, 0} /\ UNCHANGED <<hasGenRef, genRef, glueRef>>
    BY <1>1, AcquisitionIsGrab, WorkersOnlyClear
  <2> QED BY <2>1
<1>2. CASE ToolPathFreeze \/ AutoGenerate
  BY <1>2 DEF ToolPathFreeze, AutoGenerate, Freeze
<1>3. CASE ToolPathStore
  BY <1>3 DEF ToolPathStore
<1>4. CASE ToolPathRejectRoi \/ ToolPathCorrect
  BY <1>4 DEF ToolPathRejectRoi, ToolPathCorrect
<1>5. CASE GoBegin \/ GoAbandon \/ GoConvert \/ GoEnd
  BY <1>5 DEF GoBegin, GoAbandon, GoConvert, GoEnd
<1>6. CASE AutoStart \/ AutoNoPath
  BY <1>6 DEF AutoStart, AutoNoPath
<1>7. CASE LoadImgOpen \/ LoadImgDone \/ LoadImgCancel
  BY <1>7 DEF LoadImgOpen, LoadImgDone, LoadImgCancel
<1>8. CASE TakeConfig \/ Calibrate \/ UNCHANGED vars
  BY <1>8 DEF TakeConfig, Calibrate, vars, toolVars
<1> QED BY <1>1, <1>2, <1>3, <1>4, <1>5, <1>6, <1>7, <1>8 DEF ToolNext

\* A loaded image keeps to its own path: the worker that replaces it makes it an
\* image of the camera, Tool Path works on a snapshot of it, and a load starts
\* from no path or one stored behind the dialog.
LEMMA LoadStep == LoadInv /\ [ToolNext]_vars => LoadInv'
<1> SUFFICES ASSUME LoadInv, [ToolNext]_vars PROVE LoadInv'
  OBVIOUS
<1> USE DEF LoadInv, LoadedHasOwnPath, DialogPathIsBehind, SnapOfLoaded, callVars,
            history, grabVars
<1>1. CASE Acquisition
  <2>1. /\ glue' \in {glue, 0}
        /\ UNCHANGED <<btnPc, dialog, snap, behind>>
        /\ loaded' = (loaded /\ mat' = mat)
    BY <1>1, AcquisitionIsGrab, WorkersOnlyClear
  <2> QED BY <2>1
<1>2. CASE ToolPathFreeze \/ AutoGenerate
  BY <1>2 DEF ToolPathFreeze, AutoGenerate, Freeze, Button, Dispatching
<1>3. CASE ToolPathStore
  <2>1. /\ btnPc' \in {"check", "idle"} /\ dialog' = dialog
        /\ glue' \in {snap, 0} /\ behind' = dialog
        /\ UNCHANGED <<mat, loaded>> /\ btnPc = "extract"
    BY <1>3 DEF ToolPathStore, ToolPathReturn
  <2> QED BY <2>1
<1>4. CASE ToolPathCorrect \/ GoBegin \/ GoConvert
  BY <1>4 DEF ToolPathCorrect, GoBegin, GoConvert
<1>5. CASE ToolPathRejectRoi \/ GoAbandon \/ GoEnd \/ AutoNoPath
  BY <1>5 DEF ToolPathRejectRoi, GoAbandon, GoEnd, AutoNoPath, Return, ToolPathReturn
<1>6. CASE AutoStart
  BY <1>6 DEF AutoStart
<1>7. CASE LoadImgOpen \/ LoadImgDone \/ LoadImgCancel
  BY <1>7 DEF LoadImgOpen, LoadImgDone, LoadImgCancel, Button, Dispatching
<1>8. CASE TakeConfig \/ Calibrate \/ UNCHANGED vars
  BY <1>8 DEF TakeConfig, Calibrate, vars, toolVars
<1> QED BY <1>1, <1>2, <1>3, <1>4, <1>5, <1>6, <1>7, <1>8 DEF ToolNext

\* The handlers and acquisition: seen from the workers, Load Image and the start
\* of a service are the handlers that write m_mat.
LEMMA GrabTypeOfTool == GrabTypeOK /\ ToolTypeOK /\ [ToolNext]_vars => GrabTypeOK'
<1> SUFFICES ASSUME GrabTypeOK, ToolTypeOK, [ToolNext]_vars PROVE GrabTypeOK'
  OBVIOUS
<1>1. CASE Acquisition
  BY <1>1, AcquisitionIsGrab, GrabTypeStep
<1>2. CASE UNCHANGED grabVars
  BY <1>2 DEF GrabTypeOK, grabVars
<1>3. CASE ToolPathStore \/ AutoGenerate \/ LoadImgOpen \/ LoadImgDone
  BY <1>3, SceneAssumption
  DEF ToolPathStore, AutoGenerate, Freeze, LoadImgOpen, LoadImgDone, GrabTypeOK,
      ToolTypeOK, Frames
<1>4. CASE AutoStart
  BY <1>4, SceneAssumption DEF AutoStart, SpawnThread, GrabTypeOK, Phases, Frames
<1> QED
  BY <1>1, <1>2, <1>3, <1>4
  DEF ToolNext, ToolPathFreeze, Freeze, ToolPathRejectRoi, ToolPathCorrect, GoBegin,
      GoAbandon, GoConvert, GoEnd, AutoNoPath, LoadImgCancel, TakeConfig, Calibrate,
      vars, grabVars

\* Only the start of a service writes the flag outside acquisition, and it spawns the
\* worker with it.
LEMMA FlagOfTool ==
    GrabTypeOK /\ GrabFlagHasThread /\ [ToolNext]_vars => GrabFlagHasThread'
<1> SUFFICES ASSUME GrabTypeOK, GrabFlagHasThread, [ToolNext]_vars
             PROVE  GrabFlagHasThread'
  OBVIOUS
<1>1. CASE Acquisition
  BY <1>1, AcquisitionIsGrab, FlagStep
<1>2. CASE AutoStart
  <2>1. PICK t \in Threads : SpawnThread(t)
    BY <1>2 DEF AutoStart
  <2>2. phase'[t] = "open"
    BY <2>1 DEF SpawnThread, GrabTypeOK
  <2> QED BY <2>2 DEF GrabFlagHasThread, Alive
<1>3. CASE UNCHANGED <<bGrabThread, phase>>
  BY <1>3 DEF GrabFlagHasThread, Alive
<1> QED
  BY <1>1, <1>2, <1>3
  DEF ToolNext, ToolPathFreeze, Freeze, ToolPathRejectRoi, ToolPathCorrect,
      ToolPathStore, GoBegin, GoAbandon, GoConvert, GoEnd, AutoGenerate, AutoNoPath,
      LoadImgOpen, LoadImgDone, LoadImgCancel, TakeConfig, Calibrate, vars, grabVars

LEMMA ToolNextInv == ToolInv /\ [ToolNext]_vars => ToolInv'
<1> SUFFICES ASSUME ToolInv, [ToolNext]_vars PROVE ToolInv'
  OBVIOUS
<1>1. GrabTypeOK'
  BY GrabTypeOfTool DEF ToolInv, ToolTypeOK
<1>2. ToolTypeOK' /\ GrabFlagHasThread' /\ GenRefMatchesPath' /\ LoadInv'
  BY <1>1, ToolTypeStep, FlagOfTool, PairingStep, LoadStep DEF ToolInv, ToolTypeOK
<1> QED BY <1>2 DEF ToolInv

THEOREM ToolInvariance == ToolSpec => []ToolInv
BY ToolInitInv, ToolNextInv, PTL DEF ToolSpec

-----------------------------------------------------------------------------

\* Every variable has its type, for any number of workers, shoes and references.
THEOREM ToolTyped == ToolSpec => []ToolTypeOK
BY ToolInvariance, PTL DEF ToolInv

\* Grab is never a dead button in the manual flow either: a worker stands behind the flag,
\* whoever has started it, the operator, a tick or a service behind the file dialog.
THEOREM ToolFlagSafety == ToolSpec => []GrabFlagHasThread
BY ToolInvariance, PTL DEF ToolInv

\* The remembered reference is that of the stored path, for any number of workers,
\* shoes and reference points.
THEOREM ReferenceSafety == ToolSpec => []GenRefMatchesPath
BY ToolInvariance, PTL DEF ToolInv

\* A loaded image is never paired with a path of another image, unless a service
\* has stored it behind the file dialog, for any number of workers, images and
\* reference points.
THEOREM LoadedPathSafety == ToolSpec => []LoadedHasOwnPath
BY ToolInvariance, PTL DEF ToolInv, LoadInv

\* As long as a reference is remembered, GO converts the path with the reference
\* it was extracted with, however often the HMI has moved the reference point.
THEOREM RememberedSent == ToolSpec => RememberedReferenceSent
<1>1. ToolInv /\ [ToolNext]_vars
        => [sent' \notin {sent, NothingSent} /\ hasGenRef => sent'.ref = glueRef]_vars
  <2> SUFFICES ASSUME ToolInv, ToolNext, sent' \notin {sent, NothingSent}, hasGenRef
               PROVE  sent'.ref = glueRef
    OBVIOUS
  <2>1. GoConvert
    BY DEF ToolNext, Acquisition, history, ToolPathFreeze, Freeze, ToolPathRejectRoi,
           ToolPathCorrect, ToolPathStore, GoBegin, GoAbandon, GoEnd, AutoStart,
           AutoGenerate, AutoNoPath, LoadImgOpen, LoadImgDone, LoadImgCancel,
           TakeConfig, Calibrate
  <2>2. glue # 0 /\ sent'.ref = genRef
    BY <2>1 DEF GoConvert
  <2> QED BY <2>2 DEF ToolInv, GenRefMatchesPath
<1> QED BY <1>1, ToolInvariance, PTL DEF ToolSpec, RememberedReferenceSent

\* No interleaving makes Tool Path store a path of another frame than the one it
\* has frozen.
THEOREM SnapshotOnly == ToolSpec => PathFromSnapshot
<1>1. [ToolNext]_vars => [glue' \in {0, glue, snap}]_vars
  <2> SUFFICES ASSUME ToolNext PROVE glue' \in {0, glue, snap}
    OBVIOUS
  <2>1. CASE Acquisition
    BY <2>1, AcquisitionIsGrab, WorkersOnlyClear DEF grabVars
  <2>2. CASE ToolPathFreeze \/ ToolPathStore \/ AutoStart \/ AutoGenerate
             \/ LoadImgOpen \/ LoadImgDone
    BY <2>2 DEF ToolPathFreeze, ToolPathStore, AutoStart, AutoGenerate, LoadImgOpen,
                LoadImgDone
  <2> QED
    BY <2>1, <2>2
    DEF ToolNext, grabVars, ToolPathRejectRoi, ToolPathCorrect, GoBegin, GoAbandon,
        GoConvert, GoEnd, AutoNoPath, LoadImgCancel, TakeConfig, Calibrate
<1> QED BY <1>1, PTL DEF ToolSpec, PathFromSnapshot
=============================================================================
