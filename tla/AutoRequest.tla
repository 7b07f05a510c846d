----------------------------- MODULE AutoRequest -----------------------------
(***************************************************************************)
(* The automatic flow: the HMI raises register 157 (CreateToolPath) and    *)
(* the program grabs an image, stops grabbing, generates a path, sends it  *)
(* and lowers the request.                                                 *)
(*                                                                         *)
(* WorkTab::SyncHmiData runs on a 500 ms timer of the UI thread.  One tick *)
(* reads the function block (139 = Grab), then the configuration block     *)
(* (157 = CreateToolPath), then calls HandleAutoCreateToolPathRequest.     *)
(* The tick is cut into steps wherever another actor can get in between:   *)
(* the workers of GrabThread, the HMI, and - while a message box pumps     *)
(* messages - MachineTab's keep-alive timer.                               *)
(***************************************************************************)
EXTENDS GrabThread

CONSTANTS
    LinkFaults,    \* TRUE: any Modbus read or write may fail
    MayThrow,      \* TRUE: path generation may throw (cv::Exception, ...)
    HmiMayCancel,  \* TRUE: the HMI may lower 157 by itself
    HmiMayGrab,    \* TRUE: the HMI writes 139 as well
    PatientHmi,    \* TRUE: no new request until the last one is finished with
    ManualOps,     \* TRUE: the operator uses the Grab and Stop buttons
    PromptCamera   \* TRUE: a stopped worker ends before the next tick or button

ASSUME SwitchAssumption ==
    {LinkFaults, MayThrow, HmiMayCancel, HmiMayGrab, PatientHmi, ManualOps,
     PromptCamera}
        \subseteq BOOLEAN

VARIABLES
    reg139,      \* PLC/HMI register 139: Grab
    reg157,      \* PLC/HMI register 157: CreateToolPath
    grab,        \* m_lastSyncedSystemFunction.Grab (= m_SystemFunction.Grab)
    baseline,    \* m_hasSystemFunctionBaseline
    create,      \* m_SystemPara.CreateToolPath
    lastCreate,  \* m_lastSyncedSystemPara.CreateToolPath
    waiting,     \* m_autoCreateToolPathWaitingForImage
    autoBusy,    \* m_autoCreateToolPathBusy
    syncOn,      \* m_hmiSyncEnabled
    uiPc,        \* where the UI thread is in the tick
    snap,        \* sourceFrame, the snapshot of OnBnClickedIdcWorkToolPath
    pending,     \* history: what has become of the request now in 157
    wanted,      \* history: the shoe the accepted request is about, 0 if any
    sent         \* history: the last transmission

uiVars   == <<reg139, reg157, grab, baseline, create, lastCreate, waiting,
              autoBusy, syncOn, uiPc, snap>>
history  == <<pending, wanted, sent>>
autoVars == <<grabVars, uiVars, history>>

\* The UI thread's next handler finds no worker that has been told to stop and
\* has not ended yet: frames come faster than timer ticks and fingers.
WorkersSettled == PromptCamera => (bGrabThread \/ \A t \in Threads : ~Alive(t))

UiPcs == {"idle", "config", "auto", "image", "extract", "check", "go", "doneBox",
          "clear"}

\* The steps of one service, from the snapshot to the last clear.
InService == uiPc \in {"extract", "check", "go", "doneBox", "clear"}

AutoTypeOK ==
    /\ GrabTypeOK
    /\ reg139 \in 0 .. 1
    /\ reg157 \in 0 .. 1
    /\ grab \in 0 .. 1
    /\ baseline \in BOOLEAN
    /\ create \in 0 .. 1
    /\ lastCreate \in 0 .. 1
    /\ waiting \in BOOLEAN
    /\ autoBusy \in BOOLEAN
    /\ syncOn \in BOOLEAN
    /\ uiPc \in UiPcs
    /\ snap \in Frames
    /\ pending \in {"none", "raised", "accepted", "served"}
    /\ wanted \in Frames
    /\ sent \in [frame : Frames, wanted : Frames]

-----------------------------------------------------------------------------

\* A mutant of AutoInit: the saved CreateToolPath is used unchecked.
AutoInit_Unchecked ==
    /\ GrabInit
    /\ reg139 = 1
    /\ grab = 1
    /\ baseline = FALSE
    /\ create \in 0 .. 2
    /\ reg157 \in IF LinkFaults THEN 0 .. 1 ELSE {create}
    /\ lastCreate = create
    /\ waiting = FALSE
    /\ autoBusy = FALSE
    /\ syncOn = TRUE
    /\ uiPc = "idle"
    /\ snap = 0
    /\ pending = IF reg157 = 1 THEN "raised" ELSE "none"
    /\ wanted = 0
    /\ sent = [frame |-> 0, wanted |-> 0]

\* WorkTab::OnInitDialog has copied the configuration of SystemConfig.ini and
\* OpenModBus has written it to the PLC, CreateToolPath included: a request that
\* was saved while set is raised again.  When that write fails the register keeps
\* its value.  Grab has been pressed and the sync timer is running.
AutoInit ==
    /\ GrabInit
    /\ reg139 = 1
    /\ grab = 1
    /\ baseline = FALSE
    /\ create \in 0 .. 1
    /\ reg157 \in IF LinkFaults THEN 0 .. 1 ELSE {create}
    /\ lastCreate = create
    /\ waiting = FALSE
    /\ autoBusy = FALSE
    /\ syncOn = TRUE
    /\ uiPc = "idle"
    /\ snap = 0
    /\ pending = IF reg157 = 1 THEN "raised" ELSE "none"
    /\ wanted = 0
    /\ sent = [frame |-> 0, wanted |-> 0]

-----------------------------------------------------------------------------
(* The HMI. *)

HmiRequest ==
    /\ reg157 = 0
    /\ PatientHmi => ~InService
    /\ reg157' = 1
    /\ pending' = "raised"
    /\ UNCHANGED <<grabVars, reg139, grab, baseline, create, lastCreate, waiting,
                   autoBusy, syncOn, uiPc, snap, wanted, sent>>

HmiCancel ==
    /\ HmiMayCancel
    /\ reg157 = 1
    /\ reg157' = 0
    /\ pending' = "none"
    /\ wanted' = 0
    /\ UNCHANGED <<grabVars, reg139, grab, baseline, create, lastCreate, waiting,
                   autoBusy, syncOn, uiPc, snap, sent>>

HmiGrab ==
    /\ HmiMayGrab
    /\ reg139' = 1 - reg139
    /\ UNCHANGED <<grabVars, reg157, grab, baseline, create, lastCreate, waiting,
                   autoBusy, syncOn, uiPc, snap, history>>

-----------------------------------------------------------------------------
(* Register writes of the program.  A failed write is reported by a return  *)
(* value that no caller of this flow looks at.                              *)

Write139(v) == reg139' \in IF LinkFaults THEN {v, reg139} ELSE {v}

\* OnBnClickedWorkGrab: flag, worker, register 139.
DoGrab(t) == SpawnThread(t) /\ grab' = 1 /\ Write139(1)

\* OnBnClickedWorkStopGrab: flag, register 139.
DoStopGrab ==
    /\ bGrabThread' = FALSE
    /\ grab' = 0
    /\ Write139(0)
    /\ UNCHANGED phase

\* A mutant of ClearRequest: m_SystemPara keeps the request.
ClearRequest_KeepsCreate ==
    /\ lastCreate' = 0
    /\ grab' = 0
    /\ waiting' = FALSE
    /\ Write139(0)
    /\ reg157' \in IF LinkFaults THEN {0, reg157} ELSE {0}
    /\ IF reg157' = 0
       THEN pending' = "none" /\ wanted' = 0
       ELSE UNCHANGED <<pending, wanted>>
    /\ UNCHANGED create

\* ClearCreateToolPathRequest: local state first, then registers 139 and 157.
ClearRequest ==
    /\ create' = 0
    /\ lastCreate' = 0
    /\ grab' = 0
    /\ waiting' = FALSE
    /\ Write139(0)
    /\ reg157' \in IF LinkFaults THEN {0, reg157} ELSE {0}
    /\ IF reg157' = 0
       THEN pending' = "none" /\ wanted' = 0
       ELSE UNCHANGED <<pending, wanted>>

\* The first tick that sees a request decides what is owed for it: if
\* acquisition is off then, a frame of the shoe that is there, or a later one.
Accept ==
    IF pending = "raised" /\ create' = 1
    THEN /\ pending' = "accepted"
         /\ wanted' = IF bGrabThread THEN 0 ELSE scene
    ELSE UNCHANGED <<pending, wanted>>

-----------------------------------------------------------------------------
(* SyncHmiData, first block: the system functions. *)

\* The change handler starts or stops acquisition to follow register 139.  The
\* three disjuncts are its two branches and "nothing to do".
SyncFunction ==
    /\ syncOn
    /\ uiPc = "idle"
    /\ WorkersSettled
    /\ LET changed == ~baseline \/ reg139 # grab
       IN  \/ /\ changed /\ reg139 = 1 /\ ~bGrabThread
              /\ \E t \in Threads : DoGrab(t)
           \/ /\ changed /\ reg139 = 0 /\ bGrabThread
              /\ DoStopGrab
           \/ /\ ~changed \/ (reg139 = 1) = bGrabThread
              /\ grab' = reg139
              /\ UNCHANGED <<bGrabThread, phase, reg139>>
    /\ baseline' = TRUE
    /\ uiPc' = "config"
    /\ UNCHANGED <<scene, held, mat, glue, reg157, create, lastCreate, waiting,
                   autoBusy, syncOn, snap, history>>

\* The read of the function block fails: the block is skipped.
SyncFunctionFails ==
    /\ LinkFaults
    /\ syncOn
    /\ uiPc = "idle"
    /\ uiPc' = "config"
    /\ UNCHANGED <<grabVars, reg139, reg157, grab, baseline, create, lastCreate,
                   waiting, autoBusy, syncOn, snap, history>>

\* Second block: the remote configuration is taken over when any field differs
\* from the last one synchronised (or when SaveINI asks for it), so an unchanged
\* CreateToolPath may or may not be taken over along with the others.
SyncConfig ==
    /\ uiPc = "config"
    /\ create' \in IF reg157 # lastCreate THEN {reg157} ELSE {reg157, create}
    /\ lastCreate' = reg157
    /\ Accept
    /\ uiPc' = "auto"
    /\ UNCHANGED <<grabVars, reg139, reg157, grab, baseline, waiting, autoBusy,
                   syncOn, snap, sent>>

\* The read fails, or IsSystemConfigDisplayDataValid rejects what was read.
SyncConfigFails ==
    /\ LinkFaults
    /\ uiPc = "config"
    /\ uiPc' = "auto"
    /\ UNCHANGED <<grabVars, reg139, reg157, grab, baseline, create, lastCreate,
                   waiting, autoBusy, syncOn, snap, history>>

-----------------------------------------------------------------------------
(* HandleAutoCreateToolPathRequest. *)

AutoActive == uiPc = "auto" /\ create = 1 /\ ~autoBusy

\* Its first early return.
AutoIdle ==
    /\ uiPc = "auto"
    /\ create # 1 \/ autoBusy
    /\ uiPc' = "idle"
    /\ UNCHANGED <<grabVars, reg139, reg157, grab, baseline, create, lastCreate,
                   waiting, autoBusy, syncOn, snap, history>>

\* A mutant of AutoStart: the old image is not released.
AutoStart_KeepsImage ==
    /\ AutoActive
    /\ ~waiting
    /\ \E t \in Threads : DoGrab(t)
    /\ glue' = 0
    /\ waiting' = TRUE
    /\ uiPc' = "idle"
    /\ UNCHANGED <<scene, held, mat, reg157, baseline, create, lastCreate, autoBusy,
                   syncOn, snap, history>>

\* Not grabbing and not waiting: drop the old image and paths, start acquisition.
AutoStart ==
    /\ AutoActive
    /\ ~waiting
    /\ \E t \in Threads : DoGrab(t)
    /\ mat' = 0
    /\ glue' = 0
    /\ waiting' = TRUE
    /\ uiPc' = "idle"
    /\ UNCHANGED <<scene, held, reg157, baseline, create, lastCreate, autoBusy,
                   syncOn, snap, history>>

\* Otherwise on to the image; the worker may publish one, or end, before the
\* next two tests are made.
AutoProceed ==
    /\ AutoActive
    /\ waiting \/ bGrabThread
    /\ uiPc' = "image"
    /\ UNCHANGED <<grabVars, reg139, reg157, grab, baseline, create, lastCreate,
                   waiting, autoBusy, syncOn, snap, history>>

\* A mutant of AutoNoImage: without an image the request is given up.
AutoNoImage_GivesUp ==
    /\ uiPc = "image"
    /\ mat = 0
    /\ ClearRequest
    /\ uiPc' = "idle"
    /\ UNCHANGED <<grabVars, baseline, autoBusy, syncOn, snap, sent>>

\* No image yet: try again at the next tick.
AutoNoImage ==
    /\ uiPc = "image"
    /\ mat = 0
    /\ uiPc' = "idle"
    /\ UNCHANGED <<grabVars, reg139, reg157, grab, baseline, create, lastCreate,
                   waiting, autoBusy, syncOn, snap, history>>

\* A mutant of AutoStop: it forgets that it is in the middle of a request.
AutoStop_NotWaiting ==
    /\ uiPc = "image"
    /\ mat # 0
    /\ bGrabThread
    /\ DoStopGrab
    /\ waiting' = FALSE
    /\ uiPc' = "idle"
    /\ UNCHANGED <<scene, held, mat, glue, reg157, baseline, create, lastCreate,
                   autoBusy, syncOn, snap, history>>

\* An image is there and acquisition is on: stop it, generate at a later tick.
AutoStop ==
    /\ uiPc = "image"
    /\ mat # 0
    /\ bGrabThread
    /\ DoStopGrab
    /\ waiting' = TRUE
    /\ uiPc' = "idle"
    /\ UNCHANGED <<scene, held, mat, glue, reg157, baseline, create, lastCreate,
                   autoBusy, syncOn, snap, history>>

\* An image is there and acquisition is off: clear the old paths and take the
\* snapshot all of the generation works on (under m_matMutex).
AutoGenerate ==
    /\ uiPc = "image"
    /\ mat # 0
    /\ ~bGrabThread
    /\ waiting' = FALSE
    /\ autoBusy' = TRUE
    /\ glue' = 0
    /\ snap' = mat
    /\ pending' = IF pending = "none" THEN "none" ELSE "served"
    /\ uiPc' = "extract"
    /\ UNCHANGED <<scene, bGrabThread, phase, held, mat, reg139, reg157, grab,
                   baseline, create, lastCreate, syncOn, wanted, sent>>

\* A mutant of AutoExtracted: the live image is read instead of the snapshot.
AutoExtracted_LiveImage ==
    /\ uiPc = "extract"
    /\ glue' \in {mat, 0}
    /\ uiPc' = "check"
    /\ UNCHANGED <<scene, bGrabThread, phase, held, mat, reg139, reg157, grab,
                   baseline, create, lastCreate, waiting, autoBusy, syncOn, snap,
                   history>>

\* Extraction ends: m_OptimizedGluePath is stored, empty when the ROI check
\* failed or no outline was found.
AutoExtracted ==
    /\ uiPc = "extract"
    /\ glue' \in {snap, 0}
    /\ uiPc' = "check"
    /\ UNCHANGED <<scene, bGrabThread, phase, held, mat, reg139, reg157, grab,
                   baseline, create, lastCreate, waiting, autoBusy, syncOn, snap,
                   history>>

\* An exception leaves the handler: OnTimer's catch block ends the tick and
\* switches synchronisation off; m_autoCreateToolPathBusy stays set.
AutoThrow ==
    /\ MayThrow
    /\ uiPc = "extract"
    /\ syncOn' = FALSE
    /\ baseline' = FALSE
    /\ uiPc' = "idle"
    /\ UNCHANGED <<grabVars, reg139, reg157, grab, create, lastCreate, waiting,
                   autoBusy, snap, history>>

\* Go is pressed only if there is a path now.
AutoCheck ==
    /\ uiPc = "check"
    /\ uiPc' = IF glue # 0 THEN "go" ELSE "clear"
    /\ UNCHANGED <<grabVars, reg139, reg157, grab, baseline, create, lastCreate,
                   waiting, autoBusy, syncOn, snap, history>>

\* Go converts m_OptimizedGluePath as it is now, writes the three axes, clears
\* the request a first time and opens the completion box.
GoSend ==
    /\ uiPc = "go"
    /\ glue # 0
    /\ sent' = [frame |-> glue, wanted |-> wanted]
    /\ ClearRequest
    /\ uiPc' = "doneBox"
    /\ UNCHANGED <<grabVars, baseline, autoBusy, syncOn, snap>>

\* Go gives up: a worker has emptied the path since the check, or the link is bad.
GoFail ==
    /\ uiPc = "go"
    /\ glue = 0 \/ LinkFaults
    /\ uiPc' = "clear"
    /\ UNCHANGED <<grabVars, reg139, reg157, grab, baseline, create, lastCreate,
                   waiting, autoBusy, syncOn, snap, history>>

\* The completion box closes, by hand or after 5 s.
DismissBox ==
    /\ uiPc = "doneBox"
    /\ uiPc' = "clear"
    /\ UNCHANGED <<grabVars, reg139, reg157, grab, baseline, create, lastCreate,
                   waiting, autoBusy, syncOn, snap, history>>

\* A mutant of AutoClear: the busy flag is not reset.
AutoClear_StaysBusy ==
    /\ uiPc = "clear"
    /\ ClearRequest
    /\ uiPc' = "idle"
    /\ UNCHANGED <<grabVars, baseline, autoBusy, syncOn, snap, sent>>

\* The handler's own clear, whatever became of Go.
AutoClear ==
    /\ uiPc = "clear"
    /\ ClearRequest
    /\ autoBusy' = FALSE
    /\ uiPc' = "idle"
    /\ UNCHANGED <<grabVars, baseline, syncOn, snap, sent>>

-----------------------------------------------------------------------------
(* Other handlers of the UI thread. *)

\* MachineTab's 30 s timer copies register 157 into m_SystemPara as well, but
\* not into m_lastSyncedSystemPara.  It also runs inside the message boxes of Tool
\* Path and GO, which pump messages.
KeepAlive ==
    /\ uiPc \in {"idle", "extract", "go", "doneBox"}
    /\ create' = reg157
    /\ UNCHANGED <<grabVars, reg139, reg157, grab, baseline, lastCreate, waiting,
                   autoBusy, syncOn, uiPc, snap, history>>

\* The operator's Grab and Stop buttons.
ManualGrab ==
    /\ ManualOps
    /\ uiPc = "idle"
    /\ WorkersSettled
    /\ \E t \in Threads : DoGrab(t)
    /\ UNCHANGED <<scene, held, mat, glue, reg157, baseline, create, lastCreate,
                   waiting, autoBusy, syncOn, uiPc, snap, history>>

ManualStop ==
    /\ ManualOps
    /\ uiPc = "idle"
    /\ DoStopGrab
    /\ UNCHANGED <<scene, held, mat, glue, reg157, baseline, create, lastCreate,
                   waiting, autoBusy, syncOn, uiPc, snap, history>>

-----------------------------------------------------------------------------

Shoe      == ChangeShoe /\ UNCHANGED <<uiVars, history>>
Camera(t) == Worker(t) /\ UNCHANGED <<uiVars, history>>

\* The steps of a tick; OnTimer runs them to the end once they have begun.
Tick ==
    \/ SyncFunction \/ SyncFunctionFails
    \/ SyncConfig \/ SyncConfigFails
    \/ AutoIdle \/ AutoStart \/ AutoProceed \/ AutoNoImage \/ AutoStop
    \/ AutoGenerate
    \/ AutoExtracted \/ AutoThrow \/ AutoCheck
    \/ GoSend \/ GoFail \/ DismissBox \/ AutoClear

AutoNext ==
    \/ Shoe
    \/ \E t \in Threads : Camera(t)
    \/ HmiRequest \/ HmiCancel \/ HmiGrab
    \/ Tick
    \/ KeepAlive \/ ManualGrab \/ ManualStop

AutoSpec == AutoInit /\ [][AutoNext]_autoVars

\* The timer keeps firing, the workers are scheduled, and an open camera
\* delivers good frames again and again.
AutoFairness ==
    /\ WF_autoVars(Tick)
    /\ \A t \in Threads :
          /\ WF_autoVars(Camera(t))
          /\ SF_autoVars(GoodFrame(t) /\ UNCHANGED <<uiVars, history>>)

FairAutoSpec == AutoSpec /\ AutoFairness

-----------------------------------------------------------------------------
(* Properties. *)

\* A request that found acquisition off is answered with the shoe that was
\* under the camera when it was accepted, or a later one: never with the image
\* of an earlier shoe.
FreshPath == sent.frame >= sent.wanted

\* The program lowers 157 only for a request it has begun to serve: one that
\* is raised while an earlier one is being finished is not wiped out.
RequestNotDropped ==
    [][(/\ pending \in {"raised", "accepted"}
        /\ pending' = "none") => HmiCancel]_autoVars

\* Every request is eventually taken through a service.
RequestServed == (pending = "raised") ~> (pending = "none")

\* m_autoCreateToolPathBusy, which blocks every later request, outlives a
\* service only when an exception has switched synchronisation off altogether:
\* a running timer never finds the flow blocked by a service that is over.
BusyNotLeaked == autoBusy /\ syncOn => InService

\* What is sent was extracted from the one snapshot of this service, whatever
\* the workers publish or clear meanwhile.
OneFrame == [][uiPc = "go" /\ uiPc' = "doneBox" => sent'.frame = snap]_autoVars

\* The tick with its flags, copies of registers and workers does what PathRequest
\* promises: a request is answered once at most, by a path as new as itself, nothing is
\* sent that was not asked for, and only an impatient HMI can lose a request.
Promise == INSTANCE PathRequest
               WITH MaxScene <- MaxScene, Patient <- PatientHmi,
                    scene <- scene, request <- pending, wanted <- wanted, sent <- sent

ImplementsRequest == Promise!RequestSpec
=============================================================================
