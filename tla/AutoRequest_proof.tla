-------------------------- MODULE AutoRequest_proof --------------------------
(***************************************************************************)
(* Proofs about AutoRequest, for any set of workers, any number of shoes   *)
(* and every setting of the switches: a service sends the frame it froze,  *)
(* does not leave the busy flag behind, and - when the HMI waits for the   *)
(* end of a service before it asks again - lowers no request but its own.  *)
(* In the environment of FreshPath: a request is answered with an image of *)
(* the shoe that was under the camera when the request was accepted, or of *)
(* a later one, and the flow implements PathRequest.  What GrabThread      *)
(* promises of the acquisition flag and of frames holds in the flow too.   *)
(***************************************************************************)
EXTENDS AutoRequest, GrabThread_proof

\* The inductive invariant: the type, and one conjunct per property.

\* Between extraction and transmission the path is that of the snapshot or has
\* been emptied by a worker.
PathOfSnapshot == uiPc \in {"check", "go"} => glue \in {snap, 0}

\* The request at hand is this service's own.
ServiceOwnsRequest ==
    PatientHmi /\ InService => pending \notin {"raised", "accepted"}

AutoInv ==
    /\ AutoTypeOK
    /\ BusyNotLeaked
    /\ PathOfSnapshot
    /\ ServiceOwnsRequest

-----------------------------------------------------------------------------
(* Facts about the helpers. *)

LEMMA ClearTypes ==
    ASSUME AutoTypeOK, ClearRequest
    PROVE  /\ create' \in 0 .. 1 /\ lastCreate' \in 0 .. 1 /\ grab' \in 0 .. 1
           /\ waiting' \in BOOLEAN /\ reg139' \in 0 .. 1 /\ reg157' \in 0 .. 1
           /\ pending' \in {pending, "none"} /\ wanted' \in Frames
<1>1. reg139' \in 0 .. 1
  BY DEF ClearRequest, Write139, AutoTypeOK
<1>2. reg157' \in 0 .. 1 /\ pending' \in {pending, "none"} /\ wanted' \in Frames
  BY SceneAssumption DEF AutoTypeOK, ClearRequest, Frames
<1>3. create' \in 0 .. 1 /\ lastCreate' \in 0 .. 1 /\ grab' \in 0 .. 1
  BY DEF ClearRequest, Write139
<1>4. waiting' \in BOOLEAN
  BY DEF ClearRequest, Write139
<1> QED BY <1>1, <1>2, <1>3, <1>4

LEMMA GrabTypes ==
    ASSUME AutoTypeOK, NEW t \in Threads, DoGrab(t)
    PROVE  /\ bGrabThread' \in BOOLEAN /\ phase' \in [Threads -> Phases]
           /\ grab' \in 0 .. 1 /\ reg139' \in 0 .. 1
<1>1. reg139' \in 0 .. 1 /\ grab' \in 0 .. 1
  BY DEF DoGrab, Write139, AutoTypeOK
<1>2. bGrabThread' \in BOOLEAN /\ phase' \in [Threads -> Phases]
  BY DEF DoGrab, SpawnThread, AutoTypeOK, GrabTypeOK, Phases
<1> QED BY <1>1, <1>2

LEMMA StopTypes ==
    ASSUME AutoTypeOK, DoStopGrab
    PROVE  /\ bGrabThread' \in BOOLEAN /\ phase' \in [Threads -> Phases]
           /\ grab' \in 0 .. 1 /\ reg139' \in 0 .. 1
<1>1. reg139' \in 0 .. 1
  BY DEF DoStopGrab, Write139, AutoTypeOK
<1>2. bGrabThread' \in BOOLEAN
  BY DEF DoStopGrab, Write139
<1>3. phase' \in [Threads -> Phases] /\ grab' \in 0 .. 1
  BY DEF DoStopGrab, Write139, AutoTypeOK, GrabTypeOK
<1> QED BY <1>1, <1>2, <1>3

LEMMA AcceptTypes ==
    ASSUME AutoTypeOK, Accept
    PROVE  pending' \in {pending, "accepted"} /\ wanted' \in Frames
BY SceneAssumption DEF AutoTypeOK, GrabTypeOK, Accept, Frames

-----------------------------------------------------------------------------

LEMMA AutoInitInv == AutoInit => AutoInv
<1> SUFFICES ASSUME AutoInit PROVE AutoInv
  OBVIOUS
<1> USE DEF AutoInit
<1>1. GrabTypeOK
  BY GrabInitInv DEF GrabInv
<1>2. 0 \in Frames /\ reg157 \in 0 .. 1
  BY SceneAssumption DEF Frames
<1>3. pending \in {"none", "raised", "accepted", "served"}
  OBVIOUS
<1>4. sent \in [frame : Frames, wanted : Frames]
  BY <1>2
<1>5. AutoTypeOK
  <2>1. /\ reg139 \in 0 .. 1 /\ grab \in 0 .. 1 /\ create \in 0 .. 1
        /\ lastCreate \in 0 .. 1 /\ uiPc \in UiPcs
    BY DEF UiPcs
  <2>2. /\ baseline \in BOOLEAN /\ waiting \in BOOLEAN /\ autoBusy \in BOOLEAN
        /\ syncOn \in BOOLEAN
    OBVIOUS
  <2> QED BY <1>1, <1>2, <1>3, <1>4, <2>1, <2>2 DEF AutoTypeOK
<1>6. BusyNotLeaked /\ PathOfSnapshot /\ ServiceOwnsRequest
  BY DEF BusyNotLeaked, PathOfSnapshot, ServiceOwnsRequest, InService
<1> QED BY <1>5, <1>6 DEF AutoInv

\* Types: the environment, the tick up to the request, the service, the rest.
LEMMA AutoTypeStep == AutoTypeOK /\ [AutoNext]_autoVars => AutoTypeOK'
<1> SUFFICES ASSUME AutoTypeOK, [AutoNext]_autoVars PROVE AutoTypeOK'
  OBVIOUS
<1> USE SwitchAssumption DEF AutoTypeOK, UiPcs
<1>1. CASE Shoe \/ \E t \in Threads : Camera(t)
  <2>1. GrabTypeOK'
    BY <1>1, GrabTypeStep DEF Shoe, Camera, GrabNext
  <2> QED BY <1>1, <2>1 DEF Shoe, Camera, uiVars, history
<1>2. CASE HmiRequest \/ HmiCancel \/ HmiGrab
  <2>1. 0 \in Frames /\ 1 - reg139 \in 0 .. 1
    BY SceneAssumption DEF Frames
  <2> QED BY <1>2, <2>1
    DEF HmiRequest, HmiCancel, HmiGrab, history, grabVars, GrabTypeOK
<1>3. CASE SyncFunction
  <2>1. /\ bGrabThread' \in BOOLEAN /\ phase' \in [Threads -> Phases]
        /\ grab' \in 0 .. 1 /\ reg139' \in 0 .. 1
    BY <1>3, GrabTypes, StopTypes DEF SyncFunction, GrabTypeOK
  <2> QED BY <1>3, <2>1 DEF SyncFunction, history, GrabTypeOK
<1>4. CASE SyncConfig
  <2>1. create' \in 0 .. 1
    BY <1>4 DEF SyncConfig
  <2>2. pending' \in {pending, "accepted"} /\ wanted' \in Frames
    BY <1>4, AcceptTypes DEF SyncConfig
  <2> QED BY <1>4, <2>1, <2>2 DEF SyncConfig, grabVars, GrabTypeOK
<1>5. CASE SyncFunctionFails \/ SyncConfigFails \/ AutoIdle \/ AutoProceed
           \/ AutoNoImage
  BY <1>5 DEF SyncFunctionFails, SyncConfigFails, AutoIdle, AutoProceed, AutoNoImage,
              history, grabVars, GrabTypeOK
<1>6. CASE AutoStart
  <2>1. PICK t \in Threads : DoGrab(t)
    BY <1>6 DEF AutoStart
  <2>2. 0 \in Frames
    BY SceneAssumption DEF Frames
  <2> QED BY <1>6, <2>1, <2>2, GrabTypes DEF AutoStart, history, GrabTypeOK
<1>7. CASE AutoStop
  BY <1>7, StopTypes DEF AutoStop, history, GrabTypeOK
<1>8. CASE AutoGenerate \/ AutoExtracted
  <2>1. 0 \in Frames
    BY SceneAssumption DEF Frames
  <2> QED BY <1>8, <2>1 DEF AutoGenerate, AutoExtracted, history, GrabTypeOK
<1>9. CASE AutoThrow \/ AutoCheck \/ GoFail \/ DismissBox
  BY <1>9 DEF AutoThrow, AutoCheck, GoFail, DismissBox, history, grabVars, GrabTypeOK
<1>10. CASE GoSend \/ AutoClear
  <2>1. ClearRequest
    BY <1>10 DEF GoSend, AutoClear
  <2>2. glue \in Frames
    BY DEF GrabTypeOK
  <2>3. /\ create' \in 0 .. 1 /\ lastCreate' \in 0 .. 1 /\ grab' \in 0 .. 1
        /\ waiting' \in BOOLEAN /\ reg139' \in 0 .. 1 /\ reg157' \in 0 .. 1
        /\ pending' \in {pending, "none"} /\ wanted' \in Frames
    BY <2>1, ClearTypes
  <2>4. sent' \in [frame : Frames, wanted : Frames]
    BY <1>10, <2>2 DEF GoSend, AutoClear
  <2>5. /\ uiPc' \in {"idle", "doneBox"} /\ autoBusy' \in BOOLEAN
        /\ UNCHANGED <<grabVars, baseline, syncOn, snap>>
    BY <1>10 DEF GoSend, AutoClear
  <2> QED BY <2>3, <2>4, <2>5 DEF grabVars, GrabTypeOK
<1>11. CASE KeepAlive
  BY <1>11 DEF KeepAlive, history, grabVars, GrabTypeOK
<1>12. CASE ManualGrab \/ ManualStop
  <2>1. /\ bGrabThread' \in BOOLEAN /\ phase' \in [Threads -> Phases]
        /\ grab' \in 0 .. 1 /\ reg139' \in 0 .. 1
    BY <1>12, GrabTypes, StopTypes DEF ManualGrab, ManualStop
  <2> QED BY <1>12, <2>1 DEF ManualGrab, ManualStop, history, GrabTypeOK
<1>13. CASE UNCHANGED autoVars
  BY <1>13 DEF autoVars, uiVars, history, grabVars, GrabTypeOK
<1> QED
  BY <1>1, <1>2, <1>3, <1>4, <1>5, <1>6, <1>7, <1>8, <1>9, <1>10, <1>11, <1>12, <1>13
  DEF AutoNext, Tick
\* The busy flag is raised by AutoGenerate, at the beginning of a service, and is
\* still up after its end only if an exception has stopped the timer.
LEMMA BusyStep == BusyNotLeaked /\ [AutoNext]_autoVars => BusyNotLeaked'
<1> SUFFICES ASSUME BusyNotLeaked, [AutoNext]_autoVars PROVE BusyNotLeaked'
  OBVIOUS
<1> USE DEF BusyNotLeaked, InService
<1>1. CASE AutoGenerate \/ AutoExtracted
  BY <1>1 DEF AutoGenerate, AutoExtracted
<1>2. CASE AutoThrow \/ AutoClear
  BY <1>2 DEF AutoThrow, AutoClear
<1>3. CASE AutoCheck \/ GoSend \/ GoFail \/ DismissBox
  BY <1>3 DEF AutoCheck, GoSend, GoFail, DismissBox, history
<1>4. CASE SyncFunction \/ SyncFunctionFails \/ SyncConfig \/ SyncConfigFails
  BY <1>4 DEF SyncFunction, SyncFunctionFails, SyncConfig, SyncConfigFails
<1>5. CASE AutoIdle \/ AutoStart \/ AutoProceed \/ AutoNoImage \/ AutoStop
  <2>1. autoBusy' = autoBusy /\ syncOn' = syncOn /\ uiPc \in {"auto", "image"}
    BY <1>5 DEF AutoIdle, AutoStart, AutoProceed, AutoNoImage, AutoStop, AutoActive
  <2>2. ~InService
    BY <2>1
  <2> QED BY <2>1, <2>2
<1>6. CASE HmiRequest \/ HmiCancel \/ HmiGrab \/ KeepAlive \/ ManualGrab \/ ManualStop
  BY <1>6 DEF HmiRequest, HmiCancel, HmiGrab, KeepAlive, ManualGrab, ManualStop
<1>7. CASE Shoe \/ (\E t \in Threads : Camera(t)) \/ UNCHANGED autoVars
  BY <1>7 DEF Shoe, Camera, uiVars, autoVars
<1> QED BY <1>1, <1>2, <1>3, <1>4, <1>5, <1>6, <1>7 DEF AutoNext, Tick

\* The workers can do no more to the path than empty it.
LEMMA CameraOnlyClears ==
    ASSUME NEW t \in Threads, Camera(t)
    PROVE  glue' \in {glue, 0} /\ uiPc' = uiPc /\ snap' = snap
BY DEF Camera, Worker, OpenCamera, ExposeFrame, RetrieveTimeout, BadFrame, GoodFrame,
       Publish, ClearPaths, CloseCamera, ExitThread, uiVars

LEMMA SnapshotStep == PathOfSnapshot /\ [AutoNext]_autoVars => PathOfSnapshot'
<1> SUFFICES ASSUME PathOfSnapshot, [AutoNext]_autoVars PROVE PathOfSnapshot'
  OBVIOUS
<1> USE DEF PathOfSnapshot
<1>1. CASE AutoExtracted \/ AutoCheck
  BY <1>1 DEF AutoExtracted, AutoCheck, grabVars
<1>2. CASE AutoGenerate \/ AutoThrow \/ AutoClear \/ GoSend \/ GoFail \/ DismissBox
  BY <1>2 DEF AutoGenerate, AutoThrow, AutoClear, GoSend, GoFail, DismissBox
<1>3. CASE SyncFunction \/ SyncFunctionFails \/ SyncConfig \/ SyncConfigFails
  BY <1>3 DEF SyncFunction, SyncFunctionFails, SyncConfig, SyncConfigFails
<1>4. CASE AutoIdle \/ AutoStart \/ AutoProceed \/ AutoNoImage \/ AutoStop
  BY <1>4 DEF AutoIdle, AutoStart, AutoProceed, AutoNoImage, AutoStop
<1>5. CASE HmiRequest \/ HmiCancel \/ HmiGrab \/ KeepAlive \/ ManualGrab \/ ManualStop
  BY <1>5 DEF HmiRequest, HmiCancel, HmiGrab, KeepAlive, ManualGrab, ManualStop,
              grabVars
<1>6. ASSUME NEW t \in Threads, Camera(t) PROVE PathOfSnapshot'
  BY <1>6, CameraOnlyClears
<1>7. CASE Shoe \/ UNCHANGED autoVars
  BY <1>7 DEF Shoe, ChangeShoe, uiVars, autoVars, grabVars
<1> QED BY <1>1, <1>2, <1>3, <1>4, <1>5, <1>6, <1>7 DEF AutoNext, Tick

\* A patient HMI raises nothing during a service, and a service has begun with the
\* request in 157, if any, marked as its own.
LEMMA OwnershipStep ==
    ServiceOwnsRequest /\ AutoTypeOK /\ [AutoNext]_autoVars => ServiceOwnsRequest'
<1> SUFFICES ASSUME ServiceOwnsRequest, AutoTypeOK, PatientHmi, [AutoNext]_autoVars,
                    InService'
             PROVE  pending' \notin {"raised", "accepted"}
  BY DEF ServiceOwnsRequest
<1> USE DEF ServiceOwnsRequest, InService
<1>1. CASE AutoGenerate
  BY <1>1 DEF AutoGenerate
<1>2. CASE AutoExtracted \/ AutoThrow \/ AutoCheck \/ GoFail \/ DismissBox
  BY <1>2 DEF AutoExtracted, AutoThrow, AutoCheck, GoFail, DismissBox, history
<1>3. CASE GoSend
  <2>1. pending' \in {pending, "none"}
    BY <1>3, ClearTypes DEF GoSend
  <2> QED BY <1>3, <2>1 DEF GoSend
<1>4. CASE AutoClear \/ SyncFunction \/ SyncFunctionFails \/ SyncConfig
           \/ SyncConfigFails
  BY <1>4 DEF AutoClear, SyncFunction, SyncFunctionFails, SyncConfig, SyncConfigFails
<1>5. CASE AutoIdle \/ AutoStart \/ AutoProceed \/ AutoNoImage \/ AutoStop
  BY <1>5 DEF AutoIdle, AutoStart, AutoProceed, AutoNoImage, AutoStop
<1>6. CASE HmiRequest \/ HmiCancel \/ HmiGrab
  BY <1>6 DEF HmiRequest, HmiCancel, HmiGrab, history
<1>7. CASE KeepAlive \/ ManualGrab \/ ManualStop
  BY <1>7 DEF KeepAlive, ManualGrab, ManualStop, history
<1>8. CASE Shoe \/ (\E t \in Threads : Camera(t)) \/ UNCHANGED autoVars
  BY <1>8 DEF Shoe, Camera, uiVars, history, autoVars
<1> QED BY <1>1, <1>2, <1>3, <1>4, <1>5, <1>6, <1>7, <1>8 DEF AutoNext, Tick

LEMMA AutoNextInv == AutoInv /\ [AutoNext]_autoVars => AutoInv'
BY AutoTypeStep, BusyStep, SnapshotStep, OwnershipStep DEF AutoInv

THEOREM AutoInvariance == AutoSpec => []AutoInv
BY AutoInitInv, AutoNextInv, PTL DEF AutoSpec

-----------------------------------------------------------------------------

\* In every environment every variable has its type.
THEOREM AutoTyped == AutoSpec => []AutoTypeOK
BY AutoInvariance, PTL DEF AutoInv

\* In every environment no service leaves the flag set that would block all later
\* requests.
THEOREM BusySafety == AutoSpec => []BusyNotLeaked
BY AutoInvariance, PTL DEF AutoInv

\* What GO sends within a service was extracted from the snapshot of that service.
THEOREM OneFrameSent == AutoSpec => OneFrame
<1>1. AutoInv /\ [AutoNext]_autoVars
        => [uiPc = "go" /\ uiPc' = "doneBox" => sent'.frame = snap]_autoVars
  <2> SUFFICES ASSUME AutoInv, AutoNext, uiPc = "go", uiPc' = "doneBox"
               PROVE  sent'.frame = snap
    OBVIOUS
  <2>1. GoSend
    BY DEF AutoNext, Tick, Shoe, Camera, uiVars, HmiRequest, HmiCancel, HmiGrab,
           SyncFunction, SyncFunctionFails, SyncConfig, SyncConfigFails, AutoIdle,
           AutoStart, AutoProceed, AutoNoImage, AutoStop, AutoGenerate, AutoExtracted,
           AutoThrow, AutoCheck, GoFail, DismissBox, AutoClear, KeepAlive, ManualGrab,
           ManualStop
  <2>2. glue = snap /\ sent'.frame = glue
    BY <2>1 DEF GoSend, AutoInv, PathOfSnapshot
  <2> QED BY <2>2
<1> QED BY <1>1, AutoInvariance, PTL DEF AutoSpec, OneFrame

\* If the HMI waits for the end of a service before it raises 157 again, the program
\* lowers no request that it has not begun to serve, whatever fails.
THEOREM PatientRequestKept == PatientHmi => (AutoSpec => RequestNotDropped)
<1> SUFFICES ASSUME PatientHmi PROVE AutoSpec => RequestNotDropped
  OBVIOUS
<1>1. AutoInv /\ [AutoNext]_autoVars
        => [(/\ pending \in {"raised", "accepted"}
             /\ pending' = "none") => HmiCancel]_autoVars
  <2> SUFFICES ASSUME AutoInv, AutoNext, pending \in {"raised", "accepted"},
                      pending' = "none"
               PROVE  HmiCancel
    OBVIOUS
  <2>1. ~InService
    BY DEF AutoInv, ServiceOwnsRequest
  <2>2. ~GoSend /\ ~AutoClear
    BY <2>1 DEF InService, GoSend, AutoClear
  <2>3. ~SyncConfig
    BY DEF SyncConfig, Accept
  <2> QED
    BY <2>2, <2>3
    DEF AutoNext, Tick, Shoe, Camera, history, HmiRequest, HmiGrab, SyncFunction,
        SyncFunctionFails, SyncConfigFails, AutoIdle, AutoStart, AutoProceed,
        AutoNoImage, AutoStop, AutoGenerate, AutoExtracted, AutoThrow, AutoCheck,
        GoFail, DismissBox, KeepAlive, ManualGrab, ManualStop
<1> QED BY <1>1, AutoInvariance, PTL DEF AutoSpec, RequestNotDropped

-----------------------------------------------------------------------------
(* Fresh images. *)

\* The environment FreshPath is about: requests are not withdrawn, the link works,
\* 139 is left to the program, and a stopped worker ends before the next handler.
FreshEnvironment == PromptCamera /\ ~LinkFaults /\ ~HmiMayCancel /\ ~HmiMayGrab

NoneAlive == \A t \in Threads : ~Alive(t)

\* One worker at a time, and none left over once a tick has begun.
OneWorker ==
    /\ \A t, u \in Threads : Alive(t) /\ Alive(u) => t = u
    /\ uiPc # "idle" => bGrabThread \/ NoneAlive

\* Register 139 is as the program left it; nothing is grabbed during a service.
GrabAgrees ==
    /\ reg139 = grab
    /\ bGrabThread => reg139 = 1
    /\ InService => ~bGrabThread
    /\ ~syncOn => uiPc = "idle"

\* The copies of 157 follow the register, and a request that has been accepted is
\* known to the handler that serves it.
RequestAgrees ==
    /\ create = 1 => reg157 = 1
    /\ lastCreate = 1 => create = 1
    /\ pending = "none" <=> reg157 = 0
    /\ pending = "accepted" => create = 1 /\ ~InService
    /\ pending = "served" /\ syncOn => InService
    /\ uiPc \in {"extract", "check", "go"} => pending = "served"
    /\ waiting => pending = "accepted"
    /\ uiPc \in {"auto", "image"} /\ create = 1 => pending = "accepted"
    /\ uiPc = "image" => create = 1
    /\ pending \in {"none", "raised"} => wanted = 0

\* From its acceptance on, a request finds no image of an earlier shoe: first
\* nothing is grabbed, then the image is empty or as new as the request.
FreshWaiting ==
    /\ wanted <= scene
    /\ wanted # 0 /\ pending = "accepted" =>
          \/ uiPc = "auto" /\ ~waiting /\ ~bGrabThread
          \/ /\ waiting
             /\ mat = 0 \/ mat >= wanted
             /\ \A t \in Threads : phase[t] \in {"check", "publish"} => held[t] >= wanted
    /\ InService => snap >= wanted

FreshInv ==
    /\ OneWorker
    /\ GrabAgrees
    /\ RequestAgrees
    /\ FreshWaiting
    /\ FreshPath

-----------------------------------------------------------------------------

LEMMA FreshInit == FreshEnvironment /\ AutoInit => FreshInv
<1> SUFFICES ASSUME FreshEnvironment, AutoInit PROVE FreshInv
  OBVIOUS
<1> USE DEF AutoInit
<1>1. reg157 = create /\ create \in 0 .. 1 /\ lastCreate = create
  BY DEF FreshEnvironment
<1>2. PICK t \in Threads :
          phase = [u \in Threads |-> IF u = t THEN "open" ELSE "off"]
  BY DEF GrabInit
<1>3. OneWorker
  BY <1>2 DEF OneWorker, Alive
<1>4. GrabAgrees
  BY DEF GrabAgrees, InService
<1>5. RequestAgrees
  BY <1>1 DEF RequestAgrees, InService
<1>6. FreshWaiting /\ FreshPath
  BY DEF FreshWaiting, FreshPath, InService, GrabInit
<1> QED BY <1>3, <1>4, <1>5, <1>6 DEF FreshInv

-----------------------------------------------------------------------------
(* What the operations on acquisition do to the workers. *)

\* A worker is alive until it leaves, and leaving is what lowers the flag.
LEMMA CameraWorkers ==
    ASSUME AutoTypeOK, NEW t \in Threads, Camera(t)
    PROVE  /\ Alive(t)
           /\ \A u \in Threads : u # t => phase'[u] = phase[u]
           /\ bGrabThread' = bGrabThread \/ (~bGrabThread' /\ ~Alive(t)')
           /\ UNCHANGED <<uiVars, history, scene>>
<1> USE DEF AutoTypeOK, GrabTypeOK, Camera, Alive
<1>1. CASE ExitThread(t)
  BY <1>1 DEF ExitThread, Goto
<1>2. CASE OpenCamera(t)
  BY <1>2 DEF OpenCamera, Goto
<1>3. CASE ExposeFrame(t) \/ RetrieveTimeout(t) \/ BadFrame(t)
  BY <1>3 DEF ExposeFrame, RetrieveTimeout, BadFrame, Goto
<1>4. CASE GoodFrame(t) \/ Publish(t)
  BY <1>4 DEF GoodFrame, Publish, Goto
<1>5. CASE ClearPaths(t) \/ CloseCamera(t)
  BY <1>5 DEF ClearPaths, CloseCamera, Goto
<1> QED BY <1>1, <1>2, <1>3, <1>4, <1>5 DEF Worker

\* The image and the frames in hand: exposed now, passed on, or left alone.
LEMMA CameraFrames ==
    ASSUME AutoTypeOK, NEW t \in Threads, Camera(t)
    PROVE  /\ mat' = mat \/ (phase[t] = "publish" /\ mat' = held[t])
           /\ \A u \in Threads :
                 phase'[u] \in {"check", "publish"} =>
                    \/ held'[u] = scene
                    \/ phase[u] \in {"check", "publish"} /\ held'[u] = held[u]
<1> USE DEF AutoTypeOK, GrabTypeOK, Camera
<1>1. CASE ExposeFrame(t)
  BY <1>1 DEF ExposeFrame, Goto
<1>2. CASE OpenCamera(t)
  BY <1>2 DEF OpenCamera, Goto
<1>3. CASE ExitThread(t) \/ RetrieveTimeout(t) \/ BadFrame(t)
  BY <1>3 DEF ExitThread, RetrieveTimeout, BadFrame, Goto
<1>4. CASE GoodFrame(t) \/ Publish(t)
  BY <1>4 DEF GoodFrame, Publish, Goto
<1>5. CASE ClearPaths(t) \/ CloseCamera(t)
  BY <1>5 DEF ClearPaths, CloseCamera, Goto
<1> QED BY <1>1, <1>2, <1>3, <1>4, <1>5 DEF Worker

\* Grab adds one worker in phase "open".
LEMMA GrabWorkers ==
    ASSUME AutoTypeOK, NEW t \in Threads, DoGrab(t)
    PROVE  /\ ~bGrabThread /\ bGrabThread'
           /\ \A u \in Threads : u # t => phase'[u] = phase[u]
           /\ phase'[t] = "open"
BY DEF AutoTypeOK, GrabTypeOK, DoGrab, SpawnThread

\* Register 139 follows when the link works.
LEMMA LinkedWrites ==
    ASSUME FreshEnvironment
    PROVE  /\ \A t \in Threads : DoGrab(t) => reg139' = 1 /\ grab' = 1
           /\ DoStopGrab => reg139' = 0 /\ grab' = 0 /\ ~bGrabThread' /\ phase' = phase
           /\ ClearRequest => /\ reg139' = 0 /\ grab' = 0 /\ reg157' = 0
                              /\ create' = 0 /\ lastCreate' = 0 /\ ~waiting'
                              /\ pending' = "none" /\ wanted' = 0
BY DEF FreshEnvironment, DoGrab, DoStopGrab, ClearRequest, Write139

\* The first block never stops acquisition: 139 is lowered only by the program.
LEMMA NoRemoteStop ==
    ASSUME FreshEnvironment, AutoTypeOK, GrabAgrees, SyncFunction
    PROVE  /\ syncOn /\ uiPc = "idle" /\ WorkersSettled /\ uiPc' = "config"
           /\ \/ \E t \in Threads : DoGrab(t)
              \/ grab' = reg139 /\ UNCHANGED <<bGrabThread, phase, reg139>>
           /\ UNCHANGED <<scene, held, mat, glue, reg157, create, lastCreate, waiting,
                          autoBusy, syncOn, snap, history>>
BY DEF SyncFunction, GrabAgrees, AutoTypeOK, GrabTypeOK

-----------------------------------------------------------------------------
(* The steps. *)

\* The steps that leave acquisition and its register alone.
Aside ==
    \/ HmiRequest \/ SyncConfig \/ AutoIdle \/ AutoProceed \/ AutoNoImage
    \/ AutoGenerate \/ AutoExtracted \/ AutoThrow \/ AutoCheck \/ GoFail \/ DismissBox
    \/ KeepAlive

LEMMA AsideFrame ==
    Aside => UNCHANGED <<scene, bGrabThread, phase, held, mat, reg139, grab>>
BY DEF Aside, HmiRequest, SyncConfig, AutoIdle, AutoProceed, AutoNoImage, AutoGenerate,
       AutoExtracted, AutoThrow, AutoCheck, GoFail, DismissBox, KeepAlive, grabVars

\* With the environment's promises, these are the steps.
LEMMA FreshSteps ==
    ASSUME FreshEnvironment, AutoNext
    PROVE  \/ Shoe \/ (\E t \in Threads : Camera(t))
           \/ SyncFunction \/ AutoStart \/ AutoStop
           \/ Aside \/ GoSend \/ AutoClear \/ ManualGrab \/ ManualStop
BY DEF FreshEnvironment, AutoNext, Tick, Aside, HmiCancel, HmiGrab, SyncFunctionFails,
       SyncConfigFails

\* A tick leaves "idle" only through its first block.
LEMMA AsideIdle == Aside /\ uiPc = "idle" => uiPc' = "idle"
BY DEF Aside, HmiRequest, SyncConfig, AutoIdle, AutoProceed, AutoNoImage, AutoGenerate,
       AutoExtracted, AutoThrow, AutoCheck, GoFail, DismissBox, KeepAlive, AutoActive

LEMMA OneWorkerStep ==
    ASSUME FreshEnvironment, AutoTypeOK, GrabAgrees, OneWorker, [AutoNext]_autoVars
    PROVE  OneWorker'
<1> USE DEF OneWorker, NoneAlive, Alive
<1>1. ASSUME NEW t \in Threads, Camera(t) PROVE OneWorker'
  BY <1>1, CameraWorkers DEF uiVars
<1>2. CASE SyncFunction
  <2>1. bGrabThread \/ NoneAlive
    BY <1>2, NoRemoteStop DEF WorkersSettled, FreshEnvironment
  <2>2. CASE \E t \in Threads : DoGrab(t)
    BY <2>1, <2>2, GrabWorkers
  <2>3. CASE UNCHANGED <<bGrabThread, phase, reg139>>
    BY <2>1, <2>3
  <2> QED BY <1>2, <2>2, <2>3, NoRemoteStop
<1>3. CASE AutoStart
  <2>1. PICK t \in Threads : DoGrab(t)
    BY <1>3 DEF AutoStart
  <2>2. NoneAlive
    BY <1>3, <2>1, GrabWorkers DEF AutoStart, AutoActive
  <2> QED BY <2>1, <2>2, GrabWorkers
<1>4. CASE ManualGrab
  <2>1. PICK t \in Threads : DoGrab(t)
    BY <1>4 DEF ManualGrab
  <2>2. NoneAlive
    BY <1>4, <2>1, GrabWorkers DEF ManualGrab, WorkersSettled, FreshEnvironment
  <2> QED BY <2>1, <2>2, GrabWorkers
<1>5. CASE AutoStop \/ ManualStop
  BY <1>5, LinkedWrites DEF AutoStop, ManualStop
<1>6. CASE Aside
  BY <1>6, AsideFrame, AsideIdle
<1>7. CASE GoSend \/ AutoClear
  BY <1>7 DEF GoSend, AutoClear, grabVars
<1>8. CASE Shoe \/ UNCHANGED autoVars
  BY <1>8 DEF Shoe, ChangeShoe, uiVars, autoVars, grabVars
<1> QED BY <1>1, <1>2, <1>3, <1>4, <1>5, <1>6, <1>7, <1>8, FreshSteps

LEMMA GrabAgreesStep ==
    ASSUME FreshEnvironment, AutoTypeOK, GrabAgrees, [AutoNext]_autoVars
    PROVE  GrabAgrees'
<1> USE DEF GrabAgrees, InService
<1>1. ASSUME NEW t \in Threads, Camera(t) PROVE GrabAgrees'
  BY <1>1, CameraWorkers DEF uiVars, AutoTypeOK, GrabTypeOK
<1>2. CASE SyncFunction
  <2>1. CASE \E t \in Threads : DoGrab(t)
    BY <1>2, <2>1, LinkedWrites, NoRemoteStop
  <2>2. CASE grab' = reg139 /\ UNCHANGED <<bGrabThread, phase, reg139>>
    BY <1>2, <2>2, NoRemoteStop
  <2> QED BY <1>2, <2>1, <2>2, NoRemoteStop
<1>3. CASE AutoStart \/ ManualGrab
  <2>1. PICK t \in Threads : DoGrab(t)
    BY <1>3 DEF AutoStart, ManualGrab
  <2> QED BY <1>3, <2>1, LinkedWrites DEF AutoStart, ManualGrab
<1>4. CASE AutoStop \/ ManualStop
  BY <1>4, LinkedWrites DEF AutoStop, ManualStop
<1>5. CASE HmiRequest \/ SyncConfig \/ AutoIdle \/ AutoProceed \/ AutoNoImage
  BY <1>5 DEF HmiRequest, SyncConfig, AutoIdle, AutoProceed, AutoNoImage, grabVars,
              AutoActive
<1>6. CASE AutoGenerate \/ AutoExtracted \/ AutoThrow
  BY <1>6 DEF AutoGenerate, AutoExtracted, AutoThrow, grabVars
<1>7. CASE AutoCheck \/ GoFail \/ DismissBox \/ KeepAlive
  BY <1>7 DEF AutoCheck, GoFail, DismissBox, KeepAlive, grabVars
<1>8. CASE GoSend \/ AutoClear
  BY <1>8, LinkedWrites DEF GoSend, AutoClear, grabVars
<1>9. CASE Shoe \/ UNCHANGED autoVars
  BY <1>9 DEF Shoe, ChangeShoe, uiVars, autoVars, grabVars
<1> QED
  BY <1>1, <1>2, <1>3, <1>4, <1>5, <1>6, <1>7, <1>8, <1>9, FreshSteps DEF Aside

LEMMA RequestAgreesStep ==
    ASSUME FreshEnvironment, AutoInv, GrabAgrees, RequestAgrees, [AutoNext]_autoVars
    PROVE  RequestAgrees'
<1> USE DEF RequestAgrees, InService
<1>t. /\ create \in 0 .. 1 /\ lastCreate \in 0 .. 1 /\ reg157 \in 0 .. 1
      /\ pending \in {"none", "raised", "accepted", "served"}
      /\ ~syncOn => uiPc = "idle"
  BY DEF AutoInv, AutoTypeOK, GrabAgrees
<1>1. ASSUME NEW t \in Threads, Camera(t) PROVE RequestAgrees'
  BY <1>1, CameraWorkers DEF uiVars, history, AutoInv
<1>2. CASE SyncFunction
  BY <1>2, NoRemoteStop DEF history, AutoInv
<1>3. CASE AutoStart \/ AutoStop \/ AutoIdle \/ AutoProceed \/ AutoNoImage
  BY <1>3, <1>t DEF AutoStart, AutoStop, AutoIdle, AutoProceed, AutoNoImage, AutoActive,
                    history
<1>4. CASE ManualGrab \/ ManualStop
  BY <1>4 DEF ManualGrab, ManualStop, history
<1>5. CASE HmiRequest
  BY <1>5, <1>t DEF HmiRequest
<1>6. CASE SyncConfig
  BY <1>6, <1>t DEF SyncConfig, Accept
<1>7. CASE AutoGenerate \/ AutoExtracted \/ AutoThrow
  BY <1>7, <1>t DEF AutoGenerate, AutoExtracted, AutoThrow, history
<1>8. CASE AutoCheck \/ GoFail \/ DismissBox
  BY <1>8, <1>t DEF AutoCheck, GoFail, DismissBox, history
<1>9. CASE KeepAlive
  BY <1>9, <1>t DEF KeepAlive, history
<1>10. CASE GoSend \/ AutoClear
  BY <1>10, LinkedWrites DEF GoSend, AutoClear
<1>11. CASE Shoe \/ UNCHANGED autoVars
  BY <1>11 DEF Shoe, uiVars, history, autoVars
<1> QED
  BY <1>1, <1>2, <1>3, <1>4, <1>5, <1>6, <1>7, <1>8, <1>9, <1>10, <1>11, FreshSteps
  DEF Aside

LEMMA FreshWaitingStep ==
    ASSUME FreshEnvironment, AutoInv, OneWorker, GrabAgrees, RequestAgrees, FreshWaiting,
           [AutoNext]_autoVars
    PROVE  FreshWaiting'
<1> USE DEF FreshWaiting, InService
<1>t. /\ AutoTypeOK /\ scene \in Nat /\ wanted \in Nat /\ mat \in Nat /\ snap \in Nat
      /\ held \in [Threads -> Nat] /\ phase \in [Threads -> Phases]
  BY DEF AutoInv, AutoTypeOK, GrabTypeOK, Frames
<1>s. /\ uiPc = "auto" /\ pending = "accepted" => create = 1 /\ ~autoBusy
      /\ pending = "accepted" => uiPc \notin {"extract", "check", "go", "doneBox",
                                              "clear"}
  BY DEF AutoInv, BusyNotLeaked, GrabAgrees, RequestAgrees
<1>1. ASSUME NEW t \in Threads, Camera(t) PROVE FreshWaiting'
  <2>1. UNCHANGED <<uiVars, history, scene>> /\ Alive(t)
    BY <1>1, <1>t, CameraWorkers
  <2>2. CASE uiPc = "auto" /\ ~waiting /\ ~bGrabThread
    BY <2>1, <2>2 DEF OneWorker, NoneAlive
  <2>3. CASE /\ waiting
             /\ mat = 0 \/ mat >= wanted
             /\ \A u \in Threads : phase[u] \in {"check", "publish"} => held[u] >= wanted
    BY <1>1, <1>t, <2>1, <2>3, CameraFrames DEF uiVars, history
  <2>4. CASE ~(wanted # 0 /\ pending = "accepted")
    BY <2>1, <2>4 DEF uiVars, history
  <2> QED BY <2>2, <2>3, <2>4
<1>2. CASE Shoe
  BY <1>2, <1>t DEF Shoe, ChangeShoe, uiVars, history
<1>3. CASE SyncFunction
  <2>1. /\ UNCHANGED <<scene, held, mat, waiting, snap, wanted, pending>>
        /\ uiPc = "idle" /\ uiPc' = "config"
    BY <1>3, <1>t, NoRemoteStop DEF history
  <2>2. \A u \in Threads : phase'[u] \in {"check", "publish"} => phase'[u] = phase[u]
    <3>1. CASE \E t \in Threads : DoGrab(t)
      BY <1>t, <3>1, GrabWorkers
    <3> QED BY <1>3, <1>t, <3>1, NoRemoteStop
  <2> QED BY <2>1, <2>2
<1>4. CASE SyncConfig
  <2>1. /\ UNCHANGED <<scene, bGrabThread, phase, held, mat, waiting, snap>>
        /\ uiPc = "config" /\ uiPc' = "auto" /\ Accept
    BY <1>4 DEF SyncConfig, grabVars
  <2>2. pending = "raised" => ~waiting
    BY DEF RequestAgrees
  <2>3. CASE wanted' = wanted /\ pending' = pending
    BY <2>1, <2>3
  <2>4. CASE pending = "raised" /\ wanted' = IF bGrabThread THEN 0 ELSE scene
    BY <1>t, <2>1, <2>2, <2>4 DEF AutoTypeOK
  <2> QED BY <2>1, <2>3, <2>4 DEF Accept
<1>5. CASE AutoStart
  <2>1. PICK t \in Threads : DoGrab(t)
    BY <1>5 DEF AutoStart
  <2>2. \A u \in Threads : phase'[u] \notin {"check", "publish"}
    BY <1>5, <1>t, <2>1, GrabWorkers
    DEF AutoStart, AutoActive, OneWorker, NoneAlive, Alive
  <2> QED BY <1>5, <2>2 DEF AutoStart, history
<1>6. CASE AutoStop
  BY <1>6, LinkedWrites DEF AutoStop, history
<1>7. CASE AutoIdle \/ AutoProceed \/ AutoNoImage
  BY <1>7, <1>s DEF AutoIdle, AutoProceed, AutoNoImage, AutoActive, grabVars, history
<1>8. CASE AutoGenerate
  BY <1>8, <1>t DEF AutoGenerate, RequestAgrees
<1>9. CASE AutoExtracted \/ AutoThrow
  BY <1>9, <1>s DEF AutoExtracted, AutoThrow, grabVars, history
<1>10. CASE AutoCheck \/ GoFail \/ DismissBox
  BY <1>10, <1>s DEF AutoCheck, GoFail, DismissBox, grabVars, history
<1>11. CASE HmiRequest \/ KeepAlive
  BY <1>11, <1>s DEF HmiRequest, KeepAlive, grabVars, history
<1>12. CASE GoSend \/ AutoClear
  BY <1>12, <1>t, LinkedWrites DEF GoSend, AutoClear, grabVars
<1>13. CASE ManualGrab
  <2>1. PICK t \in Threads : DoGrab(t)
    BY <1>13 DEF ManualGrab
  <2>2. \A u \in Threads : phase'[u] \in {"check", "publish"} => phase'[u] = phase[u]
    BY <1>t, <2>1, GrabWorkers
  <2> QED BY <1>13, <2>2 DEF ManualGrab, history
<1>14. CASE ManualStop
  BY <1>14, LinkedWrites DEF ManualStop, history
<1>15. CASE UNCHANGED autoVars
  BY <1>15 DEF autoVars, uiVars, history, grabVars
<1> QED
  BY <1>1, <1>2, <1>3, <1>4, <1>5, <1>6, <1>7, <1>8, <1>9, <1>10, <1>11, <1>12, <1>13,
     <1>14, <1>15, FreshSteps DEF Aside

\* GO sends the snapshot, which is as new as the request.
LEMMA FreshPathStep ==
    ASSUME AutoInv, FreshWaiting, FreshPath, [AutoNext]_autoVars
    PROVE  FreshPath'
<1>1. CASE GoSend
  BY <1>1 DEF GoSend, AutoInv, PathOfSnapshot, FreshWaiting, InService, FreshPath
<1>2. CASE sent' = sent
  BY <1>2 DEF FreshPath
<1>3. GoSend \/ sent' = sent
  BY DEF AutoNext, Tick, Shoe, Camera, history, autoVars, HmiRequest, HmiCancel, HmiGrab,
         SyncFunction, SyncFunctionFails, SyncConfig, SyncConfigFails, AutoIdle,
         AutoStart, AutoProceed, AutoNoImage, AutoStop, AutoGenerate, AutoExtracted,
         AutoThrow, AutoCheck, GoFail, DismissBox, AutoClear, KeepAlive, ManualGrab,
         ManualStop
<1> QED BY <1>1, <1>2, <1>3

LEMMA FreshNext ==
    FreshEnvironment /\ AutoInv /\ FreshInv /\ [AutoNext]_autoVars => FreshInv'
BY OneWorkerStep, GrabAgreesStep, RequestAgreesStep, FreshWaitingStep, FreshPathStep
DEF FreshInv, AutoInv

-----------------------------------------------------------------------------

\* When requests are not withdrawn, the link works, 139 is the program's own and a
\* stopped worker has ended before the next handler, the path sent for a request is
\* never that of an earlier shoe than the one the request found, however cameras and
\* the extraction fail and whatever buttons the operator presses.
THEOREM FreshPathSent == FreshEnvironment => (AutoSpec => []FreshPath)
<1> SUFFICES ASSUME FreshEnvironment PROVE AutoSpec => []FreshPath
  OBVIOUS
<1>1. AutoInit => FreshInv
  BY FreshInit
<1>2. AutoInv /\ FreshInv /\ [AutoNext]_autoVars => FreshInv'
  BY FreshNext
<1>3. FreshInv => FreshPath
  BY DEF FreshInv
<1> QED BY <1>1, <1>2, <1>3, AutoInvariance, PTL DEF AutoSpec

-----------------------------------------------------------------------------
(* Acquisition inside the flow.  The tick presses Grab and Stop itself and      *)
(* releases the image; what GrabThread_proof shows of the buttons stays true.   *)

\* What a step of the flow is to the workers and the image.
LEMMA FlowAcquisition ==
    ASSUME AutoTypeOK, [AutoNext]_autoVars
    PROVE  \/ GrabNext
           \/ /\ \E t \in Threads : SpawnThread(t)
              /\ UNCHANGED <<scene, held>> /\ mat' \in {mat, 0}
           \/ ~bGrabThread' /\ UNCHANGED <<scene, phase, held, mat>>
           \/ UNCHANGED <<scene, bGrabThread, phase, held, mat>>
<1>1. CASE Shoe \/ \E t \in Threads : Camera(t)
  BY <1>1 DEF Shoe, Camera, GrabNext
<1>2. CASE SyncFunction
  BY <1>2 DEF SyncFunction, DoGrab, DoStopGrab
<1>3. CASE AutoStart \/ ManualGrab
  BY <1>3 DEF AutoStart, ManualGrab, DoGrab
<1>4. CASE AutoStop \/ ManualStop
  BY <1>4 DEF AutoStop, ManualStop, DoStopGrab
<1>5. CASE HmiRequest \/ HmiCancel \/ HmiGrab \/ SyncFunctionFails \/ KeepAlive
  BY <1>5 DEF HmiRequest, HmiCancel, HmiGrab, SyncFunctionFails, KeepAlive, grabVars
<1>6. CASE SyncConfig \/ SyncConfigFails \/ AutoIdle \/ AutoProceed \/ AutoNoImage
  BY <1>6 DEF SyncConfig, SyncConfigFails, AutoIdle, AutoProceed, AutoNoImage, grabVars
<1>7. CASE AutoGenerate \/ AutoExtracted \/ AutoThrow \/ AutoCheck
  BY <1>7 DEF AutoGenerate, AutoExtracted, AutoThrow, AutoCheck, grabVars
<1>8. CASE GoSend \/ GoFail \/ DismissBox \/ AutoClear
  BY <1>8 DEF GoSend, GoFail, DismissBox, AutoClear, grabVars
<1>9. CASE UNCHANGED autoVars
  BY <1>9 DEF autoVars, grabVars
<1> QED
  BY <1>1, <1>2, <1>3, <1>4, <1>5, <1>6, <1>7, <1>8, <1>9 DEF AutoNext, Tick

\* No frame is of a shoe that has not been there yet, the snapshot included.
FlowInv == AutoInv /\ GrabInv /\ snap <= scene

LEMMA FlowGrabStep == AutoTypeOK /\ AutoTypeOK' /\ GrabInv /\ [AutoNext]_autoVars => GrabInv'
<1> SUFFICES ASSUME AutoTypeOK, AutoTypeOK', GrabInv, [AutoNext]_autoVars PROVE GrabInv'
  OBVIOUS
<1> USE DEF GrabInv, GrabFlagHasThread, Alive, OneCamera, FramesBehindScene, CameraPhases
<1>t. /\ phase \in [Threads -> Phases] /\ held \in [Threads -> Nat] /\ mat \in Nat
      /\ scene \in Nat /\ GrabTypeOK'
  BY SceneAssumption DEF AutoTypeOK, GrabTypeOK, Frames
<1>1. CASE GrabNext
  BY <1>1, GrabNextInv
<1>2. ASSUME NEW t \in Threads, SpawnThread(t), UNCHANGED <<scene, held>>, mat' \in {mat, 0}
      PROVE  GrabInv'
  <2>1. /\ phase'[t] = "open" /\ phase[t] = "off"
        /\ \A u \in Threads : u # t => phase'[u] = phase[u]
    BY <1>t, <1>2 DEF SpawnThread
  <2>2. GrabFlagHasThread'
    BY <2>1
  <2>3. OneCamera'
    BY <2>1
  <2>4. FramesBehindScene'
    BY <1>t, <1>2, <2>1
  <2> QED BY <1>t, <2>2, <2>3, <2>4
<1>3. CASE ~bGrabThread' /\ UNCHANGED <<scene, phase, held, mat>>
  BY <1>t, <1>3
<1>4. CASE UNCHANGED <<scene, bGrabThread, phase, held, mat>>
  BY <1>t, <1>4
<1> QED BY <1>1, <1>2, <1>3, <1>4, FlowAcquisition

LEMMA SnapStep == AutoTypeOK /\ GrabInv /\ snap <= scene /\ [AutoNext]_autoVars => (snap <= scene)'
<1> SUFFICES ASSUME AutoTypeOK, GrabInv, snap <= scene, [AutoNext]_autoVars
             PROVE  snap' <= scene'
  OBVIOUS
<1>t. scene \in Nat /\ snap \in Nat /\ mat \in Nat /\ mat <= scene
  BY SceneAssumption DEF AutoTypeOK, GrabTypeOK, GrabInv, FramesBehindScene, Frames
<1>1. scene' \in Nat /\ scene' >= scene
  <2>1. CASE GrabNext
    BY <1>t, <2>1 DEF GrabNext, ChangeShoe, StartGrab, StopGrab, Worker, OpenCamera,
          ExposeFrame, RetrieveTimeout, BadFrame, GoodFrame, Publish, ClearPaths,
          CloseCamera, ExitThread
  <2>2. CASE scene' = scene
    BY <1>t, <2>2
  <2> QED BY <2>1, <2>2, FlowAcquisition
<1>2. snap' \in {snap, mat}
  BY DEF AutoNext, Tick, Shoe, Camera, uiVars, autoVars, HmiRequest, HmiCancel, HmiGrab,
         SyncFunction, SyncFunctionFails, SyncConfig, SyncConfigFails, AutoIdle,
         AutoStart, AutoProceed, AutoNoImage, AutoStop, AutoGenerate, AutoExtracted,
         AutoThrow, AutoCheck, GoSend, GoFail, DismissBox, AutoClear, KeepAlive,
         ManualGrab, ManualStop
<1> QED BY <1>t, <1>1, <1>2

LEMMA FlowInvariance == AutoSpec => []FlowInv
<1>1. AutoInit => GrabInv /\ snap <= scene
  BY GrabInitInv DEF AutoInit, GrabInit
<1>2. AutoInv /\ AutoInv' /\ (GrabInv /\ snap <= scene) /\ [AutoNext]_autoVars
          => GrabInv' /\ (snap <= scene)'
  BY FlowGrabStep, SnapStep DEF AutoInv
<1> QED BY <1>1, <1>2, AutoInvariance, PTL DEF AutoSpec, FlowInv

\* Whatever the tick, the buttons and register 139 do to acquisition, the flag has a
\* worker behind it: the early return of OnBnClickedWorkGrab never leaves the automatic
\* flow waiting for images that nobody takes.
THEOREM FlowFlagSafety == AutoSpec => []GrabFlagHasThread
BY FlowInvariance, PTL DEF FlowInv, GrabInv

\* A new image is never older than the one it replaces, although acquisition is stopped
\* and started by requests while old workers are still running; only the tick empties it.
THEOREM FlowFrameOrder == AutoSpec => [][mat' # mat => mat' >= mat \/ mat' = 0]_autoVars
<1>1. FlowInv /\ [AutoNext]_autoVars => [mat' # mat => mat' >= mat \/ mat' = 0]_autoVars
  <2> SUFFICES ASSUME FlowInv, [AutoNext]_autoVars, mat' # mat, mat' # 0 PROVE mat' >= mat
    OBVIOUS
  <2>1. GrabNext
    BY FlowAcquisition DEF FlowInv, AutoInv
  <2>2. PICK t \in Threads : Publish(t)
    BY <2>1 DEF GrabNext, ChangeShoe, StopGrab, StartGrab, Worker, OpenCamera,
          ExposeFrame, RetrieveTimeout, BadFrame, GoodFrame, ClearPaths, CloseCamera,
          ExitThread
  <2>3. mat \in Nat /\ held[t] \in Nat
    BY SceneAssumption DEF FlowInv, GrabInv, GrabTypeOK, Frames
  <2> QED BY <2>2, <2>3 DEF Publish, FlowInv, GrabInv, FramesBehindScene
<1> QED BY <1>1, FlowInvariance, PTL DEF AutoSpec

-----------------------------------------------------------------------------
(* The promise to the HMI. *)

LEMMA PromiseInit == FreshEnvironment /\ AutoInit => Promise!RequestInit
BY DEF AutoInit, GrabInit, Promise!RequestInit

\* Under the invariants every step of the flow is one of the promise, or none.
LEMMA PromiseStep ==
    FreshEnvironment /\ FlowInv /\ FreshInv /\ [AutoNext]_autoVars
        => [Promise!RequestNext]_Promise!requestVars
<1> SUFFICES ASSUME FreshEnvironment, FlowInv, FreshInv, [AutoNext]_autoVars
             PROVE  [Promise!RequestNext]_Promise!requestVars
  OBVIOUS
<1> USE DEF Promise!RequestNext, Promise!requestVars
<1>t. /\ AutoInv /\ AutoTypeOK /\ RequestAgrees /\ GrabAgrees
      /\ pending \in {"none", "raised", "accepted", "served"}
  BY DEF FlowInv, FreshInv, AutoInv, AutoTypeOK
<1>1. CASE Shoe
  BY <1>1 DEF Shoe, ChangeShoe, history, Promise!NextShoe
<1>2. ASSUME NEW t \in Threads, Camera(t) PROVE UNCHANGED Promise!requestVars
  BY <1>2, <1>t, CameraWorkers DEF history
<1>3. CASE HmiRequest
  BY <1>3, <1>t DEF HmiRequest, grabVars, RequestAgrees, Promise!Raise
<1>4. CASE SyncConfig
  BY <1>4, <1>t DEF SyncConfig, Accept, grabVars, Promise!Notice
<1>5. CASE AutoGenerate
  BY <1>5, <1>t DEF AutoGenerate, RequestAgrees, Promise!Serve
<1>6. CASE GoSend
  <2>1. /\ glue # 0 /\ pending' = "none" /\ wanted' = 0 /\ scene' = scene
        /\ sent' = [frame |-> glue, wanted |-> wanted]
    BY <1>6, LinkedWrites DEF GoSend, grabVars
  <2>4. uiPc = "go" /\ pending = "served" /\ glue = snap
    BY <1>6, <1>t DEF GoSend, RequestAgrees, AutoInv, PathOfSnapshot
  <2>5. snap >= wanted /\ snap <= scene
    BY <2>4 DEF InService, FreshInv, FreshWaiting, FlowInv
  <2>2. glue \in 1 .. scene
    BY <1>t, <2>1, <2>4, <2>5, SceneAssumption DEF AutoTypeOK, GrabTypeOK, Frames
  <2>3. Promise!Answer
    BY <2>1, <2>2, <2>4, <2>5 DEF Promise!Answer
  <2> QED BY <2>3
<1>7. CASE AutoClear
  <2>1. /\ InService /\ pending' = "none" /\ wanted' = 0 /\ UNCHANGED <<scene, sent>>
    BY <1>7, LinkedWrites DEF AutoClear, InService, grabVars
  <2>2. pending \in {"none", "raised", "served"}
    BY <1>t, <2>1 DEF RequestAgrees
  <2>3. pending \in {"none", "raised"} => wanted = 0
    BY <1>t DEF RequestAgrees
  <2>4. pending = "raised" => ~PatientHmi
    BY <1>t, <2>1 DEF AutoInv, ServiceOwnsRequest
  <2> QED BY <2>1, <2>2, <2>3, <2>4 DEF Promise!GiveUp, Promise!Lose
<1>8. CASE SyncFunction \/ AutoStart \/ AutoStop \/ ManualGrab \/ ManualStop
  BY <1>8 DEF SyncFunction, AutoStart, AutoStop, ManualGrab, ManualStop, history
<1>9. CASE AutoIdle \/ AutoProceed \/ AutoNoImage \/ AutoThrow \/ AutoCheck \/ GoFail
           \/ DismissBox \/ KeepAlive \/ AutoExtracted
  BY <1>9 DEF AutoIdle, AutoProceed, AutoNoImage, AutoThrow, AutoCheck, GoFail, DismissBox,
              KeepAlive, AutoExtracted, grabVars, history
<1>10. CASE UNCHANGED autoVars
  BY <1>10 DEF autoVars, grabVars, history
<1> QED
  BY <1>1, <1>2, <1>3, <1>4, <1>5, <1>6, <1>7, <1>8, <1>9, <1>10, FreshSteps DEF Aside

\* In the environment of FreshPathSent the automatic flow does what PathRequest
\* promises, for any number of workers and shoes: one answer at most to a request, none
\* without one, of a shoe that has been there and is not older than the request, and no
\* request lost unless the HMI raises one before the last is finished.
THEOREM RequestRefinement == FreshEnvironment => (AutoSpec => ImplementsRequest)
<1> SUFFICES ASSUME FreshEnvironment PROVE AutoSpec => ImplementsRequest
  OBVIOUS
<1>1. AutoInit => FreshInv /\ Promise!RequestInit
  BY FreshInit, PromiseInit
<1>2. AutoInv /\ FreshInv /\ [AutoNext]_autoVars => FreshInv'
  BY FreshNext
<1>3. FlowInv => AutoInv
  BY DEF FlowInv
<1>4. FlowInv /\ FreshInv /\ [AutoNext]_autoVars => [Promise!RequestNext]_Promise!requestVars
  BY PromiseStep
<1> QED
  BY <1>1, <1>2, <1>3, <1>4, FlowInvariance, PTL
  DEF AutoSpec, ImplementsRequest, Promise!RequestSpec
=============================================================================
