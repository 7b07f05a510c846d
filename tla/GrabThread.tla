------------------------------ MODULE GrabThread ------------------------------
(***************************************************************************)
(* Continuous image acquisition of WorkTab (WorkTab.cpp).                  *)
(*                                                                         *)
(* The UI thread starts and stops acquisition through one shared flag,     *)
(* m_bGrabThread; each start spawns a fresh worker (AfxBeginThread) that   *)
(* nobody joins.  A worker opens the first Basler camera, then loops:      *)
(* wait for a frame, look at the flag, publish the frame under m_matMutex  *)
(* and, after the mutex is released, clear the tool and glue paths.  On    *)
(* its way out, whatever the reason, it resets the shared flag.            *)
(*                                                                         *)
(* A frame is represented by the number of the shoe (scene) that was under *)
(* the camera when it was exposed; 0 stands for an empty cv::Mat or path.  *)
(***************************************************************************)
EXTENDS Naturals

CONSTANTS
    Threads,      \* worker threads that may be alive at once (bound on spawns)
    MaxScene,     \* bound on the number of shoes placed under the camera
    CameraFaults  \* TRUE: the camera may time out, fail to open, drop frames

ASSUME SceneAssumption  == MaxScene \in Nat \ {0}
ASSUME FaultAssumption  == CameraFaults \in BOOLEAN

VARIABLES
    scene,        \* the shoe now under the camera
    bGrabThread,  \* WorkTab::m_bGrabThread
    phase,        \* where each worker is in WorkTab::GrabThread
    held,         \* the frame a worker has retrieved (grabbedImage)
    mat,          \* WorkTab::m_mat
    glue          \* the frame m_OptimizedGluePath was extracted from

grabVars == <<scene, bGrabThread, phase, held, mat, glue>>

\* A scene number, or 0 for "nothing".
Frames == 0 .. MaxScene

\* The worker's program counter, in the order of the source.
Phases == {"off", "open", "expose", "check", "publish", "clear", "close", "exit"}

\* The phases in which a worker owns the camera object.
CameraPhases == {"expose", "check", "publish", "clear", "close"}

Alive(t) == phase[t] # "off"

GrabTypeOK ==
    /\ scene \in 1 .. MaxScene
    /\ bGrabThread \in BOOLEAN
    /\ phase \in [Threads -> Phases]
    /\ held \in [Threads -> Frames]
    /\ mat \in Frames
    /\ glue \in Frames

-----------------------------------------------------------------------------
(* The state CSPDlg::OnInitDialog leaves: it presses Grab once itself. *)

\* A mutant of GrabInit: the frame buffers are not initialised.
GrabInit_Garbage ==
    /\ scene = 1
    /\ bGrabThread = TRUE
    /\ \E t \in Threads : phase = [u \in Threads |-> IF u = t THEN "open" ELSE "off"]
    /\ held = [t \in Threads |-> MaxScene + 1]
    /\ mat = 0
    /\ glue = 0

GrabInit ==
    /\ scene = 1
    /\ bGrabThread = TRUE
    /\ \E t \in Threads : phase = [u \in Threads |-> IF u = t THEN "open" ELSE "off"]
    /\ held = [t \in Threads |-> 0]
    /\ mat = 0
    /\ glue = 0

-----------------------------------------------------------------------------
(* The environment: another shoe is put under the camera. *)

ChangeShoe ==
    /\ scene < MaxScene
    /\ scene' = scene + 1
    /\ UNCHANGED <<bGrabThread, phase, held, mat, glue>>

-----------------------------------------------------------------------------
(* The UI thread's two operations on acquisition. *)

\* The flag test and AfxBeginThread of OnBnClickedWorkGrab.
SpawnThread(t) ==
    /\ ~bGrabThread
    /\ phase[t] = "off"
    /\ bGrabThread' = TRUE
    /\ phase' = [phase EXCEPT ![t] = "open"]

StartGrab(t) == SpawnThread(t) /\ UNCHANGED <<scene, held, mat, glue>>

\* OnBnClickedWorkStopGrab only lowers the flag; the worker is not joined.
StopGrab ==
    /\ bGrabThread
    /\ bGrabThread' = FALSE
    /\ UNCHANGED <<scene, phase, held, mat, glue>>

-----------------------------------------------------------------------------
(* The worker. *)

Goto(t, p) == phase' = [phase EXCEPT ![t] = p]

\* A mutant of OpenCamera: the device is opened in shared mode.
OpenCamera_Shared(t) ==
    /\ phase[t] = "open"
    /\ Goto(t, "expose")
    /\ UNCHANGED <<scene, bGrabThread, held, mat, glue>>

\* The camera is opened exclusively: a second opener gets an exception, which
\* takes it straight to the end of the thread function.
OpenCamera(t) ==
    /\ phase[t] = "open"
    /\ \/ /\ \A u \in Threads : phase[u] \notin CameraPhases
          /\ Goto(t, "expose")
       \/ /\ CameraFaults \/ \E u \in Threads : phase[u] \in CameraPhases
          /\ Goto(t, "exit")
    /\ UNCHANGED <<scene, bGrabThread, held, mat, glue>>

\* The camera exposes one frame of what is under it; RetrieveResult is waiting.
ExposeFrame(t) ==
    /\ phase[t] = "expose"
    /\ held' = [held EXCEPT ![t] = scene]
    /\ Goto(t, "check")
    /\ UNCHANGED <<scene, bGrabThread, mat, glue>>

\* RetrieveResult throws after 1000 ms: the catch block ends the thread.
RetrieveTimeout(t) ==
    /\ CameraFaults
    /\ phase[t] = "expose"
    /\ Goto(t, "close")
    /\ UNCHANGED <<scene, bGrabThread, held, mat, glue>>

\* An incomplete frame: the loop continues and the flag is NOT looked at.
BadFrame(t) ==
    /\ CameraFaults
    /\ phase[t] = "check"
    /\ Goto(t, "expose")
    /\ UNCHANGED <<scene, bGrabThread, held, mat, glue>>

\* A mutant of GoodFrame: the flag is not looked at.
GoodFrame_NoTest(t) ==
    /\ phase[t] = "check"
    /\ Goto(t, "publish")
    /\ UNCHANGED <<scene, bGrabThread, held, mat, glue>>

\* A good frame: the only place where a worker notices that it must stop.
GoodFrame(t) ==
    /\ phase[t] = "check"
    /\ Goto(t, IF bGrabThread THEN "publish" ELSE "close")
    /\ UNCHANGED <<scene, bGrabThread, held, mat, glue>>

\* m_mat is replaced under m_matMutex.
Publish(t) ==
    /\ phase[t] = "publish"
    /\ mat' = held[t]
    /\ Goto(t, "clear")
    /\ UNCHANGED <<scene, bGrabThread, held, glue>>

\* toolPath and m_OptimizedGluePath are cleared after the mutex is released.
ClearPaths(t) ==
    /\ phase[t] = "clear"
    /\ glue' = 0
    /\ Goto(t, "expose")
    /\ UNCHANGED <<scene, bGrabThread, held, mat>>

\* Leaving the try block destroys the camera object and frees the device.
CloseCamera(t) ==
    /\ phase[t] = "close"
    /\ Goto(t, "exit")
    /\ UNCHANGED <<scene, bGrabThread, held, mat, glue>>

\* A mutant of ExitThread: the flag is reset only by the Stop button.
ExitThread_KeepsFlag(t) ==
    /\ phase[t] = "exit"
    /\ Goto(t, "off")
    /\ UNCHANGED <<scene, bGrabThread, held, mat, glue>>

\* The last statement resets the shared flag, whoever set it meanwhile.
ExitThread(t) ==
    /\ phase[t] = "exit"
    /\ bGrabThread' = FALSE
    /\ Goto(t, "off")
    /\ UNCHANGED <<scene, held, mat, glue>>

Worker(t) ==
    \/ OpenCamera(t)
    \/ ExposeFrame(t)
    \/ RetrieveTimeout(t)
    \/ BadFrame(t)
    \/ GoodFrame(t)
    \/ Publish(t)
    \/ ClearPaths(t)
    \/ CloseCamera(t)
    \/ ExitThread(t)

-----------------------------------------------------------------------------

GrabNext ==
    \/ ChangeShoe
    \/ \E t \in Threads : StartGrab(t)
    \/ StopGrab
    \/ \E t \in Threads : Worker(t)

\* The scheduler runs every worker; a camera that is open delivers a good frame
\* again and again (strong fairness: bad frames may come in between).
WorkerFairness ==
    \A t \in Threads :
        /\ WF_grabVars(OpenCamera(t))
        /\ WF_grabVars(ExposeFrame(t))
        /\ SF_grabVars(GoodFrame(t))
        /\ WF_grabVars(Publish(t))
        /\ WF_grabVars(ClearPaths(t))
        /\ WF_grabVars(CloseCamera(t))
        /\ WF_grabVars(ExitThread(t))

GrabSpec     == GrabInit /\ [][GrabNext]_grabVars
FairGrabSpec == GrabSpec /\ WorkerFairness

-----------------------------------------------------------------------------
(* Properties. *)

\* Whenever m_bGrabThread is set, a worker is alive that will reset it: the
\* early return of OnBnClickedWorkGrab ("already grabbing") is never taken with
\* no acquisition behind it, so Grab cannot become a dead button.
GrabFlagHasThread == bGrabThread => \E t \in Threads : Alive(t)

\* At most one worker has the camera; with it, frames reach m_mat in the order
\* of the shoes even when an old worker is still running after a restart.
FramesInOrder == [][mat' # mat => mat' >= mat]_grabVars

\* After Stop, unless Grab is pressed again, every worker ends: none of them
\* goes on publishing frames behind a lowered flag.
StopQuiesces ==
    ~bGrabThread ~> (bGrabThread \/ \A t \in Threads : ~Alive(t))

=============================================================================
