--------------------------- MODULE GrabThread_proof ---------------------------
(***************************************************************************)
(* Proofs about GrabThread, for any set of workers and any number of       *)
(* shoes: the flag always has a worker behind it, and frames reach m_mat   *)
(* in the order of the shoes.                                              *)
(***************************************************************************)
EXTENDS GrabThread, TLAPS

\* The inductive invariant.  Order of frames needs that one worker at a time
\* has the camera and that nothing published is newer than what it holds.

OneCamera ==
    \A t, u \in Threads :
        phase[t] \in CameraPhases /\ phase[u] \in CameraPhases => t = u

FramesBehindScene ==
    /\ mat <= scene
    /\ \A t \in Threads : held[t] <= scene
    /\ \A t \in Threads : phase[t] \in {"check", "publish"} => mat <= held[t]

GrabInv ==
    /\ GrabTypeOK
    /\ GrabFlagHasThread
    /\ OneCamera
    /\ FramesBehindScene

-----------------------------------------------------------------------------

LEMMA GrabInitInv == GrabInit => GrabInv
<1> SUFFICES ASSUME GrabInit PROVE GrabInv
  OBVIOUS
<1> USE SceneAssumption DEF GrabInit
<1>1. PICK t \in Threads :
          phase = [u \in Threads |-> IF u = t THEN "open" ELSE "off"]
  OBVIOUS
<1>2. \A u \in Threads : phase[u] \in {"open", "off"}
  BY <1>1
<1>3. GrabTypeOK
  BY <1>1 DEF GrabTypeOK, Phases, Frames
<1>4. GrabFlagHasThread
  BY <1>1 DEF GrabFlagHasThread, Alive
<1>5. OneCamera /\ FramesBehindScene
  BY <1>2 DEF OneCamera, FramesBehindScene, CameraPhases
<1> QED BY <1>3, <1>4, <1>5 DEF GrabInv

\* Types, action by action.
LEMMA GrabTypeStep == GrabTypeOK /\ [GrabNext]_grabVars => GrabTypeOK'
<1> SUFFICES ASSUME GrabTypeOK, [GrabNext]_grabVars PROVE GrabTypeOK'
  OBVIOUS
<1> USE SceneAssumption DEF GrabTypeOK, Phases, Frames
<1>1. CASE ChangeShoe
  BY <1>1 DEF ChangeShoe
<1>2. ASSUME NEW t \in Threads, StartGrab(t) PROVE GrabTypeOK'
  BY <1>2 DEF StartGrab, SpawnThread
<1>3. CASE StopGrab
  BY <1>3 DEF StopGrab
<1>4. ASSUME NEW t \in Threads, Worker(t) PROVE GrabTypeOK'
  <2>1. CASE OpenCamera(t)
    BY <2>1 DEF OpenCamera, Goto
  <2>2. CASE ExposeFrame(t)
    BY <2>2 DEF ExposeFrame, Goto
  <2>3. CASE RetrieveTimeout(t) \/ BadFrame(t) \/ GoodFrame(t)
    BY <2>3 DEF RetrieveTimeout, BadFrame, GoodFrame, Goto
  <2>4. CASE Publish(t)
    BY <2>4 DEF Publish, Goto
  <2>5. CASE ClearPaths(t)
    BY <2>5 DEF ClearPaths, Goto
  <2>6. CASE CloseCamera(t) \/ ExitThread(t)
    BY <2>6 DEF CloseCamera, ExitThread, Goto
  <2> QED BY <1>4, <2>1, <2>2, <2>3, <2>4, <2>5, <2>6 DEF Worker
<1>5. CASE UNCHANGED grabVars
  BY <1>5 DEF grabVars
<1> QED BY <1>1, <1>2, <1>3, <1>4, <1>5 DEF GrabNext

\* The flag: a worker goes off only together with it.
LEMMA FlagStep ==
    GrabTypeOK /\ GrabFlagHasThread /\ [GrabNext]_grabVars => GrabFlagHasThread'
<1> SUFFICES ASSUME GrabTypeOK, GrabFlagHasThread, [GrabNext]_grabVars
             PROVE  GrabFlagHasThread'
  OBVIOUS
<1> USE DEF GrabTypeOK, GrabFlagHasThread, Alive
<1>1. CASE ChangeShoe \/ StopGrab \/ UNCHANGED grabVars
  BY <1>1 DEF ChangeShoe, StopGrab, grabVars
<1>2. ASSUME NEW t \in Threads, StartGrab(t) PROVE GrabFlagHasThread'
  BY <1>2 DEF StartGrab, SpawnThread
<1>3. ASSUME NEW t \in Threads, Worker(t) PROVE GrabFlagHasThread'
  <2>1. CASE ExitThread(t)
    BY <2>1 DEF ExitThread
  <2>2. CASE ~ExitThread(t)
    <3>1. bGrabThread' = bGrabThread /\ \E p \in Phases \ {"off"} : Goto(t, p)
      BY <1>3, <2>2
      DEF Worker, OpenCamera, ExposeFrame, RetrieveTimeout, BadFrame, GoodFrame,
          Publish, ClearPaths, CloseCamera, Phases
    <3> QED BY <3>1 DEF Goto
  <2> QED BY <2>1, <2>2
<1> QED BY <1>1, <1>2, <1>3 DEF GrabNext

\* The camera and the frames.
LEMMA FrameStep ==
    GrabInv /\ GrabTypeOK' /\ [GrabNext]_grabVars => OneCamera' /\ FramesBehindScene'
<1> SUFFICES ASSUME GrabInv, GrabTypeOK', [GrabNext]_grabVars
             PROVE  OneCamera' /\ FramesBehindScene'
  OBVIOUS
<1> USE DEF GrabInv, OneCamera, FramesBehindScene, CameraPhases
<1>1. /\ scene \in Nat /\ mat \in Nat /\ \A u \in Threads : held[u] \in Nat
      /\ phase \in [Threads -> Phases] /\ held \in [Threads -> Frames]
  BY SceneAssumption DEF GrabTypeOK, Frames
<1>2. CASE ChangeShoe
  BY <1>1, <1>2 DEF ChangeShoe
<1>3. CASE StopGrab \/ UNCHANGED grabVars
  BY <1>3 DEF StopGrab, grabVars
<1>4. ASSUME NEW t \in Threads, StartGrab(t)
      PROVE  OneCamera' /\ FramesBehindScene'
  BY <1>1, <1>4 DEF StartGrab, SpawnThread
<1>5. ASSUME NEW t \in Threads, Worker(t)
      PROVE  OneCamera' /\ FramesBehindScene'
  <2>1. CASE OpenCamera(t)
    BY <1>1, <2>1 DEF OpenCamera, Goto
  <2>2. CASE ExposeFrame(t)
    BY <1>1, <2>2 DEF ExposeFrame, Goto
  <2>3. CASE RetrieveTimeout(t) \/ BadFrame(t) \/ GoodFrame(t)
    BY <1>1, <2>3 DEF RetrieveTimeout, BadFrame, GoodFrame, Goto
  <2>4. CASE Publish(t)
    BY <1>1, <2>4 DEF Publish, Goto
  <2>5. CASE ClearPaths(t)
    BY <1>1, <2>5 DEF ClearPaths, Goto
  <2>6. CASE CloseCamera(t) \/ ExitThread(t)
    BY <1>1, <2>6 DEF CloseCamera, ExitThread, Goto
  <2> QED BY <1>5, <2>1, <2>2, <2>3, <2>4, <2>5, <2>6 DEF Worker
<1> QED BY <1>2, <1>3, <1>4, <1>5 DEF GrabNext

LEMMA GrabNextInv == GrabInv /\ [GrabNext]_grabVars => GrabInv'
BY GrabTypeStep, FlagStep, FrameStep DEF GrabInv

\* The invariant holds in every state of every run.
THEOREM GrabInvariance == GrabSpec => []GrabInv
BY GrabInitInv, GrabNextInv, PTL DEF GrabSpec

\* Every variable has its type, for any number of workers and shoes.
THEOREM GrabTyped == GrabSpec => []GrabTypeOK
BY GrabInvariance, PTL DEF GrabInv

\* However often acquisition is stopped and started, the flag never stays set
\* without a worker, so the Grab button is never dead.
THEOREM FlagSafety == GrabSpec => []GrabFlagHasThread
BY GrabInvariance, PTL DEF GrabInv

\* No worker, retiring or fresh, puts an older shoe over a newer one.
THEOREM FrameOrder == GrabSpec => FramesInOrder
<1>1. GrabInv /\ [GrabNext]_grabVars => [mat' # mat => mat' >= mat]_grabVars
  <2> SUFFICES ASSUME GrabInv, GrabNext, mat' # mat PROVE mat' >= mat
    OBVIOUS
  <2>1. PICK t \in Threads : Publish(t)
    BY DEF GrabNext, ChangeShoe, StopGrab, StartGrab, Worker, OpenCamera, ExposeFrame,
           RetrieveTimeout, BadFrame, GoodFrame, ClearPaths, CloseCamera, ExitThread
  <2>2. mat \in Nat /\ held[t] \in Nat
    BY SceneAssumption DEF GrabInv, GrabTypeOK, Frames
  <2> QED BY <2>1, <2>2 DEF Publish, GrabInv, FramesBehindScene
<1> QED BY <1>1, GrabInvariance, PTL DEF GrabSpec, FramesInOrder
=============================================================================
