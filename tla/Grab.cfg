\* Three workers may be alive at once: two retiring ones and a fresh one.  No
\* symmetry: it is not sound for liveness.
CONSTANTS
    Threads = {t1, t2, t3}
    MaxScene = 2
    CameraFaults = TRUE
SPECIFICATION FairGrabSpec
INVARIANT GrabTypeOK
INVARIANT GrabFlagHasThread
PROPERTY FramesInOrder
PROPERTY StopQuiesces
