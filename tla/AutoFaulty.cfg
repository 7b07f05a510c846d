CONSTANTS
    Threads = {t1, t2}
    MaxScene = 2
    CameraFaults = FALSE
    LinkFaults = TRUE
    MayThrow = TRUE
    HmiMayCancel = TRUE
    HmiMayGrab = TRUE
    PatientHmi = TRUE
    PromptCamera = FALSE
    ManualOps = TRUE
SPECIFICATION AutoSpec
SYMMETRY ThreadSymmetry
INVARIANT BusyNotLeaked
PROPERTY OneFrame
PROPERTY RequestNotDropped
