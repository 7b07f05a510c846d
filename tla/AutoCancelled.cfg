CONSTANTS
    Threads = {t1, t2}
    MaxScene = 3
    CameraFaults = TRUE
    LinkFaults = FALSE
    MayThrow = TRUE
    HmiMayCancel = TRUE
    HmiMayGrab = FALSE
    PatientHmi = TRUE
    PromptCamera = TRUE
    ManualOps = TRUE
SPECIFICATION AutoSpec
SYMMETRY ThreadSymmetry
INVARIANT FreshPath
