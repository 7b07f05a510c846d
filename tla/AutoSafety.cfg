CONSTANTS
    Threads = {t1, t2}
    MaxScene = 3
    CameraFaults = TRUE
    LinkFaults = FALSE
    MayThrow = TRUE
    HmiMayCancel = FALSE
    HmiMayGrab = FALSE
    PatientHmi = TRUE
    PromptCamera = TRUE
    ManualOps = TRUE
SPECIFICATION AutoSpec
SYMMETRY ThreadSymmetry
INVARIANT AutoTypeOK
INVARIANT FreshPath
PROPERTY ImplementsRequest
