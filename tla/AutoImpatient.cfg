CONSTANTS
    Threads = {t1, t2}
    MaxScene = 2
    CameraFaults = FALSE
    LinkFaults = FALSE
    MayThrow = FALSE
    HmiMayCancel = FALSE
    HmiMayGrab = FALSE
    PatientHmi = FALSE
    PromptCamera = TRUE
    ManualOps = FALSE
SPECIFICATION AutoSpec
SYMMETRY ThreadSymmetry
PROPERTY RequestNotDropped
