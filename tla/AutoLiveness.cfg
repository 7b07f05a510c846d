CONSTANTS
    Threads = {t1, t2}
    MaxScene = 2
    CameraFaults = FALSE
    LinkFaults = FALSE
    MayThrow = FALSE
    HmiMayCancel = FALSE
    HmiMayGrab = FALSE
    PatientHmi = TRUE
    PromptCamera = TRUE
    ManualOps = FALSE
SPECIFICATION FairAutoSpec
PROPERTY RequestServed
