CONSTANTS
    Threads = {t1, t2}
    MaxScene = 2
    CameraFaults = TRUE
    MaxRef = 2
SPECIFICATION ToolSpec
SYMMETRY ThreadSymmetry
INVARIANT ToolTypeOK
INVARIANT GenRefMatchesPath
INVARIANT LoadedHasOwnPath
PROPERTY RememberedReferenceSent
