\* The three axes of the machine and three transmissions: one that leaves a
\* mixed path behind, one over it, and one after a restart.
CONSTANTS
    NumAxes = 3
    MaxBatch = 3
SPECIFICATION TransferSpec
INVARIANT TransferTypeOK
INVARIANT ResultIsAPrefix
INVARIANT AnnouncedMeansArrived
PROPERTY ImplementsDelivery
