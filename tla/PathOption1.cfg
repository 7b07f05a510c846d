CONSTANTS
    MaxPoints = 3
    BufferPoints = 4
    Grain = 2
    BottomBand = 3
    Margin = 5
    Roi <- McRoi
    Ref <- McRef
    Machines <- McMachines
    Images <- McImages
    EntryXs <- McEntryXs
    Types = {1}
SPECIFICATION WordsSpec
INVARIANT ScanOrder
