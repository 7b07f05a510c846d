CONSTANT LinkFaults = TRUE
SPECIFICATION FairChannelSpec
INVARIANT ChannelTypeOK
INVARIANT OneUser
INVARIANT OnlyKeepAliveEscapes
INVARIANT NothingLeftBehind
PROPERTY TickEnds
PROPERTY CoordinatesResume
PROPERTY OnlyPathErrorStopsSync
