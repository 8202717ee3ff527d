SPECIFICATION Spec
CONSTANTS
    ConfigFiles <- mcConfigFiles
    Periods = {20, 24}
    PostTrigger = 3
    Rearm = 2
    Requests <- mcRequests
    MaxCommands = 4
    Bits32 = 8
    Bits64 = 10
INVARIANTS
    ServesAsConfigured
    
    CardMatchesController
    PoolFits
    
    FrameIsAsAsked
CHECK_DEADLOCK FALSE
