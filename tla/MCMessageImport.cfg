SPECIFICATION FairSpec
CONSTANTS
    None = None
    Units = 6
    Capacity = 3
    MaxChunk = 4
    StreamLeftOpen = FALSE
INVARIANTS
    TypeOK
    NoLostWakeup
    
    FilesMatchRows

    
    
CHECK_DEADLOCK FALSE
