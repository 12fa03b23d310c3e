CONSTANTS
    chip_buffer_size = 2
    PoolSize = 10
    MaxFailures = 1
    ScanVectors <- Anything
    TargetStates = {"PAUSE_IR"}
SPECIFICATION FairSpec
INVARIANTS TypeOK ResetRecovers
PROPERTIES ScanReturns
