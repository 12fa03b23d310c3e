CONSTANTS
    chip_buffer_size = 4
    PoolSize = 104
    MaxFailures = 1
    ScanVectors <- Claimed
    TargetStates = {"TEST_LOGIC_RESET"}
SPECIFICATION Spec
INVARIANTS SuccessReturnsTdo
