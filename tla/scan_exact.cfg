CONSTANTS
    chip_buffer_size = 4
    PoolSize = 104
    MaxFailures = 0
    ScanVectors <- OneChunk
    TargetStates = {"TEST_LOGIC_RESET", "SHIFT_DR"}
SPECIFICATION FairSpec
INVARIANTS ScanCorrect TapTracked NoSpuriousFailure AnswersAccounted
PROPERTIES ImplementsScan
