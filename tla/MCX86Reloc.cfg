CONSTANTS
    Start = 1990
    Reach32 = 1024
    Programs <- SomePrograms
    Chunks <- SomeChunks
    Stubs <- SomeStubs
SPECIFICATION FairSpec
INVARIANTS CopyIsWholeInstructions TrampolineLeadsToStub
PROPERTIES CopyRunsInPlace RelocationEnds
CHECK_DEADLOCK FALSE
