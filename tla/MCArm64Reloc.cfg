CONSTANTS
    Start = 9
    CopyAt = 40
    Page = 4
    AdrpPages = 2
    Programs <- SomePrograms
    Addresses <- SomeAddresses
SPECIFICATION FairSpec
INVARIANTS TrampolineLeadsToReplacement
PROPERTIES CopyRunsPrologue CopyIsLeft
CHECK_DEADLOCK FALSE
