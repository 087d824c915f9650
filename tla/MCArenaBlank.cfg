CONSTANTS
    NPages = 8
    PageSize = 8
    Align = 2
    Layouts <- SomeLayouts
    Content <- SomeContent
    Sizes = {2, 4}
    Fills <- SomeFills
    Positions = {8, 36}
    AllocRange = 21
    MaxChunks = 3
    MaxOthers = 0
SPECIFICATION Spec
INVARIANT OnlyBlankPages
CHECK_DEADLOCK FALSE
