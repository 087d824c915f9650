CONSTANTS
    File <- SomeFiles
    Layouts <- SomeLayouts
    Symbols <- SomeSymbols
    Exported <- SomeExported
    Matches <- SomeMatches
    Images = {"libdl.so", "linker"}
    MaxUnloads = 2
SPECIFICATION Spec
INVARIANTS ResolvedIsDefinition NullMeansUndefined
CHECK_DEADLOCK FALSE
