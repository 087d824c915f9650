CONSTANTS
    Functions = {"f", "g"}
    Replacements = {"r1", "r2"}
    Handlers = {"h"}
    Far <- FarPairs
    Arch = "arm64"
    Thumb = {}
    MaxHooks = 3
SPECIFICATION FairSpec
INVARIANTS OriginalRunsOnce NewestRunsFirst DestroyRestores RefusedOnlyIfActive
PROPERTIES CallsReturn
CHECK_DEADLOCK FALSE
