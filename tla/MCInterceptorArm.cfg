CONSTANTS
    Functions = {"f", "g"}
    Replacements = {"r1", "r2"}
    Handlers = {}
    Far <- NoPairs
    Arch = "arm"
    Thumb = {"f"}
    MaxHooks = 3
SPECIFICATION Spec
INVARIANTS RefusedOnlyIfActive
CHECK_DEADLOCK FALSE
