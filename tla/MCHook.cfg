SPECIFICATION FairSpec
CONSTANTS
    AppThreads = {t1, t2}
    ApiLevels = {23, 24, 26, 28, 30}
    PatchWords = 2
    WordsOnPage <- MCWordsOnPage
    AppDataDirs <- MCDirs
    UserIds = {"0", "10"}
    GamePackageName = "game"
    MaxOpens = 2
    FailingOpens = {23, 24, 26, 30}
    LookalikeGames = {23, 26}
INVARIANTS TypeOK OrigSetBeforeHookRuns LateOpensAreSeen
           OnlyTheGameIsHooked DumpGetsHandle
PROPERTIES HandleStable HookedGameIsDumped TornOnlyWhilePatching
CHECK_DEADLOCK FALSE
