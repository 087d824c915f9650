SPECIFICATION FairSpec
CONSTANTS
    AppThreads = {t1, t2}
    ApiLevels = {30}
    PatchWords = 1
    WordsOnPage <- MCWordsOnPage
    AppDataDirs <- MCGameDir
    UserIds = {"0", "10"}
    GamePackageName = "game"
    MaxOpens = 1
    FailingOpens = {30}
    LookalikeGames = {}
PROPERTIES OpenedGameIsDumped
CHECK_DEADLOCK FALSE
