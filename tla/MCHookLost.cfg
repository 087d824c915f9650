SPECIFICATION FairSpec
CONSTANTS
    AppThreads = {t1, t2}
    ApiLevels = {26}
    PatchWords = 1
    WordsOnPage <- MCWordsOnPage
    AppDataDirs <- MCGameDir
    UserIds = {"0", "10"}
    GamePackageName = "game"
    MaxOpens = 2
    FailingOpens = {26}
    LookalikeGames = {}
PROPERTIES SeenGameIsDumped
CHECK_DEADLOCK FALSE
