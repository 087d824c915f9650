CONSTANTS
    Images <- MCImages
    MaxRuns = 2
SPECIFICATION FairSpec
INVARIANTS TypeOK GuardedApisMayBeMissing ClosedMeansComplete
PROPERTIES OldDumpSurvives FileSpec DumpEnds
CHECK_DEADLOCK FALSE
