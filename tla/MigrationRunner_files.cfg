SPECIFICATION MigrationSpec
CONSTANTS
    r1 = r1
    r2 = r2
    Runners <- OneRunner
    Files <- RepositoryFiles
    LeaseTerm = 1
    MaxMoment = 1
INVARIANT AllFilesRun
CHECK_DEADLOCK FALSE
