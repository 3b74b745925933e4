SPECIFICATION ComponentsSpec
CONSTANTS
    MaxRetries = 2
    MaxCrashes = 2
    Policies = {TRUE, FALSE}
    Own = {"o"}
    Starters = {"s", "g", "n"}
    Granted = {"g"}
    Later = {"n"}
    Sizes = {1, 2}
    Quota = 5
    MaxVersion = 2
    Jobs = {j}
    Urls = {home, other}
    Home = home
    Idle = 2
    Users = {u, v, w}
    Enrollments = {"e", "f"}
    Emails = {"a", "b"}
    Ids = {1, 2}
    Csvs <- CsvFiles
    Malformed <- BadFile
    MaxStale = 1
    Times = {1, 2}
    Spans = {1}
    Limits = {1}
    Filters <- Panels
    MaxJobs = 3
    Limit = 2
    Window = 3
    MaxTime = 8
INVARIANTS
    ComponentsTypeOK
    ImportIsShown
    StarterOfferedOnce
    QuotaHolds
    UpToDateHasAll
    AddressStays
    TwiceTheLimit
    RefusalIsEarned
    DeletedStaysDeleted
    PublishedIsOnDisk
PROPERTIES
    ImportIsTheFile
    ListedStay
    ReimportPreserves
    EntryKeepsFiles
    StopsNoVisibleWork
    IdleBeforeStop
    WorkIsTaken
    PagingMissesNothing
    ArchivingSettles
    OldArchivesExpire
    AdminRemains
CHECK_DEADLOCK FALSE
