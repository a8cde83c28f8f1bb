CONSTANTS
    MaxId = 3
    First = 2
    Requests = {r1, r2}
    Asked = {"pending", "completed"}
    PageSize = 1
    MaxTime = 1
    Day = 2
    Dates = {0, None}
    MaxDeaths = 1
    None = None
SPECIFICATION FairSpec
INVARIANTS RepeatedEventsNeedDeaths EveryCompletionRepeats
PROPERTIES ImplementsOutbox ScanIsComplete OverdueTasksAreAnnounced
