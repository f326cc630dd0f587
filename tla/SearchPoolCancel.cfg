SPECIFICATION FairSpec
CONSTANTS
    MaxSearches = 1
    Paths = {p1}
    MaxProcesses = 3
    MaxWorkers = 3
    MaxItems = 3
PROPERTIES CancelledEnds
