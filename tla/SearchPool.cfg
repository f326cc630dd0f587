SPECIFICATION Spec
CONSTANTS
    MaxSearches = 2
    Paths = {p1, p2}
    MaxProcesses = 3
    MaxWorkers = 2
    MaxItems = 2
SYMMETRY Symmetry
INVARIANTS TypeOK WorkCounted
PROPERTY GrowthCapped
