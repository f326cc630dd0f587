SPECIFICATION FairSpec
CONSTANTS
    None = None
    Waiters = {c1, c2, c3, c4}
    Keepers = {c3, c4}
    Execs = {e1, e2}
    Shells = {s1}
    Gens = {g1, g2}
    ExecMaxRetries = 1
    Connections = {k1}
    Folders = {d1, d2, d3}
    Background = {b1}
    SlotChoices = {1, 2, 4}
    SemaphoreMax = 3
    SemaphoreRecover = 5
    GuardMax = 2
    GuardRecover = 2
INVARIANTS TypesOK SlotsTrue GuardTrue
PROPERTIES ReservedSlots HighStarts WaiterSettles ExecSettles
