SPECIFICATION FairSpec
CONSTANTS
    None = None
    Files = {f, g}
    Opens = {o1, o2}
    Ops = {p1, p2}
    Originals = {x}
    Alike = {{x}}
    MaxVersions = 3
    MaxHistory = 2
    MaxBackups = 1
    AtOnce = 2
    Folders = {a, b}
    Disks = {{a, b}}
    Items = {dir, doc}
    Trees = {dir}
    Jobs = {j1, j2}
    MaxName = 1
    MaxSelect = 1
    MaxCommands = 3
    Dirs = {home, sub}
    Home = home
    Requests = 4
    MaxState = 1
INVARIANTS TypesOK LocksHeld TreeIsCache
PROPERTIES OpenEnds UploadKeepsOld NothingLost TreeSettles
CHECK_DEADLOCK FALSE
