SPECIFICATION Spec
CONSTANTS
    Nothing = Nothing
    Links = {c1, c2, c3}
    InFlight = 2
    Ports = {p1, p2}
    al = al
    alice = alice
    MaxTerm = 2
    Ops = {o1, o2}
    Creds = {k1, k2}
    Tasks = {t1, t2}
    Hosts = {h1, h2}
    MaxFiles = 2
    Calls = {w}
    Typed = {good, bad}
    Right = good
    Servers = {c1, c2}
    Folders = {f, g}
    Patterns = {p, q}
    Searches = {s1, s2}
    MaxFinds = 2
    MaxLinks = 2
    MaxStarts = 1
    MaxSearches = 2
    MaxBatches = 2
    MaxTabs = 2
    MaxMail = 2
    MaxKept = 1
    Scopes = {h1}
    Names = {a}
    MaxDepth = 2
    MaxPaths = 3
    MaxClicks = 1
INVARIANTS TypesOK ForwardsTrue TerminalsAreLive ActivitiesAreReal HostsKept PasswordStaysOut
    FiltersTrue NoMixedResults ScopesTrue
CHECK_DEADLOCK FALSE
