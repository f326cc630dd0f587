SPECIFICATION Spec
CONSTANTS
    Conns = {c1, c2, c3}
    Timers = {t1, t2}
    NoConn = NoConn
    NoTimer = NoTimer
SYMMETRY Symmetry
INVARIANTS TypeOK SingleAttempt NoOrphanTimer NoStalledReconnect
PROPERTIES DropIsRetried ImplementsCycle
