SPECIFICATION Spec
CONSTANTS
    Conns = {c1, c2}
    Timers = {t1, t2}
    NoConn = NoConn
    NoTimer = NoTimer
SYMMETRY Symmetry
INVARIANT ManualDisconnectSticks
