SPECIFICATION Spec
CONSTANTS
    Threads = {t1, t2}
    Admins = {o1}
    Sessions = {s1, s2}
    Reserved = {s2}
    Caps = {0, 1}
    Roots = {home, cwd}
    HomeRoot = home
    ReloadRoots = {home}
    None = None
    MaxInvokes = 2
    MaxReloads = 1
    MaxRemoves = 1
    MaxCancels = 1
    MaxShutdowns = 0
    MaxFaults = 1
SYMMETRY Symmetry
INVARIANTS TypeOK GateConserved AbortOnlyByOperator BusyFlagExact NoStaleActivity
PROPERTIES ImplementsTurnService
