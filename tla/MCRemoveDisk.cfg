SPECIFICATION Spec
CONSTANTS
    Threads = {t1, t2}
    Admins = {o1}
    Sessions = {s1}
    Reserved = {}
    Caps = {1, 2}
    Roots = {home, cwd}
    HomeRoot = home
    ReloadRoots = {home}
    None = None
    MaxInvokes = 2
    MaxReloads = 0
    MaxRemoves = 1
    MaxCancels = 0
    MaxShutdowns = 0
    MaxFaults = 0
SYMMETRY Symmetry
PROPERTY NoDeleteUnderTurn
