SPECIFICATION FairSpec
CONSTANTS
    Threads = {t1, t2}
    Admins = {o1}
    Sessions = {s1}
    Reserved = {}
    Caps = {1}
    Roots = {home, cwd}
    HomeRoot = home
    ReloadRoots = {home}
    None = None
    MaxInvokes = 2
    MaxReloads = 1
    MaxRemoves = 1
    MaxCancels = 0
    MaxShutdowns = 1
    MaxFaults = 0
PROPERTY InvokeReturns
