SPECIFICATION FairSpec
CONSTANTS
    Threads = {t1, t2}
    Admins = {o1}
    Sessions = {s1}
    Reserved = {}
    Caps = {0, 1}
    Roots = {home, cwd}
    HomeRoot = home
    ReloadRoots = {home}
    None = None
    MaxInvokes = 2
    MaxReloads = 1
    MaxRemoves = 0
    MaxCancels = 0
    MaxShutdowns = 0
    MaxFaults = 0
PROPERTY UnlimitedAdmits
