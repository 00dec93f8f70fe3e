CONSTANTS
    r = r
    s = s
    i1 = i1
    i2 = i2
    f1 = f1
    f2 = f2
    f3 = f3
    a = a
    b = b
    w = w
    Root = r
    CfgName = CfgName
    NoName = NoName
    Blank = Blank
    NoEntry = NoEntry
    Alien = Alien
    Dirs <- OneDir
    HostNames = {f1}
    ImageNames = {i1, i2}
    Data = {a, b, w}
    Capacity = 2
    Faults = FALSE
    Cards <- OneCard
    Habits = {"two-files", "scratch-first", "unmount-first", "stays-put",
              "same-place"}
    HostDrives = {0, 1}
    HostFiles = {}
    HostData = {w}
SPECIFICATION HSpec
 
PROPERTIES  RestoresSaved
