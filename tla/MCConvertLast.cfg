CONSTANTS
    bl1 = bl1
    bl2 = bl2
    stub = stub
    fw1 = fw1
    fw2 = fw2
    upd = upd
    Programs <- Some
    Role <- SomeRole
    Bytes <- OddBytes
    Factory = bl1
    Bodger = stub
    Cards <- TwoGood
    RowBytes = 2
    PageBytes = 2
    SectorBytes = 4
    AppBase = 8
    Top = 16
    CrcBytes = 4
    PerSector = 2
    MaxMountTries = 2
    MaxMishaps = 2
SPECIFICATION Spec
INVARIANT ProgramArrives
