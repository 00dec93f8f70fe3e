CONSTANTS
    Characters <- AllCharacters
    Strings <- SomeStrings
    WildLen = 3
    PerSector = 2
    SubName <- TheSub
    HostNames <- TwoNames
    RootTable <- InRoot
    SubTable <- InSub
SPECIFICATION Spec
INVARIANTS TypeOK ListedIsWanted ListingComplete 
VIEW PatternInUse
