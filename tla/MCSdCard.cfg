CONSTANTS
    Cards <- OneOfEach
    Kind <- EachKind
    Lba = {0, 1}
    LastSector = 3
    BlockLen = 2
    Patience <- TwoTries
SPECIFICATION FairSpec
INVARIANTS TypeOK  MountedCardOnly
PROPERTY CallsReturn
