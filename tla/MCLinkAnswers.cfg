CONSTANTS
    Byte = {0}
    Commands <- MixedCommands
    Answers = {63, 64}
    BufSize = 2
    Paced = TRUE
    MaxCuts = 1
SPECIFICATION FairSpec
PROPERTY EveryCommandAnswered HeartbeatFound EveryByteTaken
