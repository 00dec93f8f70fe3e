CONSTANTS
    Byte = {0, 7}
    Commands <- TransferCommands
    Answers = {63, 64}
    BufSize = 2
    Paced = TRUE
    MaxCuts = 1
SPECIFICATION Spec
INVARIANT TypeOK OperandsArrive NextByteReady AnswerIsOwn NoByteSleeps ConfigKept
