\* Either mode, with a client and a CLI that read, a CLI that ends some day, and lines that are not JSON or cannot be read.
SPECIFICATION EndingCliSpec
CONSTANTS
    Modes = {"stdio", "tcp"}
    Capacity = 1
    PongTicks = 2
    PipeCap = 1
    SockCap = 1
    ClientFrames = {"request"}
    CliLines = {"update", "bad", "garbled"}
    MaxAsk = 2
    MaxSay = 2
    MaxTicks = 0
PROPERTIES AnswersDelivered PromptsForwarded
CHECK_DEADLOCK FALSE
