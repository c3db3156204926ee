\* Told to shut down while the CLI is alive and says nothing.
SPECIFICATION ReadingClientSpec
CONSTANTS
    Modes = {"stdio"}
    Capacity = 2
    PongTicks = 2
    PipeCap = 1
    SockCap = 1
    ClientFrames = {"prompt"}
    CliLines = {}
    MaxAsk = 1
    MaxSay = 0
    MaxTicks = 0
PROPERTY ToldEnds
CHECK_DEADLOCK FALSE
