\* Both directions of a relay in either mode: texts that are not JSON, a line that cannot be read, a CLI that
\* may not open, no pings but the first.
SPECIFICATION Spec
CONSTANTS
    Modes = {"stdio", "tcp"}
    Capacity = 2
    PongTicks = 2
    PipeCap = 1
    SockCap = 1
    ClientFrames = {"prompt", "bad", "close"}
    CliLines = {"update", "garbled"}
    MaxAsk = 2
    MaxSay = 2
    MaxTicks = 0
INVARIANTS TypeOK CountsCoverDelivery ReturnLosesNothing LastWordDelivered
PROPERTIES UpwardSpec DownwardSpec
CHECK_DEADLOCK FALSE
