\* Pings, pongs, both timeouts and a full channel, with a CLI that talks meanwhile.
SPECIFICATION Spec
CONSTANTS
    Modes = {"tcp"}
    Capacity = 2
    PongTicks = 2
    PipeCap = 1
    SockCap = 1
    ClientFrames = {"prompt", "ping"}
    CliLines = {"reply"}
    MaxAsk = 2
    MaxSay = 1
    MaxTicks = 2
INVARIANTS ResponsiveNeverDropped LastWordDelivered
CHECK_DEADLOCK FALSE
