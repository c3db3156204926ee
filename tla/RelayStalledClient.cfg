\* A client that stops reading while the CLI fills the channel.
SPECIFICATION BridgeSpec
CONSTANTS
    Modes = {"stdio"}
    Capacity = 2
    PongTicks = 2
    PipeCap = 1
    SockCap = 1
    ClientFrames = {"prompt"}
    CliLines = {"reply"}
    MaxAsk = 1
    MaxSay = 4
    MaxTicks = 3
PROPERTY SilentPeerDropped
CHECK_DEADLOCK FALSE
