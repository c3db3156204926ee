\* One connection from accept to close: a prompt, a line, scans, DELETE, a child that ends some day, and a
\* pong timeout so short that the first ping may find it over.
SPECIFICATION FairConnSpec
CONSTANTS
    Conns = {c1}
    IdleTimeout = 0
    MaxTime = 1
    MaxCount = 1
    CopilotIds = {s1}
    CommandLists = {k1}
    Modes = {"stdio"}
    Capacity = 1
    PongTicks = 0
    PipeCap = 1
    SockCap = 1
    ClientFrames = {"prompt"}
    CliLines = {"update", "reply"}
    MaxAsk = 1
    MaxSay = 1
    MaxTicks = 0
INVARIANTS ConnTypeOK CountsMatchTraffic SeenIsListed
PROPERTIES TrackerSpec RelaySpec SessionEnds
CHECK_DEADLOCK FALSE
