\* A bridge and a second one, at once or after it, with every kind of option.
SPECIFICATION FairSpec
CONSTANTS
    Bridges = {b1, b2}
    Configs <- AllConfigs
    Names = {"copilot", "npx", "auto"}
    MaxPort = 4
    WaitPolls = 1
INVARIANTS TypeOK CliDiesWithBridge TransportMatches FailsWithReason
PROPERTY StartsOrEnds
CHECK_DEADLOCK FALSE
