\* Two bridges on one file or one on two; appends that end anywhere; crashes, failing statements.
SPECIFICATION FairSpec
CONSTANTS
    b1 = b1
    b2 = b2
    f1 = f1
    f2 = f2
    Bridges = {b1, b2}
    Files = {f1, f2}
    Deployments <- SharedOrTwoFiles
    Kinds = {"plain", "wide"}
    MaxEvents = 2
    MaxFaults = 1
    Bursts = "bytes"
INVARIANTS TypeOK MissedOnlyIfCutOrLost RepeatedOnlyIfExplained PanicsOnlyIfGrew
PROPERTY EventuallyCounted
CHECK_DEADLOCK FALSE
