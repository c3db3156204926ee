\* A refresh while the last line of a file is half written.
SPECIFICATION Spec
CONSTANTS
    b1 = b1
    b2 = b2
    f1 = f1
    f2 = f2
    Bridges = {b1, b2}
    Files = {f1, f2}
    Deployments <- OneFile
    Kinds = {"plain"}
    MaxEvents = 2
    MaxFaults = 0
    Bursts = "bytes"
INVARIANT NoneMissed
CHECK_DEADLOCK FALSE
