\* --spawn-copilot, absent, as a flag and with a value.
SPECIFICATION Spec
CONSTANTS
    Bridges = {b1}
    Configs <- SpawnOptions
    Names = {"copilot", "npx", "auto"}
    MaxPort = 4
    WaitPolls = 1
INVARIANT SpawnCanBeDisabled
CHECK_DEADLOCK FALSE
