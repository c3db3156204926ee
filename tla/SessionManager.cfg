\* Two connections with their cached data, one idle checker, one REST client: safety.
SPECIFICATION Spec
CONSTANTS
    Conns = {c1, c2}
    IdleTimeout = 1
    MaxTime = 2
    MaxCount = 0
    CopilotIds = {s1}
    CommandLists = {k1}
SYMMETRY Symmetry
INVARIANTS TypeOK EntriesHaveOwners WatchFollowsEntry StatusMatchesSignal AnswersForVerified
PROPERTIES DisconnectOnlyIdle LifecycleSpec
CHECK_DEADLOCK FALSE
