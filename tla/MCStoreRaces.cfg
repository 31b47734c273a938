SPECIFICATION Spec
CONSTANTS
    Ids = {a, b}
    Keys = {k1}
    Operators = {o1, o2}
    Handlers = {h1, h2}
    None = None
    MaxEvents = 2
    MaxTime = 1
    ClockMayStepBack = FALSE
SYMMETRY Symmetry
INVARIANT TypeOK LoadedIsCommitted StoreReplays CheckpointsCoverState
PROPERTY NoLostUpdate FailsOnlyIfOvertaken
