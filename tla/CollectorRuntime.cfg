SPECIFICATION Spec
CONSTANTS
    binance = binance
    okx = okx
    gate = gate
    Adapters <- MCAdapters
    MaxDue = 1
    Interval = 1
    Ladder <- MCLadder
    LegalWait = 2
    SavedLists <- MCSavedLists
    MaxPoll = 1
    MaxEdits = 1
    Collector = collector
    Tasks = {collector, alerts}
    InitialBackoff = 1
    MaxBackoff = 2
    MaxFailures = 2
INVARIANTS TypeOK PassedOverBounded
PROPERTIES EveryoneServed RestartPacing
CHECK_DEADLOCK FALSE
