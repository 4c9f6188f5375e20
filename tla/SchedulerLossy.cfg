CONSTANTS
    Names = {n1}
    Claims = {c1, c2}
    Broken = Broken
    Slots = 1
    MaxGen = 2
    MaxEdits = 2
    MaxMints = 1
    MaxFaults = 1
    MaxRestamps = 1
    MaxRestarts = 1
SPECIFICATION LossySpec
PROPERTIES EditTakesEffect VerdictShown
INVARIANT SyncedIsReconciled
