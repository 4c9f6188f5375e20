CONSTANTS
    Names = {n1}
    Claims = {c1, c2}
    Broken = Broken
    Slots = 1
    MaxGen = 2
    MaxEdits = 2
    MaxMints = 2
    MaxFaults = 0
    MaxRestamps = 0
    MaxRestarts = 0
SPECIFICATION Spec
INVARIANT SyncedIsCurrent
