CONSTANTS
    Names = {n1, n2}
    Claims = {c1}
    Broken = Broken
    Slots = 1
    MaxGen = 2
    MaxEdits = 2
    MaxMints = 1
    MaxFaults = 0
    MaxRestamps = 0
    MaxRestarts = 0
SPECIFICATION LiveSpec
INVARIANTS OnePassPerCluster PromptResume AccusesOnlyInConflict VerdictHeld
PROPERTIES StartsUncontested KeepsContract EditTakesEffect VerdictShown
