SPECIFICATION Spec
CONSTANTS
    Keys <- MCKeys
    Files <- MCNoRoots
    LongIs64 = TRUE
    Options = {ipaddr}
    Lists = {}
    Contents = {set}
    Entries = {}
    None = None
    Faults = {}
    MaxCommands = 3
INVARIANTS
    RefusedIsNotSaved
