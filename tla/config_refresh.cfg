SPECIFICATION Spec
CONSTANTS
    Keys <- MCKeys
    Files <- MCPlain
    LongIs64 = TRUE
    Options = {ipaddr}
    Lists = {}
    Contents = {set}
    Entries = {}
    None = None
    Faults = {"power"}
    MaxCommands = 3
PROPERTIES
    RefreshIsCurrent
