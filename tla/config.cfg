SPECIFICATION Spec
CONSTANTS
    Keys <- MCKeys
    Files <- MCFiles
    LongIs64 = TRUE
    Options = {ipaddr, dns}
    Lists = {dns}
    Contents = {old, new}
    Entries = {one}
    None = None
    Faults = {"write", "power"}
    MaxCommands = 3
INVARIANTS
    TypeOK
    AddedIsReadable
    AcceptedIsKept
    UciHoldsAnswered
SYMMETRY MCSymmetry
