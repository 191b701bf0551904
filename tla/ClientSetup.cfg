SPECIFICATION Spec
CONSTANTS
    JsonClients = {"cursor"}
    TomlClients = {"codex"}
    ClientOrder <- MCClientOrder
    Servers = {"s", "t"}
    Databases = {"db"}
    NoDb = NoDb
    Missing = Missing
    MaxCommands = 3
    MaxEdits = 1
    MaxFaults = 2
INVARIANTS UserTextSurvives WrappedIsUndoable
CHECK_DEADLOCK FALSE
