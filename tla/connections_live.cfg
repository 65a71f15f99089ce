SPECIFICATION LiveSpec
CONSTANTS
    Datasources = {d1, d2}
    Tunnelled = {d1}
    Users = {u1, u2}
    Foreign = {}
    Invalidators = {v1}
    Entries = {e1, e2, e3}
    MaxActiveDatasources = 1
    Operations = {"cleanup", "update", "shutdown"}
    MaxUpdates = 1
    None = None
CHECK_DEADLOCK FALSE
PROPERTIES
    WaiterIsAnswered
    BlockIsLifted
    ShutdownCloses
