SPECIFICATION Spec
CONSTANTS
    Datasources = {d1, d2}
    Tunnelled = {d1}
    Users = {u1, u2, u3, u4}
    Foreign = {u4}
    Invalidators = {v1}
    Entries = {e1, e2, e3}
    MaxActiveDatasources = 1
    Operations = {"cleanup", "update", "break", "shutdown"}
    MaxUpdates = 1
    None = None
SYMMETRY Symmetric
CHECK_DEADLOCK FALSE
INVARIANTS
    TypeOK
    LeaseCount
    OneInitialization
    InUseIsKept
    OwnOrganization
    StaleIsPending
    NothingLeaks
