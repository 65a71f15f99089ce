CONSTANTS
    Imports = {i1}
    Null = Null
    Existing <- MCExisting
    Inputs <- MCInputs
    BlockedSchemas = {"information_schema", "pg_catalog"}
    BlockedTables = {"users"}
    SafeNames <- MCSafeNames
    EmptyHeaders = {""}
    LongHeaders = {"very long"}
    MaxColumns = 4
    LongTexts = {"long text"}
    MaxRetries = 0
    MaxThrows = 0
SPECIFICATION Spec
INVARIANTS FailedHasNoRows
CHECK_DEADLOCK FALSE
