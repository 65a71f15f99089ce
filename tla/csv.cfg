CONSTANTS
    Imports = {i1, i2}
    Null = Null
    Existing <- MCExisting
    Inputs <- MCInputs
    BlockedSchemas = {"information_schema", "pg_catalog"}
    BlockedTables = {"users"}
    SafeNames <- MCSafeNames
    EmptyHeaders = {""}
    LongHeaders = {"very long"}
    MaxColumns = 4
    LongTexts = {"long text"}
    MaxRetries = 1
    MaxThrows = 1
SPECIFICATION Spec
INVARIANTS TypeOK TableHasTheFile SkippedAreReported StrictIsAllOrNothing TriggerFollows
PROPERTIES FinalIsKept
CHECK_DEADLOCK FALSE
