CONSTANTS
    Null = Null
    Files = {"f1"}
    FileHeaders <- MCFileHeaders
    Trimmed <- NoData
    Sanitized <- NoData
    Schemas = {"public"}
    Existing <- MCExisting
    BlockedSchemas = {}
    BlockedTables = {}
    SafeNames = {"fresh", "name"}
    TypedNames = {"fresh"}
    MaxEdits = 0
    Imports = {"i1"}
    MaxServerSteps = 4
    Mutations = {"m1", "m2"}
    MaxFailures = 1
SPECIFICATION Spec
CONSTRAINT NotExcused
INVARIANTS ReadYourWrites
PROPERTIES PageCatchesUp
CHECK_DEADLOCK FALSE
