CONSTANTS
    Null = Null
    Files = {"f1", "f2", "f3"}
    FileHeaders <- MCFileHeaders
    Trimmed <- MCTrimmed
    Sanitized <- MCSanitized
    Schemas = {"public", "pg_catalog"}
    Existing <- MCExisting
    BlockedSchemas = {"pg_catalog"}
    BlockedTables = {"users"}
    SafeNames = {"public", "fresh", "name", "a", "A", "a_2", "_1st"}
    TypedNames = {"fresh", "a", "1st"}
    MaxEdits = 2
SPECIFICATION WizardSpec
INVARIANTS ReviewedIsSent AcceptedIfMapped
CHECK_DEADLOCK FALSE
