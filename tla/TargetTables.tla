----------------------------- MODULE TargetTables -----------------------------
(***************************************************************************)
(* Which tables an import may load, and what a table looks like that is    *)
(* created for it: PostgresImportTargetPolicy, ensureTargetTable and       *)
(* PostgresTableMetadataService, as operators on an input with its table   *)
(* (<<schema, name>>), headers, mapping and types.                         *)
(***************************************************************************)
EXTENDS CsvValues

CONSTANTS
    BlockedSchemas,    \* BLOCKED_SCHEMAS, and pg_*
    BlockedTables,     \* BLOCKED_TABLES
    SafeNames          \* the names that match SAFE_NEW_IDENTIFIER

isSchemaAllowed(schema) == schema \notin BlockedSchemas
isAllowed(table) == isSchemaAllowed(table[1]) /\ table[2] \notin BlockedTables

\* What the lists of targets offer: schemas are a set, tables a function.
listSchemas(schemas) == {s \in schemas : isSchemaAllowed(s)}
listTables(schema, tables) == {t \in DOMAIN tables : t[1] = schema /\ isAllowed(t)}

NEW_TABLE_COLUMN_TYPES == {"text", "integer", "bigint", "numeric", "boolean", "date",
                           "timestamp", "timestamptz", "uuid"}

\* information_schema's name of a type
DataType(type) == CASE type = "timestamp" -> "timestamp without time zone"
                    [] type = "timestamptz" -> "timestamp with time zone"
                    [] OTHER -> type

TypeOf(input, name) == IF name \in DOMAIN input.types THEN input.types[name] ELSE "text"

NewColumn(type, default) ==
    [type |-> DataType(type), nullable |-> ~default, default |-> default,
     generated |-> FALSE, identity |-> FALSE, tooLong |-> {}]

\* ensureTargetTable: the names of the new columns
NewNames(input) == Targets(input.headers, input.mapping)

CanCreate(input) ==
    /\ isAllowed(input.table)
    /\ ElementsOf(input.table) \cup ElementsOf(NewNames(input)) \subseteq SafeNames
    /\ Distinct(NewNames(input))
    /\ \A name \in ElementsOf(NewNames(input)) : TypeOf(input, name) \in NEW_TABLE_COLUMN_TYPES

AuditNames == {"created_at", "updated_at"}
NewColumns(input) ==
    [name \in ElementsOf(NewNames(input)) \cup AuditNames |->
        IF name \in ElementsOf(NewNames(input))
        THEN NewColumn(TypeOf(input, name), FALSE)
        ELSE NewColumn("timestamptz", TRUE)]

\* Mutant: a table that brings its own updated_at has no trigger.
WantsTriggerIfAdded(input) == "updated_at" \notin ElementsOf(NewNames(input))

\* attachUpdatedAtTrigger
WantsTrigger(input) ==
    "updated_at" \notin ElementsOf(NewNames(input)) \/ TypeOf(input, "updated_at") = "timestamptz"

\* getTable and the mapping accept it.
Fits(input, columns) ==
    isAllowed(input.table) /\ ValidMapping(input.headers, input.mapping, columns)
=============================================================================
