------------------------------ MODULE CsvValues ------------------------------
(***************************************************************************)
(* What happens to the header, the mapping and the cells of a CSV file on  *)
(* their way into a PostgreSQL table, as pure operators.  A cell is one of *)
(* the samples of Raw; each transformer is the function from the samples   *)
(* it accepts to the text it makes of them.                                *)
(***************************************************************************)
EXTENDS Naturals, Sequences, FiniteSets, TLC

CONSTANT Null    \* SQL's null, and the absence of a value

\* A result has one value, or none: the conversion failed.
Fail == {}

NullTokens == {"", " ", "NA", "null"}
isNullToken(raw) == raw \in NullTokens

integers == [raw \in {"7", "99999999999", " 7 ", "1e3"} |->
               CASE raw = " 7 " -> "7" [] raw = "1e3" -> "1000" [] OTHER -> raw]
numerics == [raw \in {"7", "99999999999", " 7 ", "1,000"} |->
               CASE raw = " 7 " -> "7" [] raw = "1,000" -> "1000" [] OTHER -> raw]
booleans == [raw \in {"yes", "n"} |-> IF raw = "yes" THEN "true" ELSE "false"]
timestamps == [raw \in {"2024-02-29T10:00:00Z"} |-> raw]
uuids == [raw \in {"A0EEBC99-9C0B-4EF8-BB6D-6BB9BD380A11"} |-> "a0eebc99-9c0b-4ef8-bb6d-6bb9bd380a11"]
jsons == [raw \in {"7", "99999999999", " 7 ", "1e3", "[1, 2]"} |->
            CASE raw = " 7 " -> "7" [] raw = "1e3" -> "1000" [] raw = "[1, 2]" -> "[1,2]" [] OTHER -> raw]
\* Only days of the calendar, in the configured format: two of DATE_PATTERNS,
\* the first of them the default.
DateFormats == {"YYYY-MM-DD", "DD/MM/YYYY"}
dates == [format \in DateFormats |->
            [raw \in {IF format = "YYYY-MM-DD" THEN "2024-02-29" ELSE "29/02/2024"} |-> "2024-02-29"]]

Convert(accepted, raw) == IF raw \in DOMAIN accepted THEN {accepted[raw]} ELSE Fail

Raw == NullTokens \cup {"x", "n", "yes", "p,q", "\\.", "[1, 2]", "30/02/2024", "29/02/2024", "long text"}
         \cup DOMAIN numerics \cup DOMAIN integers \cup DOMAIN timestamps \cup DOMAIN uuids
         \cup DOMAIN dates["YYYY-MM-DD"]

\* Any cell is an array, here of one element: no sample has the delimiter in it.
arrays == [raw \in Raw \ NullTokens |->
    CASE raw = "x" -> "{\"x\"}" [] raw = "n" -> "{\"n\"}" [] raw = "yes" -> "{\"yes\"}"
      [] raw = "p,q" -> "{\"p,q\"}" [] raw = "\\." -> "{\"\\\\.\"}" [] raw = "[1, 2]" -> "{\"[1, 2]\"}"
      [] raw \in {"7", " 7 "} -> "{\"7\"}" [] raw = "1e3" -> "{\"1e3\"}" [] raw = "1,000" -> "{\"1,000\"}"
      [] raw = "99999999999" -> "{\"99999999999\"}" [] raw = "30/02/2024" -> "{\"30/02/2024\"}"
      [] raw = "29/02/2024" -> "{\"29/02/2024\"}" [] raw = "2024-02-29" -> "{\"2024-02-29\"}"
      [] raw = "2024-02-29T10:00:00Z" -> "{\"2024-02-29T10:00:00Z\"}"
      [] raw = "long text" -> "{\"long text\"}" [] OTHER -> "{\"A0EEBC99-9C0B-4EF8-BB6D-6BB9BD380A11\"}"]
ArrayTexts == {arrays[raw] : raw \in DOMAIN arrays}

\* The texts of cells and of what they are converted to
Text == Raw \cup ArrayTexts
          \cup {"1000", "true", "false", "a0eebc99-9c0b-4ef8-bb6d-6bb9bd380a11", "[1,2]"}

ASSUME NullAssumption == Null \notin Text

INTEGER_TYPES == {"integer", "smallint", "bigint"}
NUMERIC_TYPES == {"numeric", "decimal", "real", "double precision"}
TEXT_TYPES == {"text", "character varying", "character", "citext"}
TIMESTAMP_TYPES == {"timestamp without time zone", "timestamp with time zone"}

\* The types of columns; the last stands for all that are not told apart.
DataTypes == INTEGER_TYPES \cup NUMERIC_TYPES \cup TEXT_TYPES \cup TIMESTAMP_TYPES
               \cup {"boolean", "date", "uuid", "json", "jsonb", "ARRAY", "USER-DEFINED"}

\* A column: tooLong are the texts above its maximum length.
Column == [type : DataTypes, nullable : BOOLEAN, default : BOOLEAN, generated : BOOLEAN,
           identity : BOOLEAN, tooLong : SUBSET Raw]

\* The types whose message quotes the cell.  (A date's quotes only what looks like
\* one; the messages of texts, arrays and nulls are fixed.)
QuotingTypes == INTEGER_TYPES \cup NUMERIC_TYPES \cup TIMESTAMP_TYPES \cup {"boolean", "uuid", "json", "jsonb"}

transformText(raw, column) == {raw} \ column.tooLong

\* DatatypeTransformerService: at most one value
transformValue(raw, column, options) ==
    IF isNullToken(raw)
    THEN IF ~column.nullable /\ ~column.default THEN Fail ELSE {Null}
    ELSE CASE column.type \in INTEGER_TYPES -> Convert(integers, raw)
           [] column.type \in NUMERIC_TYPES -> Convert(numerics, raw)
           [] column.type = "boolean" -> Convert(booleans, raw)
           [] column.type \in TEXT_TYPES -> transformText(raw, column)
           [] column.type = "date" -> IF options.dateFormat \in DateFormats
                                        THEN Convert(dates[options.dateFormat], raw) ELSE Fail
           [] column.type \in TIMESTAMP_TYPES -> Convert(timestamps, raw)
           [] column.type = "uuid" -> Convert(uuids, raw)
           [] column.type \in {"json", "jsonb"} -> Convert(jsons, raw)
           [] column.type = "ARRAY" -> IF options.arrayDelimiter = Null THEN Fail ELSE Convert(arrays, raw)
           [] OTHER -> {raw}
-----------------------------------------------------------------------------
(* Headers, mapping and rows.  A table is a function from the names of its *)
(* columns; headers are a sequence of distinct names.                      *)

ElementsOf(s) == {s[k] : k \in DOMAIN s}
Distinct(s) == Cardinality(ElementsOf(s)) = Len(s)

\* CsvHeaderValidator
ValidHeaders(headers, maxColumns, empty, tooLong) ==
    /\ Len(headers) \in 1 .. maxColumns
    /\ ElementsOf(headers) \cap (empty \cup tooLong) = {}
    /\ Distinct(headers)

\* The column a header goes to: mapping?.[header] ?? header
Target(mapping, header) == IF header \in DOMAIN mapping THEN mapping[header] ELSE header
Targets(headers, mapping) == [k \in DOMAIN headers |-> Target(mapping, headers[k])]

Required(column) == ~(column.nullable \/ column.default \/ column.generated \/ column.identity)

\* PostgresColumnMappingValidator
ValidMapping(headers, mapping, columns) ==
    LET targets == Targets(headers, mapping) IN
    /\ DOMAIN mapping \subseteq ElementsOf(headers)
    /\ \A c \in ElementsOf(targets) : c \in DOMAIN columns /\ ~columns[c].generated
    /\ Distinct(targets)
    /\ \A c \in DOMAIN columns : Required(columns[c]) => c \in ElementsOf(targets)

\* ImportValidatorService: the fields of the row that fail, ...
FailingFields(record, targets, columns, options) ==
    {k \in DOMAIN targets : transformValue(record[k], columns[targets[k]], options) = Fail}

\* ... and, when none does, the row.
Transformed(record, targets, columns, options) ==
    [k \in DOMAIN targets |-> CHOOSE v \in transformValue(record[k], columns[targets[k]], options) : TRUE]
-----------------------------------------------------------------------------
(* COPY                                                                    *)

Special == {"p,q", "1,000", "[1, 2]", "[1,2]"} \cup ArrayTexts    \* contain , or "

\* A field of a COPY line
Field == [text : Text, quoted : BOOLEAN]
Bare(text) == [text |-> text, quoted |-> FALSE]
Quoted(text) == [text |-> text, quoted |-> TRUE]

\* Mutant: an empty text is not told from null.
escapeEverything(value) == IF value = Null THEN Quoted("") ELSE Quoted(value)

escapeCsvField(value) ==
    CASE value = Null -> Bare("")
      [] value = "" \/ value \in Special -> Quoted(value)
      [] OTHER -> Bare(value)

toCopyLine(row) == [k \in DOMAIN row |-> escapeCsvField(row[k])]

\* PostgreSQL: a bare empty field is null, a bare special one breaks the line,
PgField(field) == IF ~field.quoted /\ field.text = "" THEN Null ELSE field.text
PgReads(line) == \A k \in DOMAIN line : line[k].quoted \/ line[k].text \notin Special
PgRow(line) == [k \in DOMAIN line |-> PgField(line[k])]

\* a line that is only \. ends the data,
EndOfData(line) == line = <<Bare("\\.")>>

\* and a value must fit its column: no null in NOT NULL, no number out of range.
OutOfRange == {"99999999999"}
PgStores(row, targets, columns) ==
    \A k \in DOMAIN targets :
        LET c == columns[targets[k]] IN
        IF row[k] = Null THEN c.nullable ELSE c.type \in {"integer", "smallint"} => row[k] \notin OutOfRange
=============================================================================
