----------------------------- MODULE ImportWizard -----------------------------
(***************************************************************************)
(* The page that starts an import: the state of wizardReducer, the CSV     *)
(* previews being read, the table details in the query cache, and the      *)
(* upload.  ImportPages adds the pages around it and the server.           *)
(*                                                                         *)
(* An action is one event of the page with all it dispatches, and with the *)
(* effect that fills an empty mapping: React runs it before the next event.*)
(***************************************************************************)
EXTENDS TargetTables

CONSTANTS
    Files,
    FileHeaders,    \* the headers of a file, as the server reads them
    Trimmed,        \* the headers that previewCsv trims, and what it makes of them
    Sanitized,      \* the headers that are no column names, and what they become
    Schemas,
    Existing,       \* the tables there are: <<schema, name>> -> columns
    TypedNames,     \* names of tables and columns that users type
    MaxEdits        \* bound: changes of the mapping

ASSUME WizardAssumption ==
    /\ Null \notin Files \cup Schemas /\ MaxEdits \in Nat
    /\ \A f \in Files : FileHeaders[f] \in Seq(STRING)
    /\ \A t \in DOMAIN Existing : t = <<t[1], t[2]>> /\ Null \notin DOMAIN Existing[t]

VARIABLES
    page,       \* WizardState
    reading,    \* the files whose preview is being read
    details,    \* the tables whose details are in the query cache
    upload,     \* the request that uploadCsv has sent, or Null
    edits,
    crossed     \* history: a file was dropped while another was being read

wizard == <<page, reading, details, upload, edits, crossed>>

\* previewCsv
Renamed(names, renaming) ==
    [k \in DOMAIN names |-> IF names[k] \in DOMAIN renaming THEN renaming[names[k]] ELSE names[k]]
csvHeaders(file) == Renamed(FileHeaders[file], Trimmed)

INITIAL_STATE ==
    [step |-> 0, file |-> Null, schema |-> Null, table |-> Null, createTable |-> FALSE,
     mapping |-> <<>>, importMode |-> "STRICT", sent |-> "none"]

WizardInit ==
    /\ page = INITIAL_STATE
    /\ reading = {} /\ details = {}
    /\ upload = Null
    /\ edits = 0
    /\ crossed = FALSE
-----------------------------------------------------------------------------
(* The mapping: a row for each header.                                     *)

sanitizeColumnNames(names) == Renamed(names, Sanitized)

\* The second of two equal names gets the suffix _2, and so on.
dedupeColumnNames(names) ==
    [k \in DOMAIN names |->
        LET seen == Cardinality({j \in 1 .. k - 1 : names[j] = names[k]}) IN
        IF seen = 0 THEN names[k] ELSE names[k] \o "_" \o ToString(seen + 1)]

initializeMapping(headers, columns) ==
    [k \in DOMAIN headers |->
        [csvHeader |-> headers[k], dataType |-> Null,
         targetColumn |-> IF headers[k] \in DOMAIN columns THEN headers[k] ELSE Null]]

newTableMapping(headers) ==
    LET names == dedupeColumnNames(sanitizeColumnNames(headers)) IN
    [k \in DOMAIN headers |-> [csvHeader |-> headers[k], dataType |-> "text", targetColumn |-> names[k]]]

Destination(p) == <<p.schema, p.table>>
HasDetails(p, loaded) == ~p.createTable /\ Destination(p) \in loaded

\* The effect of the page.
WithMapping(p, loaded) ==
    IF p.mapping # <<>> \/ p.file = Null THEN p
    ELSE IF p.createTable THEN [p EXCEPT !.mapping = newTableMapping(csvHeaders(p.file))]
    ELSE IF HasDetails(p, loaded)
    THEN [p EXCEPT !.mapping = initializeMapping(csvHeaders(p.file), Existing[Destination(p)])]
    ELSE p

\* The rows that have a target column, and these columns
Chosen(mapping) == {k \in DOMAIN mapping : mapping[k].targetColumn # Null}
NamesOf(mapping) == {mapping[k].targetColumn : k \in Chosen(mapping)}

isNewTableMappingValid(mapping) ==
    /\ Chosen(mapping) # {}
    /\ NamesOf(mapping) \subseteq SafeNames
    /\ Cardinality(NamesOf(mapping)) = Cardinality(Chosen(mapping))

missingRequiredColumns(mapping, columns) ==
    {c \in DOMAIN columns : Required(columns[c])} \ NamesOf(mapping)

\* Mutant: names that occur twice are let through.
canContinueIfSafe(p, loaded) ==
    IF p.createTable THEN NamesOf(p.mapping) \subseteq SafeNames
    ELSE HasDetails(p, loaded) /\ missingRequiredColumns(p.mapping, Existing[Destination(p)]) = {}

canContinueFromMapping(p, loaded) ==
    IF p.createTable THEN isNewTableMappingValid(p.mapping)
    ELSE HasDetails(p, loaded) /\ missingRequiredColumns(p.mapping, Existing[Destination(p)]) = {}

\* mappingToColumnMapping and mappingToColumnTypes: of equal keys the last wins.
LastOf(mapping, ks) == mapping[CHOOSE k \in ks : \A j \in ks : j <= k]
mappingToColumnMapping(mapping) ==
    [h \in {mapping[k].csvHeader : k \in Chosen(mapping)} |->
        LastOf(mapping, {k \in Chosen(mapping) : mapping[k].csvHeader = h}).targetColumn]
mappingToColumnTypes(mapping) ==
    LET typed == {k \in Chosen(mapping) : mapping[k].dataType # Null} IN
    [c \in {mapping[k].targetColumn : k \in typed} |->
        LastOf(mapping, {k \in typed : mapping[k].targetColumn = c}).dataType]
-----------------------------------------------------------------------------
(* Events                                                                  *)

Show(p) == page' = WithMapping(p, details)
Elsewhere == <<reading, details, upload, edits, crossed>>

\* The dropzone is there until there is a file.
DropFile(f) ==
    /\ page.step = 0 /\ page.file = Null
    /\ f \notin reading
    /\ reading' = reading \cup {f}
    /\ crossed' = (crossed \/ reading # {})
    /\ UNCHANGED <<page, details, upload, edits>>

\* The preview is read, whatever step the page has come to: SET_FILE.
PreviewRead(f) ==
    /\ f \in reading
    /\ reading' = reading \ {f}
    /\ Show([page EXCEPT !.file = f])
    /\ UNCHANGED <<details, upload, edits, crossed>>

PreviewFails(f) ==
    /\ f \in reading
    /\ reading' = reading \ {f}
    /\ UNCHANGED <<page, details, upload, edits, crossed>>

\* Mutant: CLEAR_FILE keeps what was chosen for the file.
ClearOnlyFile ==
    /\ page.step = 0 /\ page.file # Null
    /\ page' = [page EXCEPT !.file = Null]
    /\ UNCHANGED Elsewhere

\* CLEAR_FILE
ClearFile ==
    /\ page.step = 0 /\ page.file # Null
    /\ page' = INITIAL_STATE
    /\ UNCHANGED Elsewhere

\* Each step shows its buttons when it is ready.
CanContinue ==
    CASE page.step = 0 -> page.file # Null
      [] page.step = 1 -> page.schema # Null /\ page.table # Null
                          /\ (page.createTable => page.table \in SafeNames)
      [] page.step = 2 -> canContinueFromMapping(page, details)
      [] OTHER -> FALSE
CanGoBack ==
    CASE page.step = 1 -> TRUE
      [] page.step = 2 -> IF page.createTable THEN page.mapping # <<>> ELSE HasDetails(page, details)
      [] page.step = 3 -> page.createTable \/ HasDetails(page, details)
      [] OTHER -> page.step = 4 /\ page.sent = "refused"

Continue == CanContinue /\ Show([page EXCEPT !.step = @ + 1]) /\ UNCHANGED Elsewhere
Back == CanGoBack /\ Show([page EXCEPT !.step = @ - 1]) /\ UNCHANGED Elsewhere

\* SET_SCHEMA, SET_CREATE_TABLE and SET_TABLE all drop the mapping.
Choose(p) == page.step = 1 /\ Show([p EXCEPT !.mapping = <<>>]) /\ UNCHANGED Elsewhere

ChooseSchema(s) == Choose([page EXCEPT !.schema = s, !.table = Null])
ChooseCreate(b) == page.schema # Null /\ Choose([page EXCEPT !.createTable = b, !.table = Null])
ChooseTable(t) == ~page.createTable /\ page.schema = t[1] /\ Choose([page EXCEPT !.table = t[2]])
TypeTable(name) == page.schema # Null /\ page.createTable /\ Choose([page EXCEPT !.table = name])

\* useImportTableDetails answers.
DetailsLoaded ==
    /\ page.step \in 1 .. 3 /\ ~page.createTable /\ page.schema # Null /\ page.table # Null
    /\ Destination(page) \notin details
    /\ details' = details \cup {Destination(page)}
    /\ page' = WithMapping(page, details')
    /\ UNCHANGED <<reading, upload, edits, crossed>>

Edit(k, column, type) ==
    /\ page.step = 2 /\ CanGoBack /\ edits < MaxEdits
    /\ edits' = edits + 1
    /\ Show([page EXCEPT !.mapping[k].targetColumn = column, !.mapping[k].dataType = type])
    /\ UNCHANGED <<reading, details, upload, crossed>>

\* A target column, or "Do not import"; for a new table a name and a type.
EditMapping ==
    \E k \in DOMAIN page.mapping :
        \/ /\ ~page.createTable
           /\ \E c \in DOMAIN Existing[Destination(page)] \cup {Null} : Edit(k, c, page.mapping[k].dataType)
        \/ page.createTable /\ \E c \in TypedNames \cup {Null} : Edit(k, c, page.mapping[k].dataType)
        \/ page.createTable /\ Edit(k, page.mapping[k].targetColumn, "integer")

ChooseMode ==
    /\ page.step = 3 /\ CanGoBack
    /\ page' = [page EXCEPT !.importMode = "FLEXIBLE"]
    /\ UNCHANGED Elsewhere

\* What handleStartImport sends of the page; headers are the server's.
Request(p) ==
    [file |-> p.file, headers |-> FileHeaders[p.file], table |-> Destination(p), createTable |-> p.createTable,
     importMode |-> p.importMode,
     mapping |-> mappingToColumnMapping(p.mapping), types |-> mappingToColumnTypes(p.mapping),
     rows |-> p.mapping, outcome |-> Null]

\* onStart
Start ==
    /\ page.step = 3 /\ CanGoBack
    /\ page' = [page EXCEPT !.step = 4, !.sent = "sending"]
    /\ upload' = Request(page)
    /\ UNCHANGED <<reading, details, edits, crossed>>

\* The upload is refused or lost: uploadCsv rejects.
UploadRejected(sent) ==
    /\ page' = IF page.sent = "sending" THEN [page EXCEPT !.sent = sent] ELSE page
    /\ upload' = Null
    /\ UNCHANGED <<reading, details, edits, crossed>>

\* It is accepted, and the page of the import is opened instead.
Leaves == page' = INITIAL_STATE /\ reading' = {} /\ details' = {} /\ edits' = 0

UploadEnds ==
    /\ upload # Null
    /\ \/ Leaves /\ upload' = Null /\ crossed' = FALSE
       \/ \E sent \in {"refused", "duplicate"} : UploadRejected(sent)

WizardEvent ==
    \/ \E f \in Files : DropFile(f) \/ PreviewRead(f) \/ PreviewFails(f)
    \/ ClearFile \/ Continue \/ Back
    \/ \E s \in listSchemas(Schemas) : ChooseSchema(s)
    \/ \E b \in BOOLEAN : ChooseCreate(b)
    \/ \E t \in listTables(page.schema, Existing) : ChooseTable(t)
    \/ \E name \in TypedNames : TypeTable(name)
    \/ DetailsLoaded \/ EditMapping \/ ChooseMode \/ Start

WizardSpec == WizardInit /\ [][WizardEvent \/ UploadEnds]_wizard
-----------------------------------------------------------------------------
(* Properties                                                              *)

MappingOf(mapping, file) == [k \in DOMAIN mapping |-> mapping[k].csvHeader] = csvHeaders(file)

\* Unless a file was dropped while another was read, what is uploaded is what
\* the page shows: the mapping is that of the file, row by row, and while the
\* upload runs nothing of the reviewed import can be changed (the five steps
\* and what each of them resets).
ReviewedIsSent ==
    upload # Null /\ ~crossed =>
        /\ MappingOf(upload.rows, upload.file)
        /\ page.sent = "sending" => upload = [Request(page) EXCEPT !.outcome = upload.outcome]

\* The headers are as in the file, and each of them has a column.
Mapped(request) == DOMAIN request.mapping = ElementsOf(request.headers) /\ Distinct(request.headers)

\* Whatever the user has clicked, an upload whose headers all have a column
\* meets the server's own rules: into a new table, of a schema with a plain name,
\* its names and types are accepted and the table fits; into an existing one it is
\* refused only for a column chosen twice or a generated one, which the page does
\* not look at.
AcceptedIfMapped ==
    upload # Null /\ ~crossed /\ Mapped(upload) /\ isAllowed(upload.table) =>
        IF upload.table \notin DOMAIN Existing
        THEN /\ upload.createTable
             /\ upload.table[1] \in SafeNames => CanCreate(upload) /\ Fits(upload, NewColumns(upload))
        ELSE LET columns == Existing[upload.table] IN
             \/ upload.createTable
             \/ ~Distinct(NewNames(upload))
             \/ \E c \in ElementsOf(NewNames(upload)) : columns[c].generated
             \/ Fits(upload, columns)
=============================================================================
