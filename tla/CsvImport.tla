------------------------------ MODULE CsvImport ------------------------------
(***************************************************************************)
(* One attempt after another to put CSV files into tables: what            *)
(* CsvImportProcessor.prepare and process and ImportsService.execute do    *)
(* with the target tables, the COPY stream, the row errors and the         *)
(* counters of the import.  Imports models who runs them and when.         *)
(*                                                                         *)
(* An action is the completion of a statement or of one record of the      *)
(* stream.  The progress update is awaited by the meter behind the parser, *)
(* so the parser may fail while the update is on its way.                  *)
(***************************************************************************)
EXTENDS TargetTables

CONSTANTS
    Imports,
    Inputs,         \* what clients send, with the file
    Existing,       \* the tables there are: <<schema, name>> -> columns
    EmptyHeaders, LongHeaders, MaxColumns,
    LongTexts,      \* values too long for error_message when a message quotes them
    MaxRetries,     \* bound: retries
    MaxThrows       \* bound: calls that fail

ASSUME BoundsAssumption == MaxColumns \in Nat /\ MaxRetries \in Nat /\ MaxThrows \in Nat

\* A file that parses has headers and records.
ASSUME InputsAssumption ==
    \A input \in Inputs : input.headers \in Seq(STRING) /\ input.records \in Seq(Seq(Raw))

ASSUME ExistingAssumption == \A t \in DOMAIN Existing : \A c \in DOMAIN Existing[t] : Existing[t][c] \in Column

VARIABLES
    columns,    \* of the tables that exist
    trigger,    \* the tables that have their updated_at trigger
    contents,   \* the rows that imports have put into tables
    attempts,   \* what is done for each import
    rows,       \* data_imports: status and counters
    errors,     \* data_import_errors of each import
    update,     \* the progress update on its way, or Null
    failedLate, \* history: imports that have failed after a COPY was committed
    retries, throws

vars == <<columns, trigger, contents, attempts, rows, errors, update, failedLate, retries, throws>>

DoneStatuses == {"COMPLETED", "PARTIALLY_COMPLETED"}
Statuses == DoneStatuses \cup {"NONE", "VALIDATING", "QUEUED", "PROCESSING", "FAILED"}
Codes == {"IMPORT_VALIDATION_FAILED", "IMPORT_CONSTRAINT_VIOLATION", "IMPORT_COPY_FAILED"}

\* data_import_errors, without the texts
RowError == [attempt : Nat, line : Nat, field : Nat]

Row == [status : Statuses, percent : 0 .. 100, successful : Nat, failed : Nat,
        total : Nat, code : Codes \cup {Null}]
NewRow == [status |-> "NONE", percent |-> 0, successful |-> 0, failed |-> 0, total |-> 0, code |-> Null]

\* read: records parsed; sent: lines given to COPY; failing: errors so far
Attempt == [pc : {"idle", "headers", "exists", "create", "trigger", "metadata", "queued", "copy", "errors", "final"},
            number : Nat, input : Inputs \cup {Null}, read : Nat,
            sent : Seq([line : Nat, text : Seq(Field)]), failing : SUBSET RowError]
NoAttempt == [pc |-> "idle", number |-> 0, input |-> Null, read |-> 0, sent |-> <<>>, failing |-> {}]

TypeOK ==
    /\ \A t \in DOMAIN columns : \A c \in DOMAIN columns[t] : columns[t][c] \in Column
    /\ trigger \subseteq DOMAIN columns
    /\ attempts \in [Imports -> Attempt]
    /\ rows \in [Imports -> Row]
    /\ errors \in [Imports -> SUBSET RowError]
    /\ update \in [Imports -> 0 .. 99 \cup {Null}]
    /\ failedLate \subseteq Imports
    /\ retries \in Nat /\ throws \in Nat

Init ==
    /\ columns = Existing
    /\ trigger = {}
    /\ contents = {}
    /\ attempts = [i \in Imports |-> NoAttempt]
    /\ rows = [i \in Imports |-> NewRow]
    /\ errors = [i \in Imports |-> {}]
    /\ update = [i \in Imports |-> Null]
    /\ failedLate = {}
    /\ retries = 0
    /\ throws = 0

At(i, pc) == attempts[i].pc = pc
Goto(i, pc) == attempts' = [attempts EXCEPT ![i].pc = pc]
InputOf(i) == attempts[i].input
TargetsOf(i) == Targets(InputOf(i).headers, InputOf(i).mapping)
ColumnsOf(i) == columns[InputOf(i).table]

Schema == <<columns, trigger>>
Ghosts == <<failedLate, retries, throws>>

\* ImportsService.fail: the entity it saves has none of the progress.
Fails(i, code) ==
    /\ rows' = [rows EXCEPT ![i] = [NewRow EXCEPT !.status = "FAILED", !.code = code]]
    /\ Goto(i, "idle")

\* The rows of the attempt that fails stay in the table.
Late(i) == failedLate' = failedLate \cup {i}
-----------------------------------------------------------------------------
(* prepare                                                                 *)

Begin(i) ==
    /\ rows[i].status = "NONE"
    /\ \E input \in Inputs :
         attempts' = [attempts EXCEPT ![i] = [@ EXCEPT !.pc = "headers", !.number = 1, !.input = input]]
    /\ rows' = [rows EXCEPT ![i].status = "VALIDATING"]
    /\ UNCHANGED <<Schema, contents, errors, update, Ghosts>>

\* validateFile and readHeaders; only create() asks for a new table.
ReadHeaders(i) ==
    /\ At(i, "headers")
    /\ IF ValidHeaders(InputOf(i).headers, MaxColumns, EmptyHeaders, LongHeaders)
       THEN /\ Goto(i, IF InputOf(i).createTable /\ rows[i].status = "VALIDATING" THEN "exists" ELSE "metadata")
            /\ UNCHANGED rows
       ELSE Fails(i, "IMPORT_COPY_FAILED")
    /\ UNCHANGED <<Schema, contents, errors, update, Ghosts>>

\* tableExists
CheckTable(i) ==
    /\ At(i, "exists")
    /\ Goto(i, IF InputOf(i).table \in DOMAIN columns THEN "metadata" ELSE "create")
    /\ UNCHANGED <<Schema, contents, rows, errors, update, Ghosts>>

\* CREATE TABLE is refused when another import has been faster.
CanCreateNow(i) == CanCreate(InputOf(i)) /\ InputOf(i).table \notin DOMAIN columns

Creates(i) ==
    LET input == InputOf(i) IN
    /\ At(i, "create") /\ CanCreateNow(i)
    /\ columns' = [t \in DOMAIN columns \cup {input.table} |->
                     IF t \in DOMAIN columns THEN columns[t] ELSE NewColumns(input)]

CreateTable(i) ==
    /\ \/ Creates(i) /\ Goto(i, IF WantsTrigger(InputOf(i)) THEN "trigger" ELSE "metadata") /\ UNCHANGED rows
       \/ At(i, "create") /\ ~CanCreateNow(i) /\ Fails(i, "IMPORT_COPY_FAILED") /\ UNCHANGED columns
    /\ UNCHANGED <<trigger, contents, errors, update, Ghosts>>

\* A statement of its own, in no transaction.
CreatesTrigger(i) == At(i, "trigger") /\ trigger' = trigger \cup {InputOf(i).table}

CreateTrigger(i) ==
    /\ CreatesTrigger(i)
    /\ Goto(i, "metadata")
    /\ UNCHANGED <<columns, contents, rows, errors, update, Ghosts>>

Prepared(input) == input.table \in DOMAIN columns /\ Fits(input, columns[input.table])

\* getTable and the mapping; then the import is queued, or loaded at once.
Prepare(i) ==
    LET queues == InputOf(i).large /\ rows[i].status = "VALIDATING" IN
    /\ At(i, "metadata")
    /\ IF Prepared(InputOf(i))
       THEN /\ Goto(i, IF queues THEN "queued" ELSE "copy")
            /\ rows' = [rows EXCEPT ![i].status = IF queues THEN "QUEUED" ELSE "PROCESSING"]
       ELSE Fails(i, "IMPORT_COPY_FAILED")
    /\ UNCHANGED <<Schema, contents, errors, update, Ghosts>>

\* processQueued: the claim, and the row read after it
ProcessQueued(i) ==
    /\ At(i, "queued")
    /\ Goto(i, "headers")
    /\ rows' = [rows EXCEPT ![i].status = "PROCESSING"]
    /\ UNCHANGED <<Schema, contents, errors, update, Ghosts>>

Retried(i) ==
    /\ retries < MaxRetries
    /\ retries' = retries + 1
    /\ rows' = [rows EXCEPT ![i] = [NewRow EXCEPT !.status = "QUEUED"]]
    /\ attempts' = [attempts EXCEPT ![i] = [NoAttempt EXCEPT !.pc = "queued", !.input = InputOf(i),
                                                             !.number = attempts[i].number + 1]]
    /\ UNCHANGED <<Schema, contents, errors, update, failedLate, throws>>

\* Mutant: an import whose rows were partly refused may be retried.
RetryPartly(i) == rows[i].status \in {"FAILED", "PARTIALLY_COMPLETED"} /\ At(i, "idle") /\ Retried(i)

Retry(i) == rows[i].status = "FAILED" /\ At(i, "idle") /\ Retried(i)
-----------------------------------------------------------------------------
(* process and execute                                                     *)

Strict(i) == InputOf(i).mode = "STRICT"
RecordsOf(i) == InputOf(i).records
Failing(i, line) == FailingFields(RecordsOf(i)[line], TargetsOf(i), ColumnsOf(i), InputOf(i).options)

\* The parser refuses a record of another width than the header.
Malformed(i, line) == Len(RecordsOf(i)[line]) # Len(InputOf(i).headers)

\* Mutant: a strict import skips its bad rows too.
AbortsIfMalformed(i, line) == Malformed(i, line)

\* onInvalidRow throws in strict mode.
Aborts(i, line) == Malformed(i, line) \/ (Strict(i) /\ Failing(i, line) # {})

\* The attempt when it has skipped the record, with an error for each bad field,
Skipped(i, line) ==
    [attempts[i] EXCEPT !.read = line,
                        !.failing = @ \cup {[attempt |-> attempts[i].number, line |-> line, field |-> k]
                                              : k \in Failing(i, line)}]

\* or sent its line
Sent(i, line) ==
    [attempts[i] EXCEPT !.read = line,
                        !.sent = Append(@, [line |-> line,
                                   text |-> toCopyLine(Transformed(RecordsOf(i)[line], TargetsOf(i),
                                                                   ColumnsOf(i), InputOf(i).options))])]

\* generate: one record of the file
Stream(i) ==
    LET line == attempts[i].read + 1 IN
    /\ At(i, "copy") /\ line <= Len(RecordsOf(i))
    /\ IF Aborts(i, line)
       THEN Fails(i, IF Malformed(i, line) THEN "IMPORT_COPY_FAILED" ELSE "IMPORT_VALIDATION_FAILED")
       ELSE /\ attempts' = [attempts EXCEPT ![i] =
                              IF Failing(i, line) # {} THEN Skipped(i, line) ELSE Sent(i, line)]
            /\ UNCHANGED rows
    /\ UNCHANGED <<Schema, contents, errors, update, Ghosts>>

\* Mutant: the last chunk is 100 percent.
percentUncapped(sent, total) == (sent * 100) \div total

\* progress: bytes of the output over bytes of the file, here in lines
percent(sent, total) == IF sent < total THEN (sent * 100) \div total ELSE 99

\* The meter sends an update; it holds the next chunk back until it is done.
SendProgress(i) ==
    /\ At(i, "copy") /\ attempts[i].sent # <<>> /\ update[i] = Null
    /\ update' = [update EXCEPT ![i] = percent(Len(attempts[i].sent), Len(RecordsOf(i)))]
    /\ UNCHANGED <<Schema, contents, attempts, rows, errors, Ghosts>>

\* Mutant: the update does not ask for the status.
ProgressLandsAnyhow(i) ==
    /\ update[i] # Null
    /\ rows' = [rows EXCEPT ![i].percent = update[i]]
    /\ update' = [update EXCEPT ![i] = Null]
    /\ UNCHANGED <<Schema, contents, attempts, errors, Ghosts>>

ProgressLands(i) ==
    /\ update[i] # Null
    /\ rows' = IF rows[i].status = "PROCESSING" THEN [rows EXCEPT ![i].percent = update[i]] ELSE rows
    /\ update' = [update EXCEPT ![i] = Null]
    /\ UNCHANGED <<Schema, contents, attempts, errors, Ghosts>>

\* The lines PostgreSQL reads: those before the end of the data.
Lines(i) == {attempts[i].sent[n] : n \in {n \in DOMAIN attempts[i].sent :
                                           \A m \in 1 .. n : ~EndOfData(attempts[i].sent[m].text)}}
Refused(i, text) == ~PgReads(text) \/ ~PgStores(PgRow(text), TargetsOf(i), ColumnsOf(i))

\* PostgreSQL refuses a line and the transaction is rolled back (errorDetails).
CopyRefused(i) ==
    /\ At(i, "copy")
    /\ \E l \in Lines(i) :
         /\ Refused(i, l.text)
         /\ Fails(i, IF PgReads(l.text) /\ Null \in ElementsOf(PgRow(l.text))
                     THEN "IMPORT_CONSTRAINT_VIOLATION" ELSE "IMPORT_COPY_FAILED")
    /\ UNCHANGED <<Schema, contents, errors, update, Ghosts>>

ByColumn(i, row) == [c \in ElementsOf(TargetsOf(i)) |-> row[CHOOSE k \in DOMAIN row : TargetsOf(i)[k] = c]]

Commits(i) ==
    /\ At(i, "copy") /\ attempts[i].read = Len(RecordsOf(i)) /\ update[i] = Null
    /\ \A l \in Lines(i) : ~Refused(i, l.text)
    /\ contents' = contents \cup {[imp |-> i, attempt |-> attempts[i].number, line |-> l.line,
                                   row |-> ByColumn(i, PgRow(l.text))] : l \in Lines(i)}

Commit(i) ==
    /\ Commits(i)
    /\ Goto(i, IF attempts[i].failing # {} THEN "errors" ELSE "final")
    /\ UNCHANGED <<Schema, rows, errors, update, Ghosts>>

\* A message that quotes a long value is longer than its column.
TooLong(i, e) ==
    /\ RecordsOf(i)[e.line][e.field] \in LongTexts
    /\ ColumnsOf(i)[TargetsOf(i)[e.field]].type \in QuotingTypes

\* After COPY, all of them in one transaction.
SavesErrors(i) ==
    /\ At(i, "errors") /\ \A e \in attempts[i].failing : ~TooLong(i, e)
    /\ errors' = [errors EXCEPT ![i] = @ \cup attempts[i].failing]

SaveErrors(i) ==
    /\ SavesErrors(i)
    /\ Goto(i, "final")
    /\ UNCHANGED <<Schema, contents, rows, update, Ghosts>>

\* One that is too long refuses them all.
ErrorsRefused(i) ==
    /\ At(i, "errors") /\ \E e \in attempts[i].failing : TooLong(i, e)
    /\ Fails(i, "IMPORT_COPY_FAILED") /\ Late(i)
    /\ UNCHANGED <<Schema, contents, errors, update, retries, throws>>

\* Counts errors, not the rows that have them.
Finish(i) ==
    LET rowCount == Cardinality(Lines(i))
        rowErrors == Cardinality(attempts[i].failing) IN
    /\ At(i, "final")
    /\ rows' = [rows EXCEPT ![i] =
                  [status |-> IF rowErrors > 0 THEN "PARTIALLY_COMPLETED" ELSE "COMPLETED", percent |-> 100,
                   successful |-> rowCount, failed |-> rowErrors, total |-> rowCount + rowErrors, code |-> Null]]
    /\ Goto(i, "idle")
    /\ UNCHANGED <<Schema, contents, errors, update, Ghosts>>

\* A call throws and has had no effect.  When it is the last save, the entity in
\* memory is done already, fail gives up and the row stays PROCESSING.
Throws(i) ==
    /\ throws < MaxThrows /\ attempts[i].pc \notin {"idle", "queued"}
    /\ throws' = throws + 1
    /\ IF At(i, "final") THEN Goto(i, "idle") /\ UNCHANGED rows ELSE Fails(i, "IMPORT_COPY_FAILED")
    /\ IF At(i, "errors") THEN Late(i) ELSE UNCHANGED failedLate
    /\ UNCHANGED <<Schema, contents, errors, update, retries>>

\* Or it has had its effect, but the answer is lost and it throws all the same.
\* (When it is the last save, the import is as good as finished.)
AnswerLost(i) ==
    /\ throws < MaxThrows
    /\ throws' = throws + 1
    /\ \/ Creates(i) /\ UNCHANGED <<trigger, contents, errors, failedLate>>
       \/ CreatesTrigger(i) /\ UNCHANGED <<columns, contents, errors, failedLate>>
       \/ Commits(i) /\ Late(i) /\ UNCHANGED <<Schema, errors>>
       \/ SavesErrors(i) /\ Late(i) /\ UNCHANGED <<Schema, contents>>
    /\ Fails(i, "IMPORT_COPY_FAILED")
    /\ UNCHANGED <<update, retries>>

Next ==
    \E i \in Imports :
        \/ Begin(i) \/ ReadHeaders(i) \/ CheckTable(i) \/ CreateTable(i) \/ CreateTrigger(i)
        \/ Prepare(i) \/ ProcessQueued(i) \/ Retry(i)
        \/ Stream(i) \/ SendProgress(i) \/ ProgressLands(i) \/ CopyRefused(i) \/ Commit(i)
        \/ SaveErrors(i) \/ ErrorsRefused(i) \/ Finish(i) \/ Throws(i) \/ AnswerLost(i)

Spec == Init /\ [][Next]_vars
-----------------------------------------------------------------------------
(* Properties                                                              *)

\* The rows an import has put into its table, in all of its attempts
Put(i) == {c \in contents : c.imp = i}
LinesPut(i) == {c.line : c \in Put(i)}
AllLines(i) == DOMAIN RecordsOf(i)

\* The value a column gets from a record, found by the name of its header.
CellOf(i, line, c) ==
    LET h == InputOf(i).headers
        k == CHOOSE k \in DOMAIN h : Target(InputOf(i).mapping, h[k]) = c IN
    transformValue(RecordsOf(i)[line][k], ColumnsOf(i)[c], InputOf(i).options)

Marked(i) == Len(InputOf(i).headers) = 1 /\ \E line \in AllLines(i) : RecordsOf(i)[line] = <<"\\.">>

\* What an import shown as done has put into its table, in all of its attempts,
\* is its file: the rows of exactly the records whose cells all convert, with the
\* converted cells under the columns they are mapped to, however the text was
\* quoted for COPY, and each row once, unless an attempt has failed after its COPY
\* was committed.  (Not for a file of one column with a line \., which ends COPY's
\* data.)
TableHasTheFile ==
    \A i \in Imports : rows[i].status \in DoneStatuses /\ ~Marked(i) =>
        /\ LinesPut(i) = {line \in AllLines(i) : Failing(i, line) = {}}
        /\ \A c \in Put(i) : \A name \in DOMAIN c.row : {c.row[name]} = CellOf(i, c.line, name)
        /\ i \notin failedLate => \A c, d \in Put(i) : c.line = d.line => c = d

\* The rows that a partly completed import has skipped are those its error list
\* names, whatever failed before, and the errors of two attempts mix only when
\* one has failed after its COPY was committed: no other failure leaves errors,
\* and an import that has kept some is not retried.
SkippedAreReported ==
    \A i \in Imports :
        /\ rows[i].status = "PARTIALLY_COMPLETED" /\ ~Marked(i) =>
             {e.line : e \in errors[i]} = AllLines(i) \ LinesPut(i)
        /\ i \notin failedLate => \A e \in errors[i] : e.attempt = attempts[i].number

\* Each attempt at a strict import has put its whole file into the table, or
\* nothing (generate throws at the first bad row and COPY is rolled back); and
\* only an import that failed after its COPY was committed is FAILED with rows.
StrictIsAllOrNothing ==
    \A i \in Imports : \A c \in Put(i) : Strict(i) =>
        /\ ~Marked(i) => {d.line : d \in {d \in Put(i) : d.attempt = c.attempt}} = AllLines(i)
        /\ rows[i].status = "FAILED" => i \in failedLate

\* A progress update that lands late does not touch an import that is over;
\* only a retry changes it.
FinalIsKept ==
    [][\A i \in Imports :
          rows[i].status \in DoneStatuses \cup {"FAILED"} /\ rows'[i] # rows[i]
          => rows[i].status = "FAILED" /\ rows'[i].status = "QUEUED"]_vars

\* A new table that has a maintained updated_at has its trigger, or is about to
\* get it, unless a call has failed between the two statements.
TriggerFollows ==
    throws = 0 =>
        \A t \in DOMAIN columns \ DOMAIN Existing :
            /\ "updated_at" \in DOMAIN columns[t]
            /\ columns[t]["updated_at"].type = "timestamp with time zone"
            => t \in trigger \/ \E i \in Imports : At(i, "trigger") /\ InputOf(i).table = t
-----------------------------------------------------------------------------
(* What the documents say and the code does not do.                        *)

\* "a FAILED row is, by construction, always at zero committed rows"
\* (hardening design, section 2): the row errors are saved after COPY, and one
\* that does not fit its column fails the import with its rows in the table.
FailedHasNoRows == \A i \in Imports : rows[i].status = "FAILED" => Put(i) = {}
=============================================================================
