--------------------------- MODULE CsvImport_proofs ---------------------------
(***************************************************************************)
(* Proofs about CsvImport, for every number of imports, all inputs and     *)
(* tables, and any number of retries and of calls that throw.              *)
(***************************************************************************)
EXTENDS CsvImport, FiniteSetTheorems, FunctionTheorems, TLAPS

USE BoundsAssumption, NullAssumption DEF At, InputOf, RecordsOf, ColumnsOf

\* What a cell can be converted to.
Value == Text \cup {Null}
-----------------------------------------------------------------------------
(* Cells, records and lines.                                               *)

\* A conversion that succeeds gives one text, and never the one that ends the data.
Converter(accepted) == \A r \in DOMAIN accepted : accepted[r] \in Text /\ accepted[r] # "\\."

\* So what is converted is one text that does not end the data.
LEMMA Converted ==
    ASSUME NEW accepted, Converter(accepted), NEW raw, NEW v \in Convert(accepted, raw)
    PROVE  v \in Text /\ v # "\\." /\ Convert(accepted, raw) = {v}
BY DEF Convert, Fail, Converter

\* The transformers make texts.
LEMMA Transformers ==
    /\ Converter(integers) /\ Converter(numerics) /\ Converter(booleans) /\ Converter(timestamps)
    /\ Converter(uuids) /\ Converter(jsons) /\ Converter(arrays)
    /\ \A format \in DateFormats : Converter(dates[format])
<1>1. Converter(integers)
  BY DEF Converter, integers, Text, Raw
<1>2. Converter(numerics)
  BY DEF Converter, numerics, Text, Raw
<1>3. Converter(booleans)
  BY DEF Converter, booleans, Text
<1>4. Converter(timestamps)
  BY DEF Converter, timestamps, Text, Raw
<1>5. Converter(uuids)
  BY DEF Converter, uuids, Text
<1>6. Converter(jsons)
  BY DEF Converter, jsons, Text, Raw, integers
<1>7. Converter(arrays)
  <2>1. \A r \in DOMAIN arrays : arrays[r] \in Text
    BY DEF Text, ArrayTexts
  <2>2. \A r \in DOMAIN arrays : arrays[r] # "\\."
    BY DEF arrays
  <2> QED
    BY <2>1, <2>2 DEF Converter
<1>8. ASSUME NEW format \in DateFormats
      PROVE  Converter(dates[format])
  BY DEF Converter, dates, DateFormats, Text, Raw
<1> QED
  BY <1>1, <1>2, <1>3, <1>4, <1>5, <1>6, <1>7, <1>8

\* A conversion has at most one value, a text or null, and only the marker of
\* COPY's end of data is converted to it.
LEMMA Values ==
    ASSUME NEW raw \in Raw, NEW column \in Column, NEW options,
           NEW v \in transformValue(raw, column, options)
    PROVE  /\ v \in Value
           /\ v = "\\." => raw = "\\."
           /\ transformValue(raw, column, options) = {v}
<1>1. raw \in Text
  BY DEF Text
<1>2. CASE isNullToken(raw)
  <2>1. v = Null /\ transformValue(raw, column, options) = {v}
    BY <1>2 DEF transformValue, Fail
  <2>2. Null # "\\."
    BY DEF Text, Raw
  <2> QED
    BY <2>1, <2>2 DEF Value
<1>3. CASE ~isNullToken(raw)
  <2> DEFINE S == transformValue(raw, column, options)
  <2>1. \/ S = {raw} \/ S = {} \/ S = {raw} \ column.tooLong
        \/ S = Convert(integers, raw) \/ S = Convert(numerics, raw) \/ S = Convert(booleans, raw)
        \/ options.dateFormat \in DateFormats /\ S = Convert(dates[options.dateFormat], raw)
        \/ S = Convert(timestamps, raw)
        \/ S = Convert(uuids, raw) \/ S = Convert(jsons, raw) \/ S = Convert(arrays, raw)
    BY <1>3 DEF transformValue, transformText, Fail, INTEGER_TYPES, NUMERIC_TYPES, TEXT_TYPES, TIMESTAMP_TYPES
  <2>2. ASSUME S = {raw} \/ S = {} \/ S = {raw} \ column.tooLong
        PROVE  v = raw /\ S = {v}
    BY <2>2
  <2>3. ASSUME NEW accepted, Converter(accepted), S = Convert(accepted, raw)
        PROVE  v \in Value /\ v # "\\." /\ S = {v}
    BY <2>3, Converted DEF Value
  <2> HIDE DEF S
  <2>4. v \in Value /\ (v = "\\." => raw = "\\.") /\ S = {v}
    BY <1>1, <2>1, <2>2, <2>3, Transformers DEF Value
  <2> QED
    BY <2>4 DEF S
<1> QED
  BY <1>2, <1>3

\* Two cells of a sequence of distinct names are not equal.
LEMMA DistinctAt ==
    ASSUME NEW S, NEW s \in Seq(S), Distinct(s), NEW j \in DOMAIN s, NEW k \in DOMAIN s, s[j] = s[k]
    PROVE  j = k
<1>1. IsFiniteSet(DOMAIN s) /\ Cardinality(DOMAIN s) = Len(s)
  <2>1. DOMAIN s = 1 .. Len(s) /\ Len(s) \in Nat
    OBVIOUS
  <2>2. \A n \in Nat : IsFiniteSet(1 .. n) /\ Cardinality(1 .. n) = n
    BY FS_Interval
  <2> QED
    BY <2>1, <2>2
<1>2. s \in Surjection(DOMAIN s, ElementsOf(s))
  BY DEF Surjection, ElementsOf
<1>3. s \in Injection(DOMAIN s, ElementsOf(s))
  BY <1>1, <1>2, FS_Surjection DEF Distinct
<1> QED
  BY <1>3 DEF Injection, IsInjective

\* What PostgreSQL reads of a field is the value that was written.
LEMMA FieldRoundTrip ==
    ASSUME NEW v \in Value
    PROVE  /\ escapeCsvField(v) \in Field
           /\ PgField(escapeCsvField(v)) = v
           /\ escapeCsvField(v) = Bare("\\.") => v = "\\."
<1>1. CASE v = Null
  <2>0. Null # "" /\ Null \notin Special
    BY DEF Text, Raw, NullTokens, Special, numerics
  <2>1. "" \in Text /\ "\\." # ""
    BY DEF Text, Raw, NullTokens
  <2> QED
    BY <1>1, <2>0, <2>1 DEF escapeCsvField, PgField, Field, Bare, Quoted
<1>2. CASE v # Null /\ (v = "" \/ v \in Special)
  BY <1>2 DEF escapeCsvField, PgField, Field, Bare, Quoted, Value
<1>3. CASE v # Null /\ ~(v = "" \/ v \in Special)
  BY <1>3 DEF escapeCsvField, PgField, Field, Bare, Quoted, Value
<1> QED
  BY <1>1, <1>2, <1>3

\* And so is a row, and a line ends the data only if it has one field, the marker.
LEMMA LineRoundTrip ==
    ASSUME NEW n \in Nat, NEW row \in [1 .. n -> Value]
    PROVE  /\ toCopyLine(row) \in Seq(Field)
           /\ PgRow(toCopyLine(row)) = row
           /\ EndOfData(toCopyLine(row)) => n = 1 /\ row[1] = "\\."
<1>1. toCopyLine(row) = [k \in 1 .. n |-> escapeCsvField(row[k])]
  BY DEF toCopyLine
<1>2. \A k \in 1 .. n : escapeCsvField(row[k]) \in Field /\ PgField(escapeCsvField(row[k])) = row[k]
  BY FieldRoundTrip
<1>3. toCopyLine(row) \in Seq(Field) /\ Len(toCopyLine(row)) = n
  BY <1>1, <1>2
<1>4. PgRow(toCopyLine(row)) = row
  BY <1>1, <1>2 DEF PgRow
<1>5. ASSUME EndOfData(toCopyLine(row))
      PROVE  n = 1 /\ row[1] = "\\."
  <2>1. toCopyLine(row) = <<Bare("\\.")>>
    BY <1>5 DEF EndOfData
  <2>2. n = 1
    BY <1>3, <2>1
  <2>3. escapeCsvField(row[1]) = Bare("\\.")
    BY <1>1, <2>1, <2>2
  <2> QED
    BY <2>2, <2>3, FieldRoundTrip
<1> QED
  BY <1>3, <1>4, <1>5
-----------------------------------------------------------------------------
(* The inductive invariant.  What an attempt has made of the file depends  *)
(* on its input and on the columns of its table, which never change.       *)

TargetsIn(input) == Targets(input.headers, input.mapping)
BadWidth(input, line) == Len(input.records[line]) # Len(input.headers)
FailingIn(input, cols, line) == FailingFields(input.records[line], TargetsIn(input), cols, input.options)
RowIn(input, cols, line) == Transformed(input.records[line], TargetsIn(input), cols, input.options)
LineIn(input, cols, line) == [line |-> line, text |-> toCopyLine(RowIn(input, cols, line))]
Under(input, row) ==
    [c \in ElementsOf(TargetsIn(input)) |-> row[CHOOSE k \in DOMAIN row : TargetsIn(input)[k] = c]]

\* The records read are good, or skipped with their errors; each good one is sent.
ReadOK(input, cols, number, read, sent, failing) ==
    /\ read <= Len(input.records)
    /\ \A line \in 1 .. read :
         /\ ~BadWidth(input, line)
         /\ input.mode = "STRICT" => FailingIn(input, cols, line) = {}
         /\ FailingIn(input, cols, line) = {} => \E n \in DOMAIN sent : sent[n].line = line
    /\ \A n \in DOMAIN sent :
         /\ sent[n].line \in 1 .. read /\ FailingIn(input, cols, sent[n].line) = {}
         /\ sent[n] = LineIn(input, cols, sent[n].line)
    /\ \A e \in failing : e.attempt = number /\ e.line \in 1 .. read /\ e.field \in FailingIn(input, cols, e.line)
    /\ \A line \in 1 .. read : \A k \in FailingIn(input, cols, line) :
         [attempt |-> number, line |-> line, field |-> k] \in failing

\* A row in a table is the row of a good record of the file.
RowOK(c, input, cols) ==
    /\ c.line \in DOMAIN input.records
    /\ ~BadWidth(input, c.line) /\ FailingIn(input, cols, c.line) = {}
    /\ c = [imp |-> c.imp, attempt |-> c.attempt, line |-> c.line,
             row |-> Under(input, RowIn(input, cols, c.line))]

Preparing == {"headers", "exists", "create", "trigger", "metadata"}
Loading == {"copy", "errors", "final"}
Over(i) == At(i, "idle") /\ rows[i].status \in DoneStatuses \cup {"PROCESSING"}
AfterCommit(i) == At(i, "errors") \/ At(i, "final") \/ Over(i)
AfterErrors(i) == At(i, "final") \/ Over(i)

StageOK(i) ==
    /\ attempts[i].pc \in Preparing => rows[i].status \in {"VALIDATING", "PROCESSING"}
    /\ At(i, "queued") => rows[i].status = "QUEUED"
    /\ attempts[i].pc \in Loading => rows[i].status = "PROCESSING"
    /\ At(i, "idle") => rows[i].status \in DoneStatuses \cup {"PROCESSING", "NONE", "FAILED"}
    /\ IF rows[i].status = "NONE" THEN attempts[i] = NoAttempt ELSE InputOf(i) \in Inputs

ProgressOK(i) ==
    /\ attempts[i].pc \in Preparing \cup {"queued"} => attempts[i].read = 0
    /\ At(i, "trigger") => InputOf(i).table \in DOMAIN columns
    /\ attempts[i].pc \in Loading \/ attempts[i].read # 0 => Prepared(InputOf(i))
    /\ IF attempts[i].read = 0
       THEN attempts[i].sent = <<>> /\ attempts[i].failing = {}
       ELSE ReadOK(InputOf(i), ColumnsOf(i), attempts[i].number, attempts[i].read,
                   attempts[i].sent, attempts[i].failing)

PutBy(i) == {c \in contents : c.imp = i}

MarkedIn(input) == Len(input.headers) = 1 /\ \E line \in DOMAIN input.records : input.records[line] = <<"\\.">>

\* An attempt has put every good record into the table, ...
Whole(i, input, cols, number) ==
    ~MarkedIn(input) => \A line \in DOMAIN input.records : FailingIn(input, cols, line) = {} =>
                     \E c \in PutBy(i) : c.attempt = number /\ c.line = line

\* ... which is every record if the import is strict.
AllGood(input, cols) ==
    input.mode = "STRICT" => \A line \in DOMAIN input.records : FailingIn(input, cols, line) = {}

\* Rows of another attempt than the last, or of one that failed, are of imports
\* that have failed late.
ContentsOK(i) ==
    /\ \A c \in PutBy(i) :
         /\ rows[i].status # "NONE" /\ c.attempt \in 0 .. attempts[i].number
         /\ c.attempt = attempts[i].number => attempts[i].pc \in {"errors", "final", "idle"}
         /\ Prepared(InputOf(i)) /\ RowOK(c, InputOf(i), ColumnsOf(i)) /\ AllGood(InputOf(i), ColumnsOf(i))
         /\ Whole(i, InputOf(i), ColumnsOf(i), c.attempt)
         /\ i \notin failedLate => AfterCommit(i) /\ c.attempt = attempts[i].number
    /\ AfterCommit(i) =>
         /\ attempts[i].read = Len(RecordsOf(i)) /\ Prepared(InputOf(i))
         /\ Whole(i, InputOf(i), ColumnsOf(i), attempts[i].number)

\* So are the errors of another attempt, but all are errors of the file.
ErrorsOK(i) ==
    /\ AfterErrors(i) => attempts[i].failing \subseteq errors[i]
    /\ i \notin failedLate => errors[i] = IF AfterErrors(i) THEN attempts[i].failing ELSE {}
    /\ \A e \in errors[i] :
         /\ rows[i].status # "NONE" /\ Prepared(InputOf(i))
         /\ e.line \in DOMAIN RecordsOf(i) /\ e.field \in FailingIn(InputOf(i), ColumnsOf(i), e.line)

ImportOK(i) == StageOK(i) /\ ProgressOK(i) /\ ContentsOK(i) /\ ErrorsOK(i)

IInv ==
    /\ TypeOK
    /\ DOMAIN Existing \subseteq DOMAIN columns
    /\ \A i \in Imports : ImportOK(i)

\* The columns that tables have stay.
ColumnsKept == \A t \in DOMAIN columns : t \in DOMAIN columns' /\ columns'[t] = columns[t]
-----------------------------------------------------------------------------
(* Tables and rows.                                                        *)

\* An import that is prepared puts each field into a column of its own.
LEMMA PreparedTable ==
    ASSUME TypeOK, NEW input \in Inputs, Prepared(input)
    PROVE  LET cols == columns[input.table]
               targets == TargetsIn(input)
               n == Len(input.headers) IN
           /\ n \in Nat /\ DOMAIN targets = 1 .. n
           /\ targets \in Seq(ElementsOf(targets)) /\ Distinct(targets)
           /\ \A k \in 1 .. n : cols[targets[k]] \in Column
<1> DEFINE targets == TargetsIn(input)
           n == Len(input.headers)
<1>1. input.headers \in Seq(STRING)
  BY InputsAssumption
<1>2. n \in Nat /\ DOMAIN input.headers = 1 .. n
  BY <1>1
<1>3. targets = [k \in 1 .. n |-> Target(input.mapping, input.headers[k])]
  BY <1>2 DEF TargetsIn, Targets
<1>4. \A k \in 1 .. n : targets[k] \in ElementsOf(targets)
  BY <1>3 DEF ElementsOf
<1>5. targets \in Seq(ElementsOf(targets))
  <2>1. targets \in [1 .. n -> ElementsOf(targets)]
    BY <1>3, <1>4
  <2> HIDE DEF targets, n
  <2> QED
    BY <1>2, <2>1
<1>6. input.table \in DOMAIN columns /\ ValidMapping(input.headers, input.mapping, columns[input.table])
  BY DEF Prepared, Fits
<1>7. Distinct(targets) /\ \A c \in ElementsOf(targets) : c \in DOMAIN columns[input.table]
  BY <1>6 DEF ValidMapping, TargetsIn
<1>8. \A c \in DOMAIN columns[input.table] : columns[input.table][c] \in Column
  BY <1>6 DEF TypeOK
<1> QED
  BY <1>2, <1>3, <1>4, <1>5, <1>7, <1>8

\* A good record becomes a row of values and a line that PostgreSQL reads back
\* as that row; only the record \. ends the data.
LEMMA GoodRow ==
    ASSUME TypeOK, NEW input \in Inputs, Prepared(input), NEW line \in DOMAIN input.records,
           ~BadWidth(input, line), FailingIn(input, columns[input.table], line) = {}
    PROVE  LET cols == columns[input.table]
               targets == TargetsIn(input)
               n == Len(input.headers)
               row == RowIn(input, cols, line) IN
           /\ row \in [1 .. n -> Value]
           /\ \A k \in 1 .. n : transformValue(input.records[line][k], cols[targets[k]], input.options) = {row[k]}
           /\ toCopyLine(row) \in Seq(Field) /\ PgRow(toCopyLine(row)) = row
           /\ EndOfData(toCopyLine(row)) => n = 1 /\ input.records[line] = <<"\\.">>
<1> DEFINE cols == columns[input.table]
           targets == TargetsIn(input)
           n == Len(input.headers)
           record == input.records[line]
           options == input.options
<1>1. /\ n \in Nat /\ DOMAIN targets = 1 .. n
      /\ \A k \in 1 .. n : cols[targets[k]] \in Column
  BY PreparedTable
<1>2. record \in Seq(Raw) /\ Len(record) = n
  <2>1. input.records \in Seq(Seq(Raw))
    BY InputsAssumption
  <2> QED
    BY <2>1 DEF BadWidth
<1>3. FailingFields(record, targets, cols, options) = {}
  BY DEF FailingIn
<1>4. RowIn(input, cols, line) = Transformed(record, targets, cols, options)
  BY DEF RowIn
<1> DEFINE row == Transformed(record, targets, cols, options)
           V(k) == transformValue(record[k], cols[targets[k]], options)
<1> HIDE DEF cols, targets, n, record, options
<1>6. /\ row \in [1 .. n -> Value]
      /\ \A k \in 1 .. n : V(k) = {row[k]}
      /\ EndOfData(toCopyLine(row)) => n = 1 /\ record = <<"\\.">>
  <2>1. row = [k \in 1 .. n |-> CHOOSE v \in V(k) : TRUE]
    BY <1>1 DEF Transformed
  <2>2. ASSUME NEW k \in 1 .. n
        PROVE  row[k] \in Value /\ V(k) = {row[k]} /\ (row[k] = "\\." => record[k] = "\\.")
    <3>1. V(k) # {}
      BY <1>1, <1>3 DEF FailingFields, Fail
    <3>2. row[k] \in V(k)
      BY <2>1, <3>1
    <3>3. record[k] \in Raw /\ cols[targets[k]] \in Column
      BY <1>1, <1>2
    <3> QED
      BY <3>2, <3>3, Values
  <2>3. row \in [1 .. n -> Value]
    BY <2>1, <2>2
  <2>4. EndOfData(toCopyLine(row)) => n = 1 /\ record = <<"\\.">>
    BY <1>1, <1>2, <2>2, <2>3, LineRoundTrip
  <2> QED
    BY <2>2, <2>3, <2>4
<1>7. toCopyLine(row) \in Seq(Field) /\ PgRow(toCopyLine(row)) = row
  BY <1>1, <1>6, LineRoundTrip
<1> QED
  BY <1>4, <1>6, <1>7 DEF cols, targets, n, record, row, options, V

-----------------------------------------------------------------------------
(* Steps that leave what an import has read and put into its table.        *)

\* A prepared import stays prepared: nothing changes the columns of a table.
LEMMA PreparedKept ==
    ASSUME NEW input, ColumnsKept, Prepared(input)
    PROVE  Prepared(input)' /\ columns'[input.table] = columns[input.table]
BY DEF ColumnsKept, Prepared

\* Nor is anything taken out of a table.
LEMMA WholeKept ==
    ASSUME NEW i \in Imports, PutBy(i) \subseteq PutBy(i)', NEW input, NEW cols, NEW number,
           Whole(i, input, cols, number)
    PROVE  Whole(i, input, cols, number)'
BY DEF Whole

\* The errors there are stay errors of the file.
LEMMA ErrorsIn ==
    ASSUME NEW i \in Imports, ImportOK(i), ColumnsKept, attempts'[i].input = attempts[i].input,
           rows[i].status # "NONE" => rows'[i].status # "NONE", NEW e \in errors[i]
    PROVE  /\ rows'[i].status # "NONE" /\ Prepared(InputOf(i))'
           /\ e.line \in DOMAIN RecordsOf(i)' /\ e.field \in FailingIn(InputOf(i)', ColumnsOf(i)', e.line)
<1> PICK input : input = attempts[i].input
  OBVIOUS
<1>1. /\ rows[i].status # "NONE" /\ Prepared(input) /\ e.line \in DOMAIN input.records
      /\ e.field \in FailingIn(input, columns[input.table], e.line)
  BY DEF ImportOK, ErrorsOK
<1>2. Prepared(input)' /\ columns'[input.table] = columns[input.table]
  BY <1>1, PreparedKept
<1> QED
  BY <1>1, <1>2

\* So a step keeps what is known of them, if it changes neither them nor their place.
LEMMA ErrorsKept ==
    ASSUME NEW i \in Imports, ImportOK(i), ColumnsKept, errors'[i] = errors[i],
           attempts'[i].input = attempts[i].input, rows[i].status # "NONE" => rows'[i].status # "NONE",
           i \in failedLate => i \in failedLate',
           AfterErrors(i)' => AfterErrors(i) /\ attempts'[i].failing = attempts[i].failing,
           AfterErrors(i) => AfterErrors(i)'
    PROVE  ErrorsOK(i)'
<1>1. \A e \in errors[i] :
        /\ rows'[i].status # "NONE" /\ Prepared(InputOf(i))'
        /\ e.line \in DOMAIN RecordsOf(i)' /\ e.field \in FailingIn(InputOf(i)', ColumnsOf(i)', e.line)
  BY ErrorsIn
<1>2. /\ AfterErrors(i) => attempts[i].failing \subseteq errors[i]
      /\ i \notin failedLate => errors[i] = IF AfterErrors(i) THEN attempts[i].failing ELSE {}
  BY DEF ImportOK, ErrorsOK
<1> QED
  BY <1>1, <1>2 DEF ErrorsOK

\* What is known of the records read.
LEMMA ProgressKept ==
    ASSUME NEW i \in Imports, ImportOK(i), ColumnsKept,
           attempts'[i].input = attempts[i].input, attempts'[i].number = attempts[i].number,
           attempts'[i].read = attempts[i].read, attempts'[i].sent = attempts[i].sent,
           attempts'[i].failing = attempts[i].failing,
           attempts'[i].pc = "trigger" => attempts[i].input.table \in DOMAIN columns',
           attempts'[i].pc \in Loading => Prepared(attempts[i].input),
           attempts'[i].pc \in Preparing \cup {"queued"} => attempts[i].read = 0
    PROVE  ProgressOK(i)'
<1> PICK input : input = attempts[i].input
  OBVIOUS
<1>1. ASSUME Prepared(attempts[i].input)
      PROVE  /\ Prepared(attempts[i].input)'
             /\ columns'[attempts'[i].input.table] = columns[attempts[i].input.table]
  <2>1. Prepared(input)' /\ columns'[input.table] = columns[input.table]
    BY <1>1, PreparedKept
  <2> QED
    BY <2>1
<1>2. attempts'[i].pc \in Loading \/ attempts'[i].read # 0 => Prepared(attempts[i].input)'
  BY <1>1 DEF ImportOK, ProgressOK
<1>3. ASSUME attempts'[i].read = 0
      PROVE  attempts'[i].sent = <<>> /\ attempts'[i].failing = {}
  BY <1>3 DEF ImportOK, ProgressOK
<1>4. ASSUME attempts'[i].read # 0
      PROVE  ReadOK(InputOf(i), ColumnsOf(i), attempts[i].number, attempts[i].read,
                    attempts[i].sent, attempts[i].failing)'
  <2>1. /\ ReadOK(InputOf(i), ColumnsOf(i), attempts[i].number, attempts[i].read,
                   attempts[i].sent, attempts[i].failing)
        /\ Prepared(attempts[i].input)
    BY <1>4 DEF ImportOK, ProgressOK
  <2> QED
    BY <2>1, <1>1
<1> QED
  BY <1>2, <1>3, <1>4 DEF ProgressOK

\* What is known of a row that an import has put, whichever attempt did.
LEMMA RowKept ==
    ASSUME NEW i \in Imports, ImportOK(i), ColumnsKept, PutBy(i) \subseteq PutBy(i)',
           attempts'[i].input = attempts[i].input, NEW c \in PutBy(i)
    PROVE  /\ Prepared(InputOf(i))' /\ RowOK(c, InputOf(i)', ColumnsOf(i)') /\ AllGood(InputOf(i)', ColumnsOf(i)')
           /\ Whole(i, InputOf(i), ColumnsOf(i), c.attempt)'
<1> PICK input : input = attempts[i].input
  OBVIOUS
<1> PICK cols : cols = columns[input.table]
  OBVIOUS
<1>1. Prepared(input) /\ RowOK(c, input, cols) /\ AllGood(input, cols) /\ Whole(i, input, cols, c.attempt)
  BY DEF ImportOK, ContentsOK
<1>2. Prepared(input)' /\ columns'[input.table] = cols
  BY <1>1, PreparedKept
<1>3. Whole(i, input, cols, c.attempt)'
  BY <1>1, WholeKept
<1> QED
  BY <1>1, <1>2, <1>3

\* An import whose attempt moves on without reading or writing keeps what is
\* known of it, if the move keeps the order of COPY and the errors.
LEMMA Moves ==
    ASSUME NEW i \in Imports, ImportOK(i), ColumnsKept, PutBy(i)' = PutBy(i),
           attempts'[i].input = attempts[i].input, attempts'[i].number = attempts[i].number,
           attempts'[i].read = attempts[i].read, attempts'[i].sent = attempts[i].sent,
           attempts'[i].failing = attempts[i].failing,
           StageOK(i)', ErrorsOK(i)', rows[i].status # "NONE" => rows'[i].status # "NONE",
           attempts'[i].pc = "trigger" => attempts[i].input.table \in DOMAIN columns',
           attempts'[i].pc \in Loading => Prepared(attempts[i].input),
           attempts'[i].pc \in Preparing \cup {"queued"} => attempts[i].read = 0,
           attempts[i].pc \in {"errors", "final", "idle"} => attempts'[i].pc \in {"errors", "final", "idle"},
           i \in failedLate => i \in failedLate',
           AfterCommit(i)' => AfterCommit(i), AfterCommit(i) => AfterCommit(i)' \/ i \in failedLate'
    PROVE  ImportOK(i)'
<1>1. ProgressOK(i)'
  BY ProgressKept
<1>2. ASSUME NEW c \in PutBy(i)'
      PROVE  /\ rows'[i].status # "NONE" /\ c.attempt \in 0 .. attempts'[i].number
             /\ c.attempt = attempts'[i].number => attempts'[i].pc \in {"errors", "final", "idle"}
             /\ Prepared(InputOf(i))' /\ RowOK(c, InputOf(i)', ColumnsOf(i)') /\ AllGood(InputOf(i)', ColumnsOf(i)')
             /\ Whole(i, InputOf(i), ColumnsOf(i), c.attempt)'
             /\ i \notin failedLate' => AfterCommit(i)' /\ c.attempt = attempts'[i].number
  <2>1. c \in PutBy(i)
    BY <1>2
  <2>2. /\ rows[i].status # "NONE" /\ c.attempt \in 0 .. attempts[i].number
        /\ c.attempt = attempts[i].number => attempts[i].pc \in {"errors", "final", "idle"}
        /\ i \notin failedLate => AfterCommit(i) /\ c.attempt = attempts[i].number
    BY <2>1 DEF ImportOK, ContentsOK
  <2> QED
    BY <2>1, <2>2, RowKept
<1>3. ASSUME AfterCommit(i)'
      PROVE  /\ attempts'[i].read = Len(RecordsOf(i)') /\ Prepared(InputOf(i))'
             /\ Whole(i, InputOf(i), ColumnsOf(i), attempts[i].number)'
  <2> PICK input : input = attempts[i].input
    OBVIOUS
  <2> PICK number : number = attempts[i].number
    OBVIOUS
  <2> PICK cols : cols = columns[input.table]
    OBVIOUS
  <2>1. /\ attempts[i].read = Len(input.records) /\ Prepared(input)
        /\ Whole(i, input, cols, number)
    BY <1>3 DEF ImportOK, ContentsOK
  <2>2. Prepared(input)' /\ columns'[input.table] = cols
    BY <2>1, PreparedKept
  <2>3. Whole(i, input, cols, number)'
    BY <2>1, WholeKept
  <2> QED
    BY <2>1, <2>2, <2>3
<1>4. ContentsOK(i)'
  BY <1>2, <1>3 DEF ContentsOK
<1> QED
  BY <1>1, <1>4 DEF ImportOK

\* Others do not disturb an import.
LEMMA OthersKeep ==
    ASSUME NEW i \in Imports, ImportOK(i), ColumnsKept, PutBy(i)' = PutBy(i),
           attempts'[i] = attempts[i], rows'[i].status = rows[i].status, errors'[i] = errors[i],
           i \in failedLate' <=> i \in failedLate
    PROVE  ImportOK(i)'
<1>1. AfterErrors(i)' <=> AfterErrors(i)
  BY DEF AfterErrors, Over
<1>2. AfterCommit(i)' <=> AfterCommit(i)
  BY DEF AfterCommit, Over
<1>3. StageOK(i)'
  BY DEF ImportOK, StageOK
<1>5. ErrorsOK(i)'
  BY <1>1, ErrorsKept
<1>4. /\ attempts[i].pc \in Loading => Prepared(attempts[i].input)
      /\ attempts[i].pc \in Preparing \cup {"queued"} => attempts[i].read = 0
      /\ attempts[i].pc = "trigger" => attempts[i].input.table \in DOMAIN columns'
  BY DEF ImportOK, ProgressOK, ColumnsKept
<1> QED
  BY <1>1, <1>2, <1>3, <1>4, <1>5, Moves

-----------------------------------------------------------------------------
(* Type correctness.                                                       *)

\* The record sets open, one field at a time.
LEMMA AttemptFields ==
    ASSUME TypeOK, NEW i \in Imports
    PROVE  /\ attempts \in [Imports -> Attempt] /\ attempts[i] \in Attempt
           /\ attempts[i].number \in Nat /\ attempts[i].read \in Nat
           /\ attempts[i].input \in Inputs \cup {Null}
           /\ attempts[i].sent \in Seq([line : Nat, text : Seq(Field)])
           /\ attempts[i].failing \subseteq RowError
           /\ rows \in [Imports -> Row] /\ rows[i] \in Row /\ errors[i] \subseteq RowError
BY DEF TypeOK, Attempt, Row

\* A step of the attempt to another pc is well typed.
LEMMA GotoType ==
    ASSUME TypeOK, NEW i \in Imports, NEW pc \in Preparing \cup Loading \cup {"idle", "queued"}, Goto(i, pc)
    PROVE  /\ attempts' \in [Imports -> Attempt]
           /\ attempts'[i] = [attempts[i] EXCEPT !.pc = pc]
           /\ \A j \in Imports \ {i} : attempts'[j] = attempts[j]
<1>1. attempts \in [Imports -> Attempt] /\ attempts[i] \in Attempt
  BY DEF TypeOK
<1>2. PICK a : a = [attempts[i] EXCEPT !.pc = pc]
  OBVIOUS
<1>3. a \in Attempt
  BY <1>1, <1>2 DEF Attempt, Preparing, Loading
<1>4. attempts' = [attempts EXCEPT ![i] = a]
  BY <1>1, <1>2 DEF Goto
<1> QED
  BY <1>1, <1>2, <1>3, <1>4

\* So is a failure, which leaves the import idle.
LEMMA FailsType ==
    ASSUME TypeOK, NEW i \in Imports, NEW code \in Codes, Fails(i, code)
    PROVE  /\ attempts' \in [Imports -> Attempt] /\ rows' \in [Imports -> Row]
           /\ attempts'[i] = [attempts[i] EXCEPT !.pc = "idle"]
           /\ rows'[i].status = "FAILED"
           /\ \A j \in Imports \ {i} : attempts'[j] = attempts[j] /\ rows'[j] = rows[j]
<1>1. Goto(i, "idle")
  BY DEF Fails
<1>2. rows' = [rows EXCEPT ![i] = [NewRow EXCEPT !.status = "FAILED", !.code = code]]
  BY DEF Fails
<1>3. PICK row : row = [NewRow EXCEPT !.status = "FAILED", !.code = code]
  OBVIOUS
<1>4. row = [status |-> "FAILED", percent |-> 0, successful |-> 0, failed |-> 0, total |-> 0, code |-> code]
  BY <1>3 DEF NewRow
<1>5. row \in Row /\ row.status = "FAILED"
  BY <1>4 DEF Row, Statuses
<1>6. rows' = [rows EXCEPT ![i] = row]
  BY <1>2, <1>3
<1>7. rows' \in [Imports -> Row] /\ rows'[i] = row /\ \A j \in Imports \ {i} : rows'[j] = rows[j]
  BY <1>5, <1>6 DEF TypeOK
<1> QED
  BY <1>1, <1>5, <1>7, GotoType

\* The columns of a table that is created.
LEMMA NewColumnsType ==
    ASSUME NEW input, CanCreate(input), NEW name \in DOMAIN NewColumns(input)
    PROVE  NewColumns(input)[name] \in Column
<1>1. \A type \in NEW_TABLE_COLUMN_TYPES : DataType(type) \in DataTypes
  BY DEF NEW_TABLE_COLUMN_TYPES, DataType, DataTypes, INTEGER_TYPES, NUMERIC_TYPES, TEXT_TYPES, TIMESTAMP_TYPES
<1>2. \A type \in NEW_TABLE_COLUMN_TYPES : \A default \in BOOLEAN : NewColumn(type, default) \in Column
  BY <1>1 DEF NewColumn, Column
<1>3. "timestamptz" \in NEW_TABLE_COLUMN_TYPES
  BY DEF NEW_TABLE_COLUMN_TYPES
<1> QED
  BY <1>2, <1>3 DEF NewColumns, CanCreate

-----------------------------------------------------------------------------
(* Steps up to COPY, and failures.                                         *)

\* A step of import i: well typed, and it leaves the others alone.
Step(i) ==
    /\ TypeOK' /\ ColumnsKept
    /\ \A j \in Imports \ {i} :
         /\ attempts'[j] = attempts[j] /\ rows'[j].status = rows[j].status /\ errors'[j] = errors[j]
         /\ PutBy(j)' = PutBy(j) /\ (j \in failedLate' <=> j \in failedLate)

\* An attempt that fails has put nothing, or has failed late.
LEMMA FailKeeps ==
    ASSUME IInv, NEW i \in Imports, NEW code \in Codes, Fails(i, code), ColumnsKept, UNCHANGED <<contents, errors>>,
           attempts[i].pc \in Preparing \cup {"copy", "errors"},
           failedLate \subseteq failedLate', attempts[i].pc = "errors" => i \in failedLate'
    PROVE  ImportOK(i)'
<1>1. /\ attempts'[i] = [attempts[i] EXCEPT !.pc = "idle"]
      /\ rows'[i].status = "FAILED"
  BY FailsType DEF IInv
<1>2. /\ attempts'[i].pc = "idle" /\ attempts'[i].input = attempts[i].input
      /\ attempts'[i].number = attempts[i].number /\ attempts'[i].read = attempts[i].read
      /\ attempts'[i].sent = attempts[i].sent /\ attempts'[i].failing = attempts[i].failing
  BY <1>1 DEF IInv, TypeOK, Attempt
<1>3. ImportOK(i) /\ rows[i].status # "NONE" /\ InputOf(i) \in Inputs
  BY DEF IInv, ImportOK, StageOK, Preparing, Loading
<1>4. ~AfterErrors(i) /\ ~AfterErrors(i)' /\ ~AfterCommit(i)'
  BY <1>1, <1>2 DEF AfterErrors, AfterCommit, Over, DoneStatuses, Preparing
<1>5. StageOK(i)'
  BY <1>1, <1>2, <1>3 DEF StageOK, Preparing, Loading
<1>6. ErrorsOK(i)'
  BY <1>1, <1>2, <1>3, <1>4, ErrorsKept
<1>7. PutBy(i)' = PutBy(i)
  BY DEF PutBy
<1>8. attempts'[i].pc \notin Preparing \cup Loading \cup {"queued", "trigger"}
  BY <1>2 DEF Preparing, Loading
<1>9. AfterCommit(i) => i \in failedLate'
  BY DEF AfterCommit, Over, Preparing
<1> QED
  BY <1>1, <1>2, <1>3, <1>4, <1>5, <1>6, <1>7, <1>8, <1>9, Moves

\* An attempt that goes from one call of prepare to the next has read nothing.
LEMMA PrepareKeeps ==
    ASSUME IInv, NEW i \in Imports, NEW pc \in Preparing \cup {"queued", "copy"}, Goto(i, pc),
           ColumnsKept, UNCHANGED <<contents, errors, failedLate>>,
           attempts[i].pc \in Preparing \cup {"queued"},
           pc \in Preparing => rows'[i].status \in {"VALIDATING", "PROCESSING"},
           pc = "trigger" => attempts[i].input.table \in DOMAIN columns',
           pc = "queued" => rows'[i].status = "QUEUED",
           pc = "copy" => rows'[i].status = "PROCESSING" /\ Prepared(attempts[i].input)
    PROVE  ImportOK(i)'
<1>1. attempts'[i] = [attempts[i] EXCEPT !.pc = pc]
  BY GotoType DEF IInv, Loading
<1>2. /\ attempts'[i].pc = pc /\ attempts'[i].input = attempts[i].input
      /\ attempts'[i].number = attempts[i].number /\ attempts'[i].read = attempts[i].read
      /\ attempts'[i].sent = attempts[i].sent /\ attempts'[i].failing = attempts[i].failing
  BY <1>1 DEF IInv, TypeOK, Attempt
<1>3. ImportOK(i) /\ rows[i].status # "NONE" /\ InputOf(i) \in Inputs
  BY DEF IInv, ImportOK, StageOK, Preparing, Loading
<1>4. ~AfterErrors(i) /\ ~AfterErrors(i)' /\ ~AfterCommit(i)' /\ ~AfterCommit(i)
  BY <1>2 DEF AfterErrors, AfterCommit, Over, Preparing
<1>5. StageOK(i)'
  BY <1>2, <1>3 DEF StageOK, Preparing, Loading
<1>8. /\ attempts'[i].pc \in Loading => Prepared(attempts[i].input)
      /\ attempts'[i].pc = "trigger" => attempts[i].input.table \in DOMAIN columns'
      /\ attempts[i].read = 0
      /\ attempts[i].pc \notin {"errors", "final", "idle"}
      /\ rows'[i].status # "NONE"
  BY <1>2, <1>3 DEF ImportOK, ProgressOK, Preparing, Loading
<1>6. ErrorsOK(i)'
  BY <1>2, <1>3, <1>4, <1>8, ErrorsKept
<1>7. PutBy(i)' = PutBy(i)
  BY DEF PutBy
<1> QED
  BY <1>2, <1>3, <1>4, <1>5, <1>6, <1>7, <1>8, Moves

\* What a step that only goes on, or fails, leaves alone.
LEMMA Leaves ==
    ASSUME IInv, NEW i \in Imports, UNCHANGED <<contents, errors, update>>,
           retries' \in Nat, throws' \in Nat, ColumnsKept, trigger' \subseteq DOMAIN columns',
           failedLate' \subseteq Imports, \A j \in Imports \ {i} : j \in failedLate' <=> j \in failedLate,
           \A t \in DOMAIN columns' : \A c \in DOMAIN columns'[t] : columns'[t][c] \in Column,
           attempts' \in [Imports -> Attempt], rows' \in [Imports -> Row],
           \A j \in Imports \ {i} : attempts'[j] = attempts[j] /\ rows'[j].status = rows[j].status
    PROVE  Step(i)
BY DEF Step, IInv, TypeOK, PutBy

-----------------------------------------------------------------------------
(* The actions, one by one.                                                *)

\* Steps that neither create a table nor count a retry or a failed call.
LEMMA LeavesSchema ==
    ASSUME IInv, NEW i \in Imports, UNCHANGED <<Schema, contents, errors, update, Ghosts>>,
           attempts' \in [Imports -> Attempt], rows' \in [Imports -> Row],
           \A j \in Imports \ {i} : attempts'[j] = attempts[j] /\ rows'[j].status = rows[j].status
    PROVE  Step(i) /\ ColumnsKept /\ UNCHANGED <<contents, errors, failedLate>>
<1>1. ColumnsKept
  BY DEF ColumnsKept, Schema
<1>2. /\ trigger' \subseteq DOMAIN columns' /\ retries' \in Nat /\ throws' \in Nat /\ UNCHANGED failedLate
      /\ \A t \in DOMAIN columns' : \A c \in DOMAIN columns'[t] : columns'[t][c] \in Column
  BY DEF IInv, TypeOK, Schema, Ghosts
<1> QED
  BY <1>1, <1>2, Leaves DEF IInv, TypeOK

\* A failure during prepare, COPY or the saving of the errors.
LEMMA FailStep ==
    ASSUME IInv, NEW i \in Imports, NEW code \in Codes, Fails(i, code),
           UNCHANGED <<Schema, contents, errors, update, Ghosts>>,
           attempts[i].pc \in Preparing \cup {"copy"}
    PROVE  Step(i) /\ ImportOK(i)'
<1>1. /\ attempts' \in [Imports -> Attempt] /\ rows' \in [Imports -> Row]
      /\ \A j \in Imports \ {i} : attempts'[j] = attempts[j] /\ rows'[j].status = rows[j].status
  BY FailsType DEF IInv
<1>2. Step(i) /\ ColumnsKept /\ UNCHANGED <<contents, errors, failedLate>>
  BY <1>1, LeavesSchema
<1>3. attempts[i].pc # "errors"
  BY DEF Preparing
<1> QED
  BY <1>2, <1>3, FailKeeps

\* A step of prepare that changes no row.
LEMMA PrepareStep ==
    ASSUME IInv, NEW i \in Imports, NEW pc \in Preparing \ {"trigger"}, Goto(i, pc), UNCHANGED rows,
           UNCHANGED <<Schema, contents, errors, update, Ghosts>>, attempts[i].pc \in Preparing
    PROVE  Step(i) /\ ImportOK(i)'
<1>1. /\ attempts' \in [Imports -> Attempt] /\ rows' \in [Imports -> Row]
      /\ \A j \in Imports \ {i} : attempts'[j] = attempts[j] /\ rows'[j].status = rows[j].status
  BY GotoType DEF IInv, TypeOK
<1>2. Step(i) /\ ColumnsKept /\ UNCHANGED <<contents, errors, failedLate>>
  BY <1>1, LeavesSchema
<1>3. rows'[i].status \in {"VALIDATING", "PROCESSING"}
  BY DEF IInv, ImportOK, StageOK
<1> QED
  BY <1>2, <1>3, PrepareKeeps DEF Preparing

\* The headers are valid, and the import goes on, or they are not, and it fails.
LEMMA ReadHeadersStep ==
    ASSUME IInv, NEW i \in Imports, ReadHeaders(i)
    PROVE  Step(i) /\ ImportOK(i)'
<1>1. attempts[i].pc \in Preparing /\ UNCHANGED <<Schema, contents, errors, update, Ghosts>>
  BY DEF ReadHeaders, Preparing
<1>2. \/ UNCHANGED rows /\ \E pc \in {"exists", "metadata"} : Goto(i, pc)
      \/ Fails(i, "IMPORT_COPY_FAILED")
  BY DEF ReadHeaders
<1>3. ASSUME UNCHANGED rows, NEW pc \in {"exists", "metadata"}, Goto(i, pc)
      PROVE  Step(i) /\ ImportOK(i)'
  <2>1. pc \in Preparing \ {"trigger"}
    BY DEF Preparing
  <2> QED
    BY <1>1, <1>3, <2>1, PrepareStep
<1>4. CASE Fails(i, "IMPORT_COPY_FAILED")
  <2>1. "IMPORT_COPY_FAILED" \in Codes
    BY DEF Codes
  <2> QED
    BY <1>1, <1>4, <2>1, FailStep
<1> QED
  BY <1>2, <1>3, <1>4

\* Looking for the table changes nothing else.
LEMMA CheckTableStep ==
    ASSUME IInv, NEW i \in Imports, CheckTable(i)
    PROVE  Step(i) /\ ImportOK(i)'
<1>1. attempts[i].pc \in Preparing /\ UNCHANGED <<Schema, contents, errors, update, Ghosts>> /\ UNCHANGED rows
  BY DEF CheckTable, Preparing
<1>2. \E pc \in {"metadata", "create"} : Goto(i, pc)
  BY DEF CheckTable
<1>3. {"metadata", "create"} \subseteq Preparing \ {"trigger"}
  BY DEF Preparing
<1> QED
  BY <1>1, <1>2, <1>3, PrepareStep

\* A table that is created gets columns of known types, and no other table changes.
LEMMA CreateTableStep ==
    ASSUME IInv, NEW i \in Imports, CreateTable(i)
    PROVE  Step(i) /\ ImportOK(i)'
<1> DEFINE input == InputOf(i)
<1>1. attempts[i].pc \in Preparing /\ UNCHANGED <<trigger, contents, errors, update, Ghosts>>
  BY DEF CreateTable, Creates, Preparing
<1>2. CASE CanCreate(input) /\ input.table \notin DOMAIN columns
  <2>1. /\ columns' = [t \in DOMAIN columns \cup {input.table} |->
                         IF t \in DOMAIN columns THEN columns[t] ELSE NewColumns(input)]
        /\ \E pc \in {"trigger", "metadata"} : Goto(i, pc)
        /\ UNCHANGED rows
    BY <1>2 DEF CreateTable, Creates, CanCreateNow
  <2>2. PICK pc \in {"trigger", "metadata"} : Goto(i, pc)
    BY <2>1
  <2>3. pc \in Preparing
    BY DEF Preparing
  <2>4. ColumnsKept
    BY <2>1 DEF ColumnsKept
  <2>5. \A t \in DOMAIN columns' : \A c \in DOMAIN columns'[t] : columns'[t][c] \in Column
    BY <1>2, <2>1, NewColumnsType DEF IInv, TypeOK
  <2>6. /\ attempts' \in [Imports -> Attempt] /\ rows' \in [Imports -> Row]
        /\ \A j \in Imports \ {i} : attempts'[j] = attempts[j] /\ rows'[j].status = rows[j].status
    BY <2>1, <2>2, <2>3, GotoType DEF IInv, TypeOK
  <2>7. /\ trigger' \subseteq DOMAIN columns' /\ retries' \in Nat /\ throws' \in Nat /\ failedLate' \subseteq Imports
        /\ UNCHANGED failedLate
    BY <1>1, <2>1 DEF IInv, TypeOK, Ghosts
  <2>8. Step(i)
    BY <1>1, <2>4, <2>5, <2>6, <2>7, Leaves
  <2>9. rows'[i].status \in {"VALIDATING", "PROCESSING"}
    BY <1>1, <2>1 DEF IInv, ImportOK, StageOK
  <2>10. attempts[i].input.table \in DOMAIN columns'
    BY <2>1
  <2>11. ImportOK(i)'
    BY <1>1, <2>2, <2>3, <2>4, <2>7, <2>9, <2>10, PrepareKeeps DEF Preparing
  <2> QED
    BY <2>8, <2>11
<1>3. CASE ~(CanCreate(input) /\ input.table \notin DOMAIN columns)
  <2>1. Fails(i, "IMPORT_COPY_FAILED") /\ UNCHANGED columns
    BY <1>3 DEF CreateTable, Creates, CanCreateNow
  <2>2. "IMPORT_COPY_FAILED" \in Codes
    BY DEF Codes
  <2>3. UNCHANGED <<Schema, contents, errors, update, Ghosts>>
    BY <1>1, <2>1 DEF Schema
  <2> QED
    BY <1>1, <2>1, <2>2, <2>3, FailStep
<1> QED
  BY <1>2, <1>3

\* The trigger is one of a table that exists.
LEMMA CreateTriggerStep ==
    ASSUME IInv, NEW i \in Imports, CreateTrigger(i)
    PROVE  Step(i) /\ ImportOK(i)'
<1>1. /\ attempts[i].pc \in Preparing /\ "metadata" \in Preparing /\ Goto(i, "metadata")
      /\ UNCHANGED <<columns, contents, rows, errors, update, Ghosts>>
      /\ trigger' = trigger \cup {InputOf(i).table}
  BY DEF CreateTrigger, CreatesTrigger, Preparing
<1>2. ColumnsKept
  BY <1>1 DEF ColumnsKept
<1>3. /\ attempts' \in [Imports -> Attempt] /\ rows' \in [Imports -> Row]
      /\ \A j \in Imports \ {i} : attempts'[j] = attempts[j] /\ rows'[j].status = rows[j].status
  BY <1>1, GotoType DEF IInv, TypeOK
<1>4. /\ trigger' \subseteq DOMAIN columns' /\ retries' \in Nat /\ throws' \in Nat
      /\ failedLate' \subseteq Imports /\ UNCHANGED failedLate
      /\ \A t \in DOMAIN columns' : \A c \in DOMAIN columns'[t] : columns'[t][c] \in Column
  <2>1. InputOf(i).table \in DOMAIN columns
    BY DEF CreateTrigger, CreatesTrigger, IInv, ImportOK, ProgressOK
  <2> QED
    BY <1>1, <2>1 DEF IInv, TypeOK, Ghosts
<1>5. Step(i)
  BY <1>1, <1>2, <1>3, <1>4, Leaves
<1>6. rows'[i].status \in {"VALIDATING", "PROCESSING"}
  BY <1>1 DEF IInv, ImportOK, StageOK
<1>7. ImportOK(i)'
  BY <1>1, <1>2, <1>4, <1>6, PrepareKeeps DEF Preparing
<1> QED
  BY <1>5, <1>7

\* A row that is written over.
LEMMA RowType ==
    ASSUME TypeOK, NEW i \in Imports, NEW row \in Row, rows' = [rows EXCEPT ![i] = row]
    PROVE  /\ rows' \in [Imports -> Row] /\ rows'[i] = row
           /\ \A j \in Imports \ {i} : rows'[j] = rows[j]
BY DEF TypeOK

\* A row that changes its status.
LEMMA StatusType ==
    ASSUME TypeOK, NEW i \in Imports, NEW s \in Statuses, rows' = [rows EXCEPT ![i].status = s]
    PROVE  /\ rows' \in [Imports -> Row] /\ rows'[i].status = s
           /\ \A j \in Imports \ {i} : rows'[j] = rows[j]
<1>1. rows[i] \in Row
  BY AttemptFields
<1>2. PICK row : row = [rows[i] EXCEPT !.status = s]
  OBVIOUS
<1>3. row \in Row /\ row.status = s
  BY <1>1, <1>2 DEF Row
<1>4. rows' = [rows EXCEPT ![i] = row]
  BY <1>2
<1> QED
  BY <1>3, <1>4, RowType

\* An import that is queued or goes to COPY has a table that its mapping fits.
LEMMA PrepareActionStep ==
    ASSUME IInv, NEW i \in Imports, Prepare(i)
    PROVE  Step(i) /\ ImportOK(i)'
<1>1. attempts[i].pc \in Preparing /\ UNCHANGED <<Schema, contents, errors, update, Ghosts>>
  BY DEF Prepare, Preparing
<1>2. \/ Prepared(InputOf(i)) /\ Goto(i, "queued") /\ rows' = [rows EXCEPT ![i].status = "QUEUED"]
      \/ Prepared(InputOf(i)) /\ Goto(i, "copy") /\ rows' = [rows EXCEPT ![i].status = "PROCESSING"]
      \/ Fails(i, "IMPORT_COPY_FAILED")
  BY DEF Prepare
<1>3. ASSUME NEW pc \in {"queued", "copy"}, NEW s \in {"QUEUED", "PROCESSING"},
             pc = "queued" => s = "QUEUED", pc = "copy" => s = "PROCESSING",
             Prepared(InputOf(i)), Goto(i, pc), rows' = [rows EXCEPT ![i].status = s]
      PROVE  Step(i) /\ ImportOK(i)'
  <2>1. s \in Statuses
    BY DEF Statuses
  <2>2. rows' \in [Imports -> Row] /\ rows'[i].status = s /\ \A j \in Imports \ {i} : rows'[j] = rows[j]
    BY <1>3, <2>1, StatusType DEF IInv
  <2>3. attempts' \in [Imports -> Attempt] /\ \A j \in Imports \ {i} : attempts'[j] = attempts[j]
    BY <1>3, GotoType DEF IInv, Loading
  <2>4. Step(i) /\ ColumnsKept /\ UNCHANGED <<contents, errors, failedLate>>
    BY <1>1, <2>2, <2>3, LeavesSchema
  <2>5. pc \notin Preparing /\ pc # "trigger"
    BY DEF Preparing
  <2> QED
    BY <1>1, <1>3, <2>2, <2>4, <2>5, PrepareKeeps
<1>4. CASE Fails(i, "IMPORT_COPY_FAILED")
  <2>1. "IMPORT_COPY_FAILED" \in Codes
    BY DEF Codes
  <2> QED
    BY <1>1, <1>4, <2>1, FailStep
<1> QED
  BY <1>2, <1>3, <1>4

\* The worker starts the import over, and it has read nothing.
LEMMA ProcessQueuedStep ==
    ASSUME IInv, NEW i \in Imports, ProcessQueued(i)
    PROVE  Step(i) /\ ImportOK(i)'
<1>1. /\ attempts[i].pc = "queued" /\ Goto(i, "headers") /\ rows' = [rows EXCEPT ![i].status = "PROCESSING"]
      /\ UNCHANGED <<Schema, contents, errors, update, Ghosts>>
  BY DEF ProcessQueued
<1>2. "headers" \in Preparing /\ "PROCESSING" \in Statuses
  BY DEF Preparing, Statuses
<1>3. rows' \in [Imports -> Row] /\ rows'[i].status = "PROCESSING" /\ \A j \in Imports \ {i} : rows'[j] = rows[j]
  BY <1>1, <1>2, StatusType DEF IInv
<1>4. attempts' \in [Imports -> Attempt] /\ \A j \in Imports \ {i} : attempts'[j] = attempts[j]
  BY <1>1, <1>2, GotoType DEF IInv
<1>5. Step(i) /\ ColumnsKept /\ UNCHANGED <<contents, errors, failedLate>>
  BY <1>1, <1>3, <1>4, LeavesSchema
<1> QED
  BY <1>1, <1>2, <1>3, <1>5, PrepareKeeps

\* What PostgreSQL refuses is rolled back.
LEMMA CopyRefusedStep ==
    ASSUME IInv, NEW i \in Imports, CopyRefused(i)
    PROVE  Step(i) /\ ImportOK(i)'
<1>1. attempts[i].pc = "copy" /\ UNCHANGED <<Schema, contents, errors, update, Ghosts>>
  BY DEF CopyRefused
<1>2. PICK code \in Codes : Fails(i, code)
  BY DEF CopyRefused, Codes
<1> QED
  BY <1>1, <1>2, FailStep

\* A call that fails is like any failure, but the last save leaves the import
\* as one that is over.
LEMMA ThrowsStep ==
    ASSUME IInv, NEW i \in Imports, Throws(i)
    PROVE  Step(i) /\ ImportOK(i)'
<1>1. /\ attempts[i].pc \notin {"idle", "queued"} /\ throws' = throws + 1
      /\ UNCHANGED <<Schema, contents, errors, update, retries>>
      /\ IF attempts[i].pc = "errors" THEN Late(i) ELSE UNCHANGED failedLate
  BY DEF Throws
<1>2. /\ ColumnsKept /\ trigger' \subseteq DOMAIN columns' /\ retries' \in Nat /\ throws' \in Nat
      /\ \A t \in DOMAIN columns' : \A c \in DOMAIN columns'[t] : columns'[t][c] \in Column
  BY <1>1 DEF IInv, TypeOK, Schema, ColumnsKept
<1>0. /\ failedLate' \subseteq Imports /\ failedLate \subseteq failedLate'
      /\ \A j \in Imports \ {i} : j \in failedLate' <=> j \in failedLate
      /\ attempts[i].pc = "errors" => i \in failedLate'
  BY <1>1 DEF IInv, TypeOK, Late
<1>3. CASE attempts[i].pc = "final"
  <2>1. Goto(i, "idle") /\ UNCHANGED rows
    BY <1>3 DEF Throws
  <2>2. /\ attempts' \in [Imports -> Attempt] /\ attempts'[i] = [attempts[i] EXCEPT !.pc = "idle"]
        /\ \A j \in Imports \ {i} : attempts'[j] = attempts[j]
    BY <2>1, GotoType DEF IInv
  <2>3. Step(i)
    BY <1>1, <1>2, <1>0, <2>1, <2>2, Leaves DEF IInv, TypeOK
  <2>4. /\ attempts'[i].pc = "idle" /\ attempts'[i].input = attempts[i].input
        /\ attempts'[i].number = attempts[i].number /\ attempts'[i].read = attempts[i].read
        /\ attempts'[i].sent = attempts[i].sent /\ attempts'[i].failing = attempts[i].failing
    BY <2>2 DEF IInv, TypeOK, Attempt
  <2>5. ImportOK(i) /\ rows[i].status = "PROCESSING" /\ rows'[i].status = "PROCESSING" /\ InputOf(i) \in Inputs
    BY <1>3, <2>1 DEF IInv, ImportOK, StageOK, Loading
  <2>6. AfterErrors(i) /\ AfterErrors(i)' /\ AfterCommit(i) /\ AfterCommit(i)'
    BY <1>3, <2>4, <2>5 DEF AfterErrors, AfterCommit, Over
  <2>7. StageOK(i)'
    BY <2>4, <2>5 DEF StageOK, Preparing, Loading
  <2>8. ErrorsOK(i)'
    BY <1>1, <1>2, <1>0, <2>4, <2>5, <2>6, ErrorsKept
  <2>9. PutBy(i)' = PutBy(i) /\ attempts'[i].pc \notin Preparing \cup Loading \cup {"queued", "trigger"}
    BY <1>1, <2>4 DEF PutBy, Preparing, Loading
  <2> QED
    BY <1>2, <1>0, <2>3, <2>4, <2>5, <2>6, <2>7, <2>8, <2>9, Moves
<1>4. CASE attempts[i].pc # "final"
  <2>1. Fails(i, "IMPORT_COPY_FAILED") /\ "IMPORT_COPY_FAILED" \in Codes
    BY <1>4 DEF Throws, Codes
  <2>2. attempts[i].pc \in Preparing \cup {"copy", "errors"}
    BY <1>1, <1>4, AttemptFields DEF IInv, Attempt, Preparing
  <2>3. /\ attempts' \in [Imports -> Attempt] /\ rows' \in [Imports -> Row]
        /\ \A j \in Imports \ {i} : attempts'[j] = attempts[j] /\ rows'[j].status = rows[j].status
    BY <2>1, FailsType DEF IInv
  <2> QED
    BY <1>1, <1>2, <1>0, <2>1, <2>2, <2>3, Leaves, FailKeeps
<1> QED
  BY <1>3, <1>4

\* Steps that change neither an attempt nor a status.
LEMMA SameStep ==
    ASSUME IInv, NEW i \in Imports, UNCHANGED <<Schema, contents, attempts, errors, Ghosts>>,
           update' \in [Imports -> 0 .. 99 \cup {Null}], rows' \in [Imports -> Row],
           \A j \in Imports : rows'[j].status = rows[j].status
    PROVE  Step(i) /\ ImportOK(i)'
<1>1. ColumnsKept /\ PutBy(i)' = PutBy(i) /\ UNCHANGED failedLate
  BY DEF ColumnsKept, Schema, PutBy, Ghosts
<1>2. Step(i)
  BY <1>1 DEF Step, IInv, TypeOK, Schema, Ghosts, PutBy
<1>3. ImportOK(i)'
  BY <1>1, OthersKeep DEF IInv
<1> QED
  BY <1>2, <1>3

\* A progress update that is sent is below 100 percent.
LEMMA SendProgressStep ==
    ASSUME IInv, NEW i \in Imports, SendProgress(i)
    PROVE  Step(i) /\ ImportOK(i)'
<1>1. /\ attempts[i].pc = "copy" /\ UNCHANGED <<Schema, contents, attempts, rows, errors, Ghosts>>
      /\ update' = [update EXCEPT ![i] = percent(Len(attempts[i].sent), Len(RecordsOf(i)))]
  BY DEF SendProgress
<1>2. Len(attempts[i].sent) \in Nat
  BY AttemptFields DEF IInv
<1>3. Len(RecordsOf(i)) \in Nat
  <2>1. InputOf(i) \in Inputs
    BY <1>1 DEF IInv, ImportOK, StageOK, Loading
  <2> QED
    BY <2>1, InputsAssumption
<1>4. \A sent, total \in Nat : percent(sent, total) \in 0 .. 99
  BY DEF percent
<1>5. update' \in [Imports -> 0 .. 99 \cup {Null}]
  BY <1>1, <1>2, <1>3, <1>4 DEF IInv, TypeOK
<1> QED
  BY <1>1, <1>5, SameStep DEF IInv, TypeOK

\* One that lands changes no status.
LEMMA ProgressLandsStep ==
    ASSUME IInv, NEW i \in Imports, ProgressLands(i)
    PROVE  Step(i) /\ ImportOK(i)'
<1>1. /\ update[i] # Null /\ UNCHANGED <<Schema, contents, attempts, errors, Ghosts>>
      /\ update' = [update EXCEPT ![i] = Null]
      /\ rows' = IF rows[i].status = "PROCESSING" THEN [rows EXCEPT ![i].percent = update[i]] ELSE rows
  BY DEF ProgressLands
<1>2. update' \in [Imports -> 0 .. 99 \cup {Null}] /\ update[i] \in 0 .. 100
  BY <1>1 DEF IInv, TypeOK
<1>3. PICK row : row = [rows[i] EXCEPT !.percent = update[i]]
  OBVIOUS
<1>4. rows[i] \in Row
  BY AttemptFields DEF IInv
<1>5. row \in Row /\ row.status = rows[i].status
  BY <1>2, <1>3, <1>4 DEF Row
<1>6. rows' = rows \/ rows' = [rows EXCEPT ![i] = row]
  BY <1>1, <1>3
<1>7. rows' \in [Imports -> Row] /\ \A j \in Imports : rows'[j].status = rows[j].status
  BY <1>5, <1>6, RowType DEF IInv, TypeOK
<1> QED
  BY <1>1, <1>2, <1>7, SameStep

\* A new import has put nothing into any table.
LEMMA BeginStep ==
    ASSUME IInv, NEW i \in Imports, Begin(i)
    PROVE  Step(i) /\ ImportOK(i)'
<1>1. /\ rows[i].status = "NONE" /\ rows' = [rows EXCEPT ![i].status = "VALIDATING"]
      /\ UNCHANGED <<Schema, contents, errors, update, Ghosts>>
  BY DEF Begin
<1>2. PICK input \in Inputs :
        attempts' = [attempts EXCEPT ![i] = [@ EXCEPT !.pc = "headers", !.number = 1, !.input = input]]
  BY DEF Begin
<1>3. PICK a : a = [attempts[i] EXCEPT !.pc = "headers", !.number = 1, !.input = input]
  OBVIOUS
<1>4. attempts[i] = NoAttempt
  BY <1>1 DEF IInv, ImportOK, StageOK
<1>5. a = [pc |-> "headers", number |-> 1, input |-> input, read |-> 0, sent |-> <<>>, failing |-> {}]
  <2>1. a = [NoAttempt EXCEPT !.pc = "headers", !.number = 1, !.input = input]
    BY <1>3, <1>4, Zenon
  <2> QED
    BY <2>1 DEF NoAttempt
<1>6. a \in Attempt
  BY <1>5 DEF Attempt
<1>7. attempts' = [attempts EXCEPT ![i] = a]
  BY <1>2, <1>3
<1>8. /\ attempts' \in [Imports -> Attempt] /\ attempts'[i] = a
      /\ \A j \in Imports \ {i} : attempts'[j] = attempts[j]
  BY <1>6, <1>7 DEF IInv, TypeOK
<1>9. rows' \in [Imports -> Row] /\ rows'[i].status = "VALIDATING" /\ \A j \in Imports \ {i} : rows'[j] = rows[j]
  BY <1>1, StatusType DEF IInv, Statuses
<1>10. Step(i)
  BY <1>1, <1>8, <1>9, LeavesSchema
<1>11. /\ attempts'[i].pc = "headers" /\ attempts'[i].input = input /\ attempts'[i].read = 0
       /\ attempts'[i].sent = <<>> /\ attempts'[i].failing = {}
  BY <1>5, <1>8
<1>12. StageOK(i)'
  BY <1>9, <1>11 DEF StageOK, Preparing, Loading
<1>13. ProgressOK(i)'
  BY <1>11 DEF ProgressOK, Loading
<1>14. ~AfterErrors(i)' /\ ~AfterCommit(i)' /\ ~AfterErrors(i)
  BY <1>4, <1>11, <1>1 DEF AfterErrors, AfterCommit, Over, NoAttempt, DoneStatuses
<1>15. ContentsOK(i)'
  <2>1. PutBy(i)' = {}
    BY <1>1 DEF IInv, ImportOK, ContentsOK, PutBy
  <2> QED
    BY <1>14, <2>1 DEF ContentsOK
<1>16. ErrorsOK(i)'
  <2>1. errors[i] = {}
    BY <1>1 DEF IInv, ImportOK, ErrorsOK
  <2> QED
    BY <1>1, <1>14, <2>1 DEF ErrorsOK
<1> QED
  BY <1>10, <1>12, <1>13, <1>15, <1>16 DEF ImportOK

\* A retry starts over; if earlier attempts have put rows, they failed late.
LEMMA RetryStep ==
    ASSUME IInv, NEW i \in Imports, Retry(i)
    PROVE  Step(i) /\ ImportOK(i)'
<1>1. /\ rows[i].status = "FAILED" /\ attempts[i].pc = "idle"
      /\ retries' = retries + 1 /\ rows' = [rows EXCEPT ![i] = [NewRow EXCEPT !.status = "QUEUED"]]
      /\ attempts' = [attempts EXCEPT ![i] = [NoAttempt EXCEPT !.pc = "queued", !.input = InputOf(i),
                                                               !.number = attempts[i].number + 1]]
      /\ UNCHANGED <<Schema, contents, errors, update, failedLate, throws>>
  BY DEF Retry, Retried
<1>2. PICK a : a = [NoAttempt EXCEPT !.pc = "queued", !.input = InputOf(i), !.number = attempts[i].number + 1]
  OBVIOUS
<1>3. a = [pc |-> "queued", number |-> attempts[i].number + 1, input |-> attempts[i].input, read |-> 0,
           sent |-> <<>>, failing |-> {}]
  BY <1>2 DEF NoAttempt
<1>4. attempts[i].number \in Nat /\ attempts[i].input \in Inputs \cup {Null}
  BY AttemptFields DEF IInv
<1>5. a \in Attempt
  BY <1>3, <1>4 DEF Attempt
<1>6. attempts' = [attempts EXCEPT ![i] = a]
  BY <1>1, <1>2
<1>7. /\ attempts' \in [Imports -> Attempt] /\ attempts'[i] = a
      /\ \A j \in Imports \ {i} : attempts'[j] = attempts[j]
  BY <1>5, <1>6 DEF IInv, TypeOK
<1>8. PICK row : row = [NewRow EXCEPT !.status = "QUEUED"]
  OBVIOUS
<1>9. row = [status |-> "QUEUED", percent |-> 0, successful |-> 0, failed |-> 0, total |-> 0, code |-> Null]
  BY <1>8 DEF NewRow
<1>10. row \in Row /\ row.status = "QUEUED"
  BY <1>9 DEF Row, Statuses
<1>11. rows' = [rows EXCEPT ![i] = row]
  BY <1>1, <1>8
<1>12. rows' \in [Imports -> Row] /\ rows'[i].status = "QUEUED" /\ \A j \in Imports \ {i} : rows'[j] = rows[j]
  BY <1>10, <1>11, RowType DEF IInv
<1>13. /\ ColumnsKept /\ trigger' \subseteq DOMAIN columns' /\ retries' \in Nat /\ throws' \in Nat
       /\ \A t \in DOMAIN columns' : \A c \in DOMAIN columns'[t] : columns'[t][c] \in Column
  BY <1>1 DEF IInv, TypeOK, Schema, ColumnsKept
<1>14. Step(i)
  BY <1>1, <1>7, <1>12, <1>13, Leaves DEF IInv, TypeOK
<1>15. /\ attempts'[i].pc = "queued" /\ attempts'[i].input = attempts[i].input /\ attempts'[i].read = 0
       /\ attempts'[i].sent = <<>> /\ attempts'[i].failing = {} /\ attempts'[i].number = attempts[i].number + 1
  BY <1>3, <1>7
<1>16. ImportOK(i) /\ InputOf(i) \in Inputs
  BY <1>1 DEF IInv, ImportOK, StageOK
<1>17. StageOK(i)'
  BY <1>12, <1>15, <1>16 DEF StageOK, Preparing, Loading
<1>18. ProgressOK(i)'
  BY <1>15 DEF ProgressOK, Loading
<1>19. ~AfterErrors(i)' /\ ~AfterCommit(i)' /\ ~AfterErrors(i) /\ ~AfterCommit(i)
  BY <1>1, <1>15 DEF AfterErrors, AfterCommit, Over, DoneStatuses
<1>20. ContentsOK(i)'
  <2>1. PutBy(i)' = PutBy(i)
    BY <1>1 DEF PutBy
  <2>2. ASSUME NEW c \in PutBy(i)
        PROVE  /\ c.attempt \in 0 .. attempts[i].number + 1 /\ c.attempt # attempts[i].number + 1
               /\ i \in failedLate
    BY <1>4, <1>16, <1>19, <2>2 DEF ImportOK, ContentsOK
  <2>3. ASSUME NEW c \in PutBy(i)
        PROVE  /\ Prepared(InputOf(i))' /\ RowOK(c, InputOf(i)', ColumnsOf(i)') /\ AllGood(InputOf(i)', ColumnsOf(i)')
               /\ Whole(i, InputOf(i), ColumnsOf(i), c.attempt)'
    BY <1>13, <1>15, <1>16, <2>1, <2>3, RowKept
  <2> QED
    BY <1>1, <1>12, <1>15, <1>19, <2>1, <2>2, <2>3 DEF ContentsOK
<1>21. ErrorsOK(i)'
  BY <1>1, <1>12, <1>13, <1>15, <1>16, <1>19, ErrorsKept
<1> QED
  BY <1>14, <1>17, <1>18, <1>20, <1>21 DEF ImportOK

\* The errors of an attempt that has committed are errors of the file.
LEMMA FailingIsTheFiles ==
    ASSUME NEW i \in Imports, ImportOK(i), AfterCommit(i), ColumnsKept, InputOf(i) \in Inputs,
           attempts'[i].input = attempts[i].input, NEW e \in attempts[i].failing
    PROVE  /\ Prepared(InputOf(i))' /\ e.line \in DOMAIN RecordsOf(i)'
           /\ e.field \in FailingIn(InputOf(i)', ColumnsOf(i)', e.line)
<1> PICK input : input = attempts[i].input
  OBVIOUS
<1>1. attempts[i].read = Len(input.records) /\ Prepared(input)
  BY DEF ImportOK, ContentsOK
<1>2. ReadOK(input, columns[input.table], attempts[i].number, attempts[i].read, attempts[i].sent, attempts[i].failing)
  BY DEF ImportOK, ProgressOK
<1>3. e.line \in 1 .. Len(input.records) /\ e.field \in FailingIn(input, columns[input.table], e.line)
  BY <1>1, <1>2 DEF ReadOK
<1>4. DOMAIN input.records = 1 .. Len(input.records)
  BY InputsAssumption
<1>5. Prepared(input)' /\ columns'[input.table] = columns[input.table]
  BY <1>1, PreparedKept
<1> QED
  BY <1>3, <1>4, <1>5

\* An attempt that fails after its COPY, with its errors saved or not.
LEMMA FailLateStep ==
    ASSUME IInv, NEW i \in Imports, Fails(i, "IMPORT_COPY_FAILED"), Late(i), attempts[i].pc = "errors",
           UNCHANGED <<Schema, contents, update>>, retries' \in Nat, throws' \in Nat,
           errors' = errors \/ SavesErrors(i)
    PROVE  Step(i) /\ ImportOK(i)'
<1>1. "IMPORT_COPY_FAILED" \in Codes
  BY DEF Codes
<1>2. /\ attempts' \in [Imports -> Attempt] /\ rows' \in [Imports -> Row] /\ rows'[i].status = "FAILED"
      /\ attempts'[i] = [attempts[i] EXCEPT !.pc = "idle"]
      /\ \A j \in Imports \ {i} : attempts'[j] = attempts[j] /\ rows'[j].status = rows[j].status
  BY <1>1, FailsType DEF IInv
<1>3. /\ failedLate' \subseteq Imports /\ i \in failedLate' /\ failedLate \subseteq failedLate'
      /\ \A j \in Imports \ {i} : j \in failedLate' <=> j \in failedLate
  BY DEF IInv, TypeOK, Late
<1>4. /\ errors' \in [Imports -> SUBSET RowError] /\ \A j \in Imports \ {i} : errors'[j] = errors[j]
      /\ errors'[i] \subseteq errors[i] \cup attempts[i].failing
  BY AttemptFields DEF IInv, TypeOK, SavesErrors
<1>5. ColumnsKept /\ \A j \in Imports : PutBy(j)' = PutBy(j)
  BY DEF ColumnsKept, Schema, PutBy
<1>6. Step(i)
  BY <1>2, <1>3, <1>4, <1>5 DEF Step, IInv, TypeOK, Schema
<1>7. /\ attempts'[i].pc = "idle" /\ attempts'[i].input = attempts[i].input
      /\ attempts'[i].number = attempts[i].number /\ attempts'[i].read = attempts[i].read
      /\ attempts'[i].sent = attempts[i].sent /\ attempts'[i].failing = attempts[i].failing
  BY <1>2 DEF IInv, TypeOK, Attempt
<1>8. ImportOK(i) /\ InputOf(i) \in Inputs /\ rows[i].status # "NONE"
  BY DEF IInv, ImportOK, StageOK, Loading
<1>9. StageOK(i)'
  BY <1>2, <1>7, <1>8 DEF StageOK, Preparing, Loading
<1>10. ~AfterErrors(i)' /\ ~AfterCommit(i)'
  BY <1>2, <1>7 DEF AfterErrors, AfterCommit, Over, DoneStatuses
<1>11. ErrorsOK(i)'
  <2>1. ASSUME NEW e \in errors'[i]
        PROVE  /\ rows'[i].status # "NONE" /\ Prepared(InputOf(i))'
               /\ e.line \in DOMAIN RecordsOf(i)' /\ e.field \in FailingIn(InputOf(i)', ColumnsOf(i)', e.line)
    BY <1>2, <1>4, <1>5, <1>7, <1>8, <2>1, ErrorsIn, FailingIsTheFiles DEF AfterCommit
  <2> QED
    BY <1>3, <1>10, <2>1 DEF ErrorsOK
<1>12. attempts'[i].pc \notin Preparing \cup Loading \cup {"queued", "trigger"}
  BY <1>7 DEF Preparing, Loading
<1> QED
  BY <1>2, <1>3, <1>5, <1>6, <1>7, <1>8, <1>9, <1>10, <1>11, <1>12, Moves

\* Errors that are refused fail the import after its COPY.
LEMMA ErrorsRefusedStep ==
    ASSUME IInv, NEW i \in Imports, ErrorsRefused(i)
    PROVE  Step(i) /\ ImportOK(i)'
BY FailLateStep DEF ErrorsRefused, IInv, TypeOK

\* The errors are saved after COPY, all or none.
LEMMA SaveErrorsStep ==
    ASSUME IInv, NEW i \in Imports, SaveErrors(i)
    PROVE  Step(i) /\ ImportOK(i)'
<1>1. /\ attempts[i].pc = "errors" /\ errors' = [errors EXCEPT ![i] = @ \cup attempts[i].failing]
      /\ Goto(i, "final") /\ UNCHANGED <<Schema, contents, rows, update, Ghosts>>
  BY DEF SaveErrors, SavesErrors
<1>2. /\ attempts' \in [Imports -> Attempt] /\ attempts'[i] = [attempts[i] EXCEPT !.pc = "final"]
      /\ \A j \in Imports \ {i} : attempts'[j] = attempts[j]
  BY <1>1, GotoType DEF IInv, Loading
<1>3. /\ attempts'[i].pc = "final" /\ attempts'[i].input = attempts[i].input
      /\ attempts'[i].number = attempts[i].number /\ attempts'[i].read = attempts[i].read
      /\ attempts'[i].sent = attempts[i].sent /\ attempts'[i].failing = attempts[i].failing
  BY <1>2 DEF IInv, TypeOK, Attempt
<1>4. /\ errors' \in [Imports -> SUBSET RowError] /\ errors'[i] = errors[i] \cup attempts[i].failing
      /\ \A j \in Imports \ {i} : errors'[j] = errors[j]
  BY <1>1, AttemptFields DEF IInv, TypeOK
<1>5. ColumnsKept /\ UNCHANGED failedLate /\ \A j \in Imports : PutBy(j)' = PutBy(j)
  BY <1>1 DEF ColumnsKept, Schema, PutBy, Ghosts
<1>6. Step(i)
  BY <1>1, <1>2, <1>4, <1>5 DEF Step, IInv, TypeOK, Schema, Ghosts
<1>7. ImportOK(i) /\ rows[i].status = "PROCESSING" /\ InputOf(i) \in Inputs /\ Prepared(attempts[i].input)
  BY <1>1 DEF IInv, ImportOK, StageOK, ProgressOK, Loading
<1>8. ~AfterErrors(i) /\ AfterErrors(i)' /\ AfterCommit(i) /\ AfterCommit(i)'
  BY <1>1, <1>3 DEF AfterErrors, AfterCommit, Over
<1>9. StageOK(i)'
  BY <1>1, <1>3, <1>7 DEF StageOK, Preparing, Loading
<1>10. ErrorsOK(i)'
  <2>1. ASSUME NEW e \in errors'[i]
        PROVE  /\ rows'[i].status # "NONE" /\ Prepared(InputOf(i))'
               /\ e.line \in DOMAIN RecordsOf(i)' /\ e.field \in FailingIn(InputOf(i)', ColumnsOf(i)', e.line)
    BY <1>1, <1>3, <1>4, <1>5, <1>7, <1>8, <2>1, ErrorsIn, FailingIsTheFiles
  <2>2. i \notin failedLate => errors[i] = {}
    BY <1>7, <1>8 DEF ImportOK, ErrorsOK
  <2> QED
    BY <1>3, <1>4, <1>5, <1>8, <2>1, <2>2 DEF ErrorsOK
<1>11. attempts'[i].pc \notin Preparing \cup {"queued", "trigger"} /\ rows'[i].status # "NONE"
  BY <1>1, <1>3, <1>7 DEF Preparing
<1> QED
  BY <1>3, <1>5, <1>6, <1>7, <1>8, <1>9, <1>10, <1>11, Moves

\* The lines and the errors are finitely many.
LEMMA Counts ==
    ASSUME IInv, NEW i \in Imports, attempts[i].pc = "final"
    PROVE  Cardinality(Lines(i)) \in Nat /\ Cardinality(attempts[i].failing) \in Nat
<1>1. /\ attempts[i].sent \in Seq([line : Nat, text : Seq(Field)]) /\ attempts[i].read \in Nat
      /\ attempts[i].failing \subseteq RowError
  BY AttemptFields DEF IInv
<1>2. \A n \in Nat : IsFiniteSet(1 .. n)
  BY FS_Interval
<1>3. IsFiniteSet(Lines(i))
  <2> DEFINE N == 1 .. Len(attempts[i].sent)
             f == [n \in N |-> attempts[i].sent[n]]
             T == {f[n] : n \in N}
  <2>1. DOMAIN attempts[i].sent = N /\ IsFiniteSet(N)
    BY <1>1, <1>2
  <2>2. f \in Surjection(N, T)
    BY DEF Surjection
  <2>3. IsFiniteSet(T)
    BY <2>1, <2>2, FS_Surjection
  <2>4. Lines(i) \subseteq T
    BY <2>1 DEF Lines
  <2> QED
    BY <2>3, <2>4, FS_Subset
<1>4. IsFiniteSet(attempts[i].failing)
  <2>1. CASE attempts[i].read = 0
    <3>1. attempts[i].failing = {}
      BY <2>1 DEF IInv, ImportOK, ProgressOK
    <3> QED
      BY <3>1, FS_EmptySet
  <2>2. CASE attempts[i].read # 0
    <3> DEFINE m == Len(InputOf(i).headers)
               number == attempts[i].number
               P == (1 .. attempts[i].read) \X (1 .. m)
               f == [p \in P |-> [attempt |-> number, line |-> p[1], field |-> p[2]]]
               T == {f[p] : p \in P}
    <3>1. InputOf(i) \in Inputs /\ Prepared(InputOf(i))
      BY <2>2 DEF IInv, ImportOK, StageOK, ProgressOK, Loading
    <3>2. m \in Nat /\ DOMAIN TargetsIn(InputOf(i)) = 1 .. m
      BY <3>1, PreparedTable DEF IInv
    <3>3. IsFiniteSet(P)
      BY <1>1, <1>2, <3>2, FS_Product
    <3>4. f \in Surjection(P, T)
      BY DEF Surjection
    <3>5. IsFiniteSet(T)
      BY <3>3, <3>4, FS_Surjection
    <3>6. ASSUME NEW e \in attempts[i].failing
          PROVE  e \in T
      <4>1. /\ e.attempt = number /\ e.line \in 1 .. attempts[i].read
            /\ e.field \in FailingIn(InputOf(i), ColumnsOf(i), e.line)
        BY <2>2 DEF IInv, ImportOK, ProgressOK, ReadOK
      <4>2. e.field \in 1 .. m
        BY <3>2, <4>1 DEF FailingIn, FailingFields
      <4>3. e = [attempt |-> number, line |-> e.line, field |-> e.field]
        BY <1>1, <4>1 DEF RowError
      <4>4. <<e.line, e.field>> \in P
        BY <4>1, <4>2
      <4> QED
        BY <4>3, <4>4
    <3> QED
      BY <3>5, <3>6, FS_Subset
  <2> QED
    BY <2>1, <2>2
<1> QED
  BY <1>3, <1>4, FS_CardinalityType

\* The last save makes the import final, and keeps its rows and errors.
LEMMA FinishStep ==
    ASSUME IInv, NEW i \in Imports, Finish(i)
    PROVE  Step(i) /\ ImportOK(i)'
<1> DEFINE rowCount == Cardinality(Lines(i))
           rowErrors == Cardinality(attempts[i].failing)
           row == [status |-> IF rowErrors > 0 THEN "PARTIALLY_COMPLETED" ELSE "COMPLETED", percent |-> 100,
                   successful |-> rowCount, failed |-> rowErrors, total |-> rowCount + rowErrors, code |-> Null]
<1>1. /\ attempts[i].pc = "final" /\ rows' = [rows EXCEPT ![i] = row] /\ Goto(i, "idle")
      /\ UNCHANGED <<Schema, contents, errors, update, Ghosts>>
  BY DEF Finish
<1>2. rowCount \in Nat /\ rowErrors \in Nat
  BY <1>1, Counts
<1>3. row \in Row /\ row.status \in DoneStatuses
  BY <1>2 DEF Row, Statuses, DoneStatuses
<1> HIDE DEF row
<1>4. rows' \in [Imports -> Row] /\ rows'[i].status \in DoneStatuses /\ \A j \in Imports \ {i} : rows'[j] = rows[j]
  BY <1>1, <1>3, RowType DEF IInv
<1>5. /\ attempts' \in [Imports -> Attempt] /\ attempts'[i] = [attempts[i] EXCEPT !.pc = "idle"]
      /\ \A j \in Imports \ {i} : attempts'[j] = attempts[j]
  BY <1>1, GotoType DEF IInv
<1>6. Step(i) /\ ColumnsKept /\ UNCHANGED failedLate
  BY <1>1, <1>4, <1>5, LeavesSchema
<1>7. /\ attempts'[i].pc = "idle" /\ attempts'[i].input = attempts[i].input
      /\ attempts'[i].number = attempts[i].number /\ attempts'[i].read = attempts[i].read
      /\ attempts'[i].sent = attempts[i].sent /\ attempts'[i].failing = attempts[i].failing
  BY <1>5 DEF IInv, TypeOK, Attempt
<1>8. ImportOK(i) /\ InputOf(i) \in Inputs /\ rows'[i].status # "NONE"
  BY <1>1, <1>4 DEF IInv, ImportOK, StageOK, Loading, DoneStatuses
<1>9. AfterErrors(i) /\ AfterErrors(i)' /\ AfterCommit(i) /\ AfterCommit(i)'
  BY <1>1, <1>4, <1>7 DEF AfterErrors, AfterCommit, Over
<1>10. StageOK(i)'
  BY <1>4, <1>7, <1>8 DEF StageOK, Preparing, Loading
<1>11. ErrorsOK(i)'
  BY <1>1, <1>6, <1>7, <1>8, <1>9, ErrorsKept
<1>12. PutBy(i)' = PutBy(i) /\ attempts'[i].pc \notin Preparing \cup Loading \cup {"queued", "trigger"}
  BY <1>1, <1>7 DEF PutBy, Preparing, Loading
<1> QED
  BY <1>6, <1>7, <1>8, <1>9, <1>10, <1>11, <1>12, Moves

\* What is known of the records read, before the first, ...
LEMMA ReadStart ==
    ASSUME NEW input \in Inputs, NEW cols, NEW number
    PROVE  ReadOK(input, cols, number, 0, <<>>, {})
<1>1. Len(input.records) \in Nat
  BY InputsAssumption
<1> QED
  BY <1>1 DEF ReadOK

\* ... after one that is skipped, ...
LEMMA ReadBad ==
    ASSUME NEW input, NEW cols, NEW number, NEW read \in Nat, NEW sent, NEW failing, NEW new, NEW next, next = read + 1,
           ReadOK(input, cols, number, read, sent, failing),
           next <= Len(input.records), ~BadWidth(input, next), input.mode # "STRICT",
           FailingIn(input, cols, next) # {},
           new = {[attempt |-> number, line |-> next, field |-> k] : k \in FailingIn(input, cols, next)}
    PROVE  ReadOK(input, cols, number, next, sent, failing \cup new)
<1>1. \A line \in 1 .. read + 1 : line \in 1 .. read \/ line = read + 1
  OBVIOUS
<1>2. \A line \in 1 .. read : line \in 1 .. read + 1
  OBVIOUS
<1>3. read + 1 \in 1 .. read + 1
  OBVIOUS
<1>4. \A line \in 1 .. read + 1 :
         /\ ~BadWidth(input, line)
         /\ input.mode = "STRICT" => FailingIn(input, cols, line) = {}
         /\ FailingIn(input, cols, line) = {} => \E n \in DOMAIN sent : sent[n].line = line
  BY <1>1 DEF ReadOK
<1>5. \A n \in DOMAIN sent :
         /\ sent[n].line \in 1 .. read + 1 /\ FailingIn(input, cols, sent[n].line) = {}
         /\ sent[n] = LineIn(input, cols, sent[n].line)
  BY <1>2 DEF ReadOK
<1>6. ASSUME NEW e \in failing \cup new
      PROVE  e.attempt = number /\ e.line \in 1 .. read + 1 /\ e.field \in FailingIn(input, cols, e.line)
  <2>1. CASE e \in failing
    BY <1>2, <2>1 DEF ReadOK
  <2>2. CASE e \in new
    BY <1>3, <2>2
  <2> QED
    BY <2>1, <2>2
<1>7. ASSUME NEW line \in 1 .. read + 1, NEW k \in FailingIn(input, cols, line)
      PROVE  [attempt |-> number, line |-> line, field |-> k] \in failing \cup new
  BY <1>1 DEF ReadOK
<1> QED
  BY <1>4, <1>5, <1>6, <1>7 DEF ReadOK

\* ... and after one that is sent.
LEMMA ReadGood ==
    ASSUME NEW input, NEW cols, NEW number, NEW read \in Nat, NEW S, NEW sent \in Seq(S), NEW failing,
           NEW next, next = read + 1, NEW l, l = LineIn(input, cols, next),
           ReadOK(input, cols, number, read, sent, failing),
           next <= Len(input.records), ~BadWidth(input, next), FailingIn(input, cols, next) = {}
    PROVE  ReadOK(input, cols, number, next, Append(sent, l), failing)
<1>1. \A line \in 1 .. read + 1 : line \in 1 .. read \/ line = read + 1
  OBVIOUS
<1>2. \A line \in 1 .. read : line \in 1 .. read + 1
  OBVIOUS
<1>3. read + 1 \in 1 .. read + 1
  OBVIOUS
<1>4. l = LineIn(input, cols, read + 1)
  OBVIOUS
<1>5. l.line = read + 1
  BY <1>4 DEF LineIn
<1>6. PICK more : more = Append(sent, l)
  OBVIOUS
<1>7. /\ \A n \in DOMAIN sent : n \in DOMAIN more /\ more[n] = sent[n]
      /\ \A n \in DOMAIN more : n \in DOMAIN sent \/ more[n] = l
      /\ \E n \in DOMAIN more : more[n] = l
  <2>1. /\ Len(sent) \in Nat /\ DOMAIN sent = 1 .. Len(sent) /\ DOMAIN more = 1 .. Len(sent) + 1
        /\ more[Len(sent) + 1] = l /\ \A n \in 1 .. Len(sent) : more[n] = sent[n]
    BY <1>6
  <2> QED
    BY <2>1
<1>8. ASSUME NEW line \in 1 .. read + 1
      PROVE  /\ ~BadWidth(input, line)
             /\ input.mode = "STRICT" => FailingIn(input, cols, line) = {}
             /\ FailingIn(input, cols, line) = {} => \E n \in DOMAIN more : more[n].line = line
  <2>1. CASE line \in 1 .. read
    BY <1>7, <2>1 DEF ReadOK
  <2>2. CASE line = read + 1
    BY <1>5, <1>7, <2>2
  <2> QED
    BY <1>1, <2>1, <2>2
<1>9. ASSUME NEW n \in DOMAIN more
      PROVE  /\ more[n].line \in 1 .. read + 1 /\ FailingIn(input, cols, more[n].line) = {}
             /\ more[n] = LineIn(input, cols, more[n].line)
  <2>1. CASE n \in DOMAIN sent
    BY <1>2, <1>7, <2>1 DEF ReadOK
  <2>2. CASE more[n] = l
    BY <1>3, <1>4, <1>5, <2>2
  <2> QED
    BY <1>7, <2>1, <2>2
<1>10. \A e \in failing :
          e.attempt = number /\ e.line \in 1 .. read + 1 /\ e.field \in FailingIn(input, cols, e.line)
  BY <1>2 DEF ReadOK
<1>11. ASSUME NEW line \in 1 .. read + 1, NEW k \in FailingIn(input, cols, line)
       PROVE  [attempt |-> number, line |-> line, field |-> k] \in failing
  BY <1>1 DEF ReadOK
<1>12. ReadOK(input, cols, number, read + 1, more, failing)
  BY <1>8, <1>9, <1>10, <1>11 DEF ReadOK
<1> QED
  BY <1>4, <1>6, <1>12

\* Reading a record puts nothing into the table.
LEMMA ReadsKeep ==
    ASSUME IInv, NEW i \in Imports, attempts[i].pc = "copy", UNCHANGED <<columns, contents, rows, errors, failedLate>>,
           attempts'[i].pc = "copy", attempts'[i].input = attempts[i].input,
           attempts'[i].number = attempts[i].number, attempts'[i].read # 0,
           ReadOK(attempts[i].input, ColumnsOf(i), attempts[i].number, attempts'[i].read,
                  attempts'[i].sent, attempts'[i].failing)
    PROVE  ImportOK(i)'
<1>1. ImportOK(i) /\ Prepared(attempts[i].input)
  BY DEF IInv, ImportOK, ProgressOK, Loading
<1>2. Prepared(attempts[i].input)' /\ ColumnsOf(i)' = ColumnsOf(i)
  <2> PICK input : input = attempts[i].input
    OBVIOUS
  <2>1. Prepared(input)'
    BY <1>1 DEF Prepared
  <2> QED
    BY <2>1
<1>3. ~AfterErrors(i) /\ ~AfterErrors(i)' /\ ~AfterCommit(i)' /\ ~AfterCommit(i)
  BY DEF AfterErrors, AfterCommit, Over
<1>4. StageOK(i)'
  BY <1>1 DEF ImportOK, StageOK, Preparing, Loading
<1>5. ProgressOK(i)'
  BY <1>2 DEF ProgressOK, Preparing
<1>6. ContentsOK(i)'
  <2>1. PutBy(i)' = PutBy(i) /\ ColumnsKept
    BY DEF PutBy, ColumnsKept
  <2>2. ASSUME NEW c \in PutBy(i)
        PROVE  /\ rows[i].status # "NONE" /\ c.attempt \in 0 .. attempts[i].number
               /\ c.attempt # attempts[i].number /\ i \in failedLate
    BY <1>1, <1>3, <2>2 DEF ImportOK, ContentsOK
  <2>3. ASSUME NEW c \in PutBy(i)
        PROVE  /\ Prepared(InputOf(i))' /\ RowOK(c, InputOf(i)', ColumnsOf(i)') /\ AllGood(InputOf(i)', ColumnsOf(i)')
               /\ Whole(i, InputOf(i), ColumnsOf(i), c.attempt)'
    BY <1>1, <2>1, <2>3, RowKept
  <2> QED
    BY <1>3, <2>1, <2>2, <2>3 DEF ContentsOK
<1>7. ErrorsOK(i)'
  <2>1. ColumnsKept
    BY DEF ColumnsKept
  <2> QED
    BY <1>1, <1>3, <2>1, ErrorsKept
<1> QED
  BY <1>4, <1>5, <1>6, <1>7 DEF ImportOK

\* What is known while COPY runs, before the first record too.
LEMMA Running ==
    ASSUME IInv, NEW i \in Imports, attempts[i].pc = "copy"
    PROVE  /\ ImportOK(i) /\ InputOf(i) \in Inputs /\ Prepared(InputOf(i)) /\ rows[i].status = "PROCESSING"
           /\ ReadOK(InputOf(i), ColumnsOf(i), attempts[i].number, attempts[i].read,
                     attempts[i].sent, attempts[i].failing)
<1>1. ImportOK(i) /\ InputOf(i) \in Inputs /\ Prepared(InputOf(i)) /\ rows[i].status = "PROCESSING"
  BY DEF IInv, ImportOK, StageOK, ProgressOK, Loading
<1>2. CASE attempts[i].read = 0
  <2>1. attempts[i].sent = <<>> /\ attempts[i].failing = {}
    BY <1>1, <1>2 DEF ImportOK, ProgressOK
  <2> QED
    BY <1>1, <1>2, <2>1, ReadStart
<1>3. CASE attempts[i].read # 0
  BY <1>1, <1>3 DEF ImportOK, ProgressOK
<1> QED
  BY <1>1, <1>2, <1>3

\* A record is sent, skipped with its errors, or fails the import.
LEMMA StreamStep ==
    ASSUME IInv, NEW i \in Imports, Stream(i)
    PROVE  Step(i) /\ ImportOK(i)'
<1> PICK line : line = attempts[i].read + 1
  OBVIOUS
<1> PICK input : input = attempts[i].input
  OBVIOUS
<1> PICK cols : cols = ColumnsOf(i)
  OBVIOUS
<1> PICK a : a = attempts[i]
  OBVIOUS
<1>1. /\ a.pc = "copy" /\ line <= Len(input.records)
      /\ UNCHANGED <<Schema, contents, errors, update, Ghosts>>
  BY DEF Stream
<1>2. /\ input \in Inputs /\ Prepared(input) /\ a.input = input /\ a.read + 1 = line
      /\ ReadOK(input, cols, a.number, a.read, a.sent, a.failing)
  BY <1>1, Running
<1>3. /\ a \in Attempt /\ a.number \in Nat /\ a.read \in Nat /\ a.failing \subseteq RowError
      /\ a.sent \in Seq([line : Nat, text : Seq(Field)]) /\ attempts \in [Imports -> Attempt]
  BY AttemptFields DEF IInv
<1>4. /\ (Malformed(i, line) <=> BadWidth(input, line)) /\ Failing(i, line) = FailingIn(input, cols, line)
      /\ (Strict(i) <=> input.mode = "STRICT")
  BY DEF Malformed, BadWidth, Failing, FailingIn, TargetsOf, TargetsIn, Strict
<1>5. CASE Aborts(i, line)
  <2>1. PICK code \in Codes : Fails(i, code)
    BY <1>5 DEF Stream, Codes
  <2> QED
    BY <1>1, <2>1, FailStep
<1>6. CASE ~Aborts(i, line)
  <2>1. ~BadWidth(input, line) /\ (input.mode = "STRICT" => FailingIn(input, cols, line) = {})
    BY <1>4, <1>6 DEF Aborts
  <2>2. ASSUME NEW b \in Attempt, attempts' = [attempts EXCEPT ![i] = b], b.pc = "copy", b.input = input,
               b.number = a.number, b.read = line, UNCHANGED rows,
               ReadOK(input, cols, a.number, line, b.sent, b.failing)
        PROVE  Step(i) /\ ImportOK(i)'
    <3>1. /\ attempts' \in [Imports -> Attempt] /\ attempts'[i] = b
          /\ \A j \in Imports \ {i} : attempts'[j] = attempts[j]
      BY <1>3, <2>2
    <3>2. Step(i)
      BY <1>1, <2>2, <3>1, LeavesSchema DEF IInv, TypeOK
    <3>3. line # 0 /\ UNCHANGED <<columns, contents, rows, errors, failedLate>>
      BY <1>1, <1>2, <1>3, <2>2 DEF Schema, Ghosts
    <3>4. ImportOK(i)'
      BY <1>1, <2>2, <3>1, <3>3, ReadsKeep
    <3> QED
      BY <3>2, <3>4
  <2>3. CASE Failing(i, line) # {}
    <3> PICK new : new = {[attempt |-> a.number, line |-> line, field |-> k] : k \in FailingIn(input, cols, line)}
      OBVIOUS
    <3>1. attempts' = [attempts EXCEPT ![i] = Skipped(i, line)] /\ UNCHANGED rows
      BY <1>6, <2>3 DEF Stream
    <3>2. PICK b : b = [a EXCEPT !.read = line, !.failing = @ \cup new]
      OBVIOUS
    <3>3. attempts' = [attempts EXCEPT ![i] = b]
      <4>1. new = {[attempt |-> attempts[i].number, line |-> line, field |-> k] : k \in Failing(i, line)}
        BY <1>4, Zenon
      <4>2. Skipped(i, line) = [attempts[i] EXCEPT !.read = line, !.failing = @ \cup new]
        BY <4>1, Zenon DEF Skipped
      <4>3. Skipped(i, line) = b
        BY <3>2, <4>2, Zenon
      <4> QED
        BY <3>1, <4>3
    <3>4. /\ b.pc = "copy" /\ b.input = input /\ b.number = a.number /\ b.read = line
          /\ b.failing = a.failing \cup new /\ b.sent = a.sent
      BY <1>1, <1>2, <1>3, <3>2 DEF Attempt
    <3>5. new \subseteq RowError
      <4>1. DOMAIN TargetsIn(input) \subseteq Nat
        <5>1. Len(input.headers) \in Nat /\ DOMAIN TargetsIn(input) = 1 .. Len(input.headers)
          BY <1>2, PreparedTable DEF IInv
        <5> QED
          BY <5>1
      <4>2. FailingIn(input, cols, line) \subseteq Nat
        BY <4>1 DEF FailingIn, FailingFields
      <4> QED
        BY <1>2, <1>3, <4>2 DEF RowError
    <3>6. b \in Attempt
      <4>1. line \in Nat /\ a.failing \cup new \in SUBSET RowError
        BY <1>2, <1>3, <3>5
      <4> QED
        BY <1>3, <3>2, <4>1 DEF Attempt
    <3>7. ReadOK(input, cols, a.number, line, b.sent, b.failing)
      <4>1. /\ ReadOK(input, cols, a.number, a.read, a.sent, a.failing) /\ a.read \in Nat
            /\ line = a.read + 1 /\ line <= Len(input.records) /\ ~BadWidth(input, line)
            /\ input.mode # "STRICT" /\ FailingIn(input, cols, line) # {}
        BY <1>1, <1>2, <1>3, <1>4, <2>1, <2>3
      <4>2. ReadOK(input, cols, a.number, line, a.sent, a.failing \cup new)
        BY <4>1, ReadBad
      <4> QED
        BY <3>4, <4>2
    <3> QED
      BY <2>2, <3>1, <3>3, <3>4, <3>6, <3>7
  <2>4. CASE Failing(i, line) = {}
    <3> PICK l : l = LineIn(input, cols, line)
      OBVIOUS
    <3>1. attempts' = [attempts EXCEPT ![i] = Sent(i, line)] /\ UNCHANGED rows
      BY <1>6, <2>4 DEF Stream
    <3>2. l = [line |-> line, text |-> toCopyLine(Transformed(RecordsOf(i)[line], TargetsOf(i),
                                                              ColumnsOf(i), InputOf(i).options))]
      BY DEF LineIn, RowIn, TargetsOf, TargetsIn
    <3>3. PICK b : b = [a EXCEPT !.read = line, !.sent = Append(@, l)]
      OBVIOUS
    <3>4. attempts' = [attempts EXCEPT ![i] = b]
      <4>1. Sent(i, line) = b
        BY <3>2, <3>3 DEF Sent
      <4> QED
        BY <3>1, <4>1
    <3>5. /\ b.pc = "copy" /\ b.input = input /\ b.number = a.number /\ b.read = line
          /\ b.failing = a.failing /\ b.sent = Append(a.sent, l)
      BY <1>1, <1>2, <1>3, <3>3 DEF Attempt
    <3>6. l \in [line : Nat, text : Seq(Field)]
      <4>1. line \in DOMAIN input.records
        BY <1>1, <1>2, <1>3, InputsAssumption
      <4>2. toCopyLine(RowIn(input, cols, line)) \in Seq(Field)
        BY <1>2, <1>4, <2>1, <2>4, <4>1, GoodRow DEF IInv
      <4> QED
        BY <1>2, <1>3, <4>2 DEF LineIn
    <3>7. b \in Attempt
      <4>1. line \in Nat /\ Append(a.sent, l) \in Seq([line : Nat, text : Seq(Field)])
        BY <1>2, <1>3, <3>6
      <4> QED
        BY <1>3, <3>3, <4>1 DEF Attempt
    <3>8. ReadOK(input, cols, a.number, line, b.sent, b.failing)
      <4>1. /\ ReadOK(input, cols, a.number, a.read, a.sent, a.failing) /\ a.read \in Nat
            /\ line = a.read + 1 /\ line <= Len(input.records) /\ ~BadWidth(input, line)
            /\ FailingIn(input, cols, line) = {}
        BY <1>1, <1>2, <1>3, <1>4, <2>1, <2>4
      <4>2. ReadOK(input, cols, a.number, line, Append(a.sent, l), a.failing)
        BY <1>3, <4>1, ReadGood
      <4> QED
        BY <3>5, <4>2
    <3> QED
      BY <2>2, <3>1, <3>4, <3>5, <3>7, <3>8
  <2> QED
    BY <2>3, <2>4
<1> QED
  BY <1>5, <1>6


\* A line that PostgreSQL reads is the line of a good record, and it is read
\* back as the row of that record.
LEMMA LinesGood ==
    ASSUME IInv, NEW i \in Imports, InputOf(i) \in Inputs, Prepared(InputOf(i)),
           ReadOK(InputOf(i), ColumnsOf(i), attempts[i].number, attempts[i].read,
                  attempts[i].sent, attempts[i].failing),
           NEW l \in Lines(i)
    PROVE  /\ l.line \in DOMAIN RecordsOf(i) /\ ~BadWidth(InputOf(i), l.line)
           /\ FailingIn(InputOf(i), ColumnsOf(i), l.line) = {}
           /\ PgRow(l.text) = RowIn(InputOf(i), ColumnsOf(i), l.line)
<1> PICK input : input = InputOf(i)
  OBVIOUS
<1> PICK cols : cols = columns[input.table]
  OBVIOUS
<1> PICK read : read = attempts[i].read
  OBVIOUS
<1>1. ReadOK(input, cols, attempts[i].number, read, attempts[i].sent, attempts[i].failing)
  OBVIOUS
<1>2. PICK n \in DOMAIN attempts[i].sent : l = attempts[i].sent[n]
  BY DEF Lines
<1>3. /\ l.line \in 1 .. read /\ FailingIn(input, cols, l.line) = {}
      /\ l = LineIn(input, cols, l.line) /\ read <= Len(input.records)
  BY <1>1, <1>2 DEF ReadOK
<1> PICK line : line = l.line
  OBVIOUS
<1>4. ~BadWidth(input, line)
  BY <1>1, <1>3 DEF ReadOK
<1>5. line \in DOMAIN input.records
  <2>1. read \in Nat
    BY AttemptFields DEF IInv
  <2>2. Len(input.records) \in Nat /\ DOMAIN input.records = 1 .. Len(input.records)
    BY InputsAssumption
  <2> QED
    BY <1>3, <2>1, <2>2
<1>6. PgRow(toCopyLine(RowIn(input, cols, line))) = RowIn(input, cols, line)
  BY <1>3, <1>4, <1>5, GoodRow DEF IInv
<1>7. l.text = toCopyLine(RowIn(input, cols, line))
  BY <1>3 DEF LineIn
<1> QED
  BY <1>3, <1>4, <1>5, <1>6, <1>7

\* Without the marker, it reads the lines of all good records.
LEMMA AllSent ==
    ASSUME IInv, NEW i \in Imports, InputOf(i) \in Inputs, Prepared(InputOf(i)),
           attempts[i].read = Len(RecordsOf(i)), ~MarkedIn(InputOf(i)),
           ReadOK(InputOf(i), ColumnsOf(i), attempts[i].number, attempts[i].read,
                  attempts[i].sent, attempts[i].failing),
           NEW line \in DOMAIN RecordsOf(i), FailingIn(InputOf(i), ColumnsOf(i), line) = {}
    PROVE  \E l \in Lines(i) : l.line = line
<1> PICK input : input = InputOf(i)
  OBVIOUS
<1> PICK cols : cols = columns[input.table]
  OBVIOUS
<1> PICK sent : sent = attempts[i].sent
  OBVIOUS
<1>1. ReadOK(input, cols, attempts[i].number, Len(input.records), sent, attempts[i].failing)
  OBVIOUS
<1>2. DOMAIN input.records = 1 .. Len(input.records)
  BY InputsAssumption
<1>3. ASSUME NEW n \in DOMAIN sent
      PROVE  ~EndOfData(sent[n].text)
  <2> PICK k : k = sent[n].line
    OBVIOUS
  <2>1. /\ k \in DOMAIN input.records /\ FailingIn(input, cols, k) = {}
        /\ sent[n] = LineIn(input, cols, k) /\ ~BadWidth(input, k)
    BY <1>1, <1>2 DEF ReadOK
  <2>2. EndOfData(toCopyLine(RowIn(input, cols, k))) => Len(input.headers) = 1 /\ input.records[k] = <<"\\.">>
    BY <2>1, GoodRow DEF IInv
  <2>3. sent[n].text = toCopyLine(RowIn(input, cols, k))
    BY <2>1 DEF LineIn
  <2> QED
    BY <2>1, <2>2, <2>3 DEF MarkedIn
<1>4. PICK n \in DOMAIN sent : sent[n].line = line
  BY <1>1, <1>2 DEF ReadOK
<1>5. DOMAIN sent = 1 .. Len(sent) /\ Len(sent) \in Nat
  BY AttemptFields DEF IInv
<1>6. \A m \in 1 .. n : m \in DOMAIN sent
  BY <1>5
<1>7. sent[n] \in Lines(i)
  BY <1>3, <1>6 DEF Lines
<1> QED
  BY <1>4, <1>7

\* COPY puts the rows of the good records into the table, all of them, and those
\* of a strict import only when all records were good, whether or not its answer
\* comes.
LEMMA CommitPuts ==
    ASSUME IInv, NEW i \in Imports, Commits(i), UNCHANGED columns,
           attempts'[i].pc \in {"errors", "final", "idle"}, attempts'[i].input = attempts[i].input,
           attempts'[i].number = attempts[i].number, attempts'[i].read = attempts[i].read,
           rows'[i].status # "NONE", i \in failedLate => i \in failedLate', AfterCommit(i)' \/ i \in failedLate'
    PROVE  ContentsOK(i)' /\ \A j \in Imports \ {i} : PutBy(j)' = PutBy(j)
<1> PICK input : input = InputOf(i)
  OBVIOUS
<1> PICK cols : cols = ColumnsOf(i)
  OBVIOUS
<1> PICK number : number = attempts[i].number
  OBVIOUS
<1> DEFINE Row1(l) == [imp |-> i, attempt |-> number, line |-> l.line, row |-> ByColumn(i, PgRow(l.text))]
           new == {Row1(l) : l \in Lines(i)}
<1>1. attempts[i].pc = "copy" /\ attempts[i].read = Len(input.records) /\ contents' = contents \cup new
  BY DEF Commits
<1>2. /\ ImportOK(i) /\ input \in Inputs /\ Prepared(input)
      /\ ReadOK(input, cols, number, attempts[i].read, attempts[i].sent, attempts[i].failing)
  BY <1>1, Running
<1>3. \A c \in new : c.imp = i
  OBVIOUS
<1>4. PutBy(i) \subseteq PutBy(i)' /\ ColumnsKept /\ columns'[input.table] = cols
  BY <1>1 DEF PutBy, ColumnsKept
<1>5. number \in Nat
  BY AttemptFields DEF IInv
<1>6. ASSUME NEW c \in PutBy(i)
      PROVE  c.attempt \in 0 .. number /\ c.attempt # number /\ i \in failedLate
  BY <1>1, <1>2, <1>6 DEF ImportOK, ContentsOK, AfterCommit, Over
<1>7. ASSUME NEW c \in new
      PROVE  c.imp = i /\ c.attempt = number /\ RowOK(c, input, cols)
  <2>1. PICK l \in Lines(i) : c = Row1(l)
    OBVIOUS
  <2>2. /\ l.line \in DOMAIN input.records /\ ~BadWidth(input, l.line) /\ FailingIn(input, cols, l.line) = {}
        /\ PgRow(l.text) = RowIn(input, cols, l.line)
    BY <1>2, LinesGood
  <2>3. ByColumn(i, PgRow(l.text)) = Under(input, RowIn(input, cols, l.line))
    BY <2>2 DEF ByColumn, Under, TargetsOf, TargetsIn
  <2>4. c = [imp |-> i, attempt |-> number, line |-> l.line, row |-> Under(input, RowIn(input, cols, l.line))]
    BY <2>1, <2>3
  <2>5. c.imp = i /\ c.attempt = number /\ c.line = l.line
    BY <2>4
  <2> QED
    BY <2>2, <2>4, <2>5 DEF RowOK
<1>8. AllGood(input, cols)
  <2>1. DOMAIN input.records = 1 .. Len(input.records)
    BY <1>2, InputsAssumption
  <2> QED
    BY <1>1, <1>2, <2>1 DEF AllGood, ReadOK
<1>9. Whole(i, input, cols, number)'
  <2> SUFFICES ASSUME ~MarkedIn(input), NEW line \in DOMAIN input.records, FailingIn(input, cols, line) = {}
               PROVE  \E c \in PutBy(i)' : c.attempt = number /\ c.line = line
    BY DEF Whole
  <2>1. PICK l \in Lines(i) : l.line = line
    BY <1>1, <1>2, AllSent
  <2>2. Row1(l) \in PutBy(i)'
    BY <1>1 DEF PutBy
  <2> QED
    BY <2>1, <2>2
<1> HIDE DEF new
<1>10. Prepared(input)'
  BY <1>2, <1>4, PreparedKept
<1>11. ASSUME NEW c \in PutBy(i)'
       PROVE  /\ c.attempt \in 0 .. number /\ RowOK(c, input, cols) /\ AllGood(input, cols)
              /\ Whole(i, input, cols, c.attempt)'
              /\ i \notin failedLate' => c.attempt = number
  <2>1. CASE c \in PutBy(i)
    <3>1. /\ RowOK(c, input, cols) /\ Whole(i, input, cols, c.attempt)
      BY <1>2, <2>1 DEF ImportOK, ContentsOK
    <3>2. Whole(i, input, cols, c.attempt)'
      BY <1>4, <3>1, WholeKept
    <3> QED
      BY <1>6, <1>8, <2>1, <3>1, <3>2
  <2>2. CASE c \in new
    BY <1>5, <1>7, <1>8, <1>9, <2>2
  <2> QED
    BY <1>1, <2>1, <2>2 DEF PutBy
<1>12. ContentsOK(i)'
  BY <1>1, <1>4, <1>9, <1>10, <1>11 DEF ContentsOK
<1>13. \A j \in Imports \ {i} : PutBy(j)' = PutBy(j)
  BY <1>1, <1>3 DEF PutBy
<1> QED
  BY <1>12, <1>13

\* A COPY that is committed and answered.
LEMMA CommitStep ==
    ASSUME IInv, NEW i \in Imports, Commit(i)
    PROVE  Step(i) /\ ImportOK(i)'
<1> DEFINE pc == IF attempts[i].failing # {} THEN "errors" ELSE "final"
<1>1. /\ attempts[i].pc = "copy" /\ Commits(i) /\ Goto(i, pc)
      /\ UNCHANGED <<Schema, rows, errors, update, Ghosts>>
  BY DEF Commit, Commits
<1>2. ImportOK(i) /\ InputOf(i) \in Inputs /\ Prepared(InputOf(i)) /\ rows[i].status = "PROCESSING"
  BY <1>1, Running
<1>3. /\ attempts' \in [Imports -> Attempt] /\ attempts'[i] = [attempts[i] EXCEPT !.pc = pc]
      /\ \A j \in Imports \ {i} : attempts'[j] = attempts[j]
  BY <1>1, GotoType DEF IInv, Loading
<1>4. /\ attempts'[i].pc = pc /\ attempts'[i].input = attempts[i].input
      /\ attempts'[i].number = attempts[i].number /\ attempts'[i].read = attempts[i].read
      /\ attempts'[i].sent = attempts[i].sent /\ attempts'[i].failing = attempts[i].failing
  BY <1>3 DEF IInv, TypeOK, Attempt
<1>5. UNCHANGED failedLate /\ ColumnsKept /\ UNCHANGED columns
  BY <1>1 DEF Ghosts, Schema, ColumnsKept
<1>6. AfterCommit(i)' /\ (AfterErrors(i)' <=> attempts[i].failing = {}) /\ ~AfterErrors(i)
  BY <1>1, <1>4 DEF AfterCommit, AfterErrors, Over
<1>7. ContentsOK(i)' /\ \A j \in Imports \ {i} : PutBy(j)' = PutBy(j)
  BY <1>1, <1>2, <1>4, <1>5, <1>6, CommitPuts
<1>8. Step(i)
  <2>1. TypeOK'
    BY <1>1, <1>3 DEF IInv, TypeOK, Schema, Ghosts
  <2> QED
    BY <1>1, <1>3, <1>5, <1>7, <2>1 DEF Step
<1>9. StageOK(i)'
  BY <1>1, <1>2, <1>4 DEF StageOK, Preparing, Loading
<1>10. ProgressOK(i)'
  <2>1. pc \notin Preparing \cup {"queued", "trigger"}
    BY DEF Preparing
  <2> QED
    BY <1>2, <1>4, <1>5, <2>1, ProgressKept
<1>11. ErrorsOK(i)'
  <2>1. \A e \in errors[i] :
          /\ rows'[i].status # "NONE" /\ Prepared(InputOf(i))'
          /\ e.line \in DOMAIN RecordsOf(i)' /\ e.field \in FailingIn(InputOf(i)', ColumnsOf(i)', e.line)
    BY <1>1, <1>2, <1>4, <1>5, ErrorsIn
  <2>2. i \notin failedLate => errors[i] = {}
    BY <1>2, <1>6 DEF ImportOK, ErrorsOK
  <2> QED
    BY <1>1, <1>4, <1>5, <1>6, <2>1, <2>2 DEF ErrorsOK
<1> QED
  BY <1>7, <1>8, <1>9, <1>10, <1>11 DEF ImportOK

\* One whose answer is lost: the rows are in the table, and the attempt has failed.
LEMMA CommitLostStep ==
    ASSUME IInv, NEW i \in Imports, Commits(i), Late(i), Fails(i, "IMPORT_COPY_FAILED"),
           UNCHANGED <<Schema, errors, update>>, retries' \in Nat, throws' \in Nat
    PROVE  Step(i) /\ ImportOK(i)'
<1>1. attempts[i].pc = "copy" /\ "IMPORT_COPY_FAILED" \in Codes
  BY DEF Commits, Codes
<1>2. ImportOK(i) /\ InputOf(i) \in Inputs /\ Prepared(InputOf(i)) /\ rows[i].status = "PROCESSING"
  BY <1>1, Running
<1>3. /\ attempts' \in [Imports -> Attempt] /\ rows' \in [Imports -> Row] /\ rows'[i].status = "FAILED"
      /\ attempts'[i] = [attempts[i] EXCEPT !.pc = "idle"]
      /\ \A j \in Imports \ {i} : attempts'[j] = attempts[j] /\ rows'[j].status = rows[j].status
  BY <1>1, FailsType DEF IInv
<1>4. /\ attempts'[i].pc = "idle" /\ attempts'[i].input = attempts[i].input
      /\ attempts'[i].number = attempts[i].number /\ attempts'[i].read = attempts[i].read
      /\ attempts'[i].sent = attempts[i].sent /\ attempts'[i].failing = attempts[i].failing
  BY <1>3 DEF IInv, TypeOK, Attempt
<1>5. /\ failedLate' \subseteq Imports /\ i \in failedLate' /\ ColumnsKept /\ UNCHANGED columns
      /\ \A j \in Imports \ {i} : j \in failedLate' <=> j \in failedLate
  BY DEF IInv, TypeOK, Late, Schema, ColumnsKept
<1>6. ContentsOK(i)' /\ \A j \in Imports \ {i} : PutBy(j)' = PutBy(j)
  BY <1>3, <1>4, <1>5, CommitPuts
<1>7. Step(i)
  <2>1. TypeOK'
    BY <1>3, <1>5 DEF IInv, TypeOK, Schema
  <2> QED
    BY <1>3, <1>5, <1>6, <2>1 DEF Step
<1>8. StageOK(i)'
  BY <1>2, <1>3, <1>4 DEF StageOK, Preparing, Loading
<1>9. ProgressOK(i)'
  <2>1. "idle" \notin Preparing \cup Loading \cup {"queued", "trigger"}
    BY DEF Preparing, Loading
  <2> QED
    BY <1>2, <1>4, <1>5, <2>1, ProgressKept
<1>10. ~AfterErrors(i) /\ ~AfterErrors(i)'
  BY <1>1, <1>3, <1>4 DEF AfterErrors, Over, DoneStatuses
<1>11. ErrorsOK(i)'
  BY <1>2, <1>3, <1>4, <1>5, <1>10, ErrorsKept
<1> QED
  BY <1>6, <1>7, <1>8, <1>9, <1>11 DEF ImportOK

\* A call whose answer is lost has had its effect, and the attempt has failed.
LEMMA AnswerLostStep ==
    ASSUME IInv, NEW i \in Imports, AnswerLost(i)
    PROVE  Step(i) /\ ImportOK(i)'
<1>1. /\ Fails(i, "IMPORT_COPY_FAILED") /\ UNCHANGED <<update, retries>> /\ throws' = throws + 1
      /\ \/ Creates(i) /\ UNCHANGED <<trigger, contents, errors, failedLate>>
         \/ CreatesTrigger(i) /\ UNCHANGED <<columns, contents, errors, failedLate>>
         \/ Commits(i) /\ Late(i) /\ UNCHANGED <<Schema, errors>>
         \/ SavesErrors(i) /\ Late(i) /\ UNCHANGED <<Schema, contents>>
  BY DEF AnswerLost
<1>2. retries' \in Nat /\ throws' \in Nat /\ "IMPORT_COPY_FAILED" \in Codes
  BY <1>1 DEF IInv, TypeOK, Codes
<1>3. /\ attempts' \in [Imports -> Attempt] /\ rows' \in [Imports -> Row]
      /\ \A j \in Imports \ {i} : attempts'[j] = attempts[j] /\ rows'[j].status = rows[j].status
  BY <1>1, <1>2, FailsType DEF IInv
<1>4. ASSUME attempts[i].pc \in Preparing, ColumnsKept, trigger' \subseteq DOMAIN columns',
             \A t \in DOMAIN columns' : \A c \in DOMAIN columns'[t] : columns'[t][c] \in Column,
             UNCHANGED <<contents, errors, failedLate>>
      PROVE  Step(i) /\ ImportOK(i)'
  <2>1. attempts[i].pc # "errors" /\ failedLate' \subseteq Imports
    BY <1>4 DEF Preparing, IInv, TypeOK
  <2> QED
    BY <1>1, <1>2, <1>3, <1>4, <2>1, Leaves, FailKeeps
<1>5. CASE Creates(i) /\ UNCHANGED <<trigger, contents, errors, failedLate>>
  <2>1. /\ attempts[i].pc \in Preparing /\ CanCreate(InputOf(i))
        /\ columns' = [t \in DOMAIN columns \cup {InputOf(i).table} |->
                         IF t \in DOMAIN columns THEN columns[t] ELSE NewColumns(InputOf(i))]
    BY <1>5 DEF Creates, CanCreateNow, Preparing
  <2>2. ColumnsKept /\ trigger' \subseteq DOMAIN columns'
    BY <1>5, <2>1 DEF ColumnsKept, IInv, TypeOK
  <2>3. \A t \in DOMAIN columns' : \A c \in DOMAIN columns'[t] : columns'[t][c] \in Column
    BY <2>1, NewColumnsType DEF IInv, TypeOK
  <2> QED
    BY <1>4, <1>5, <2>1, <2>2, <2>3
<1>6. CASE CreatesTrigger(i) /\ UNCHANGED <<columns, contents, errors, failedLate>>
  <2>1. attempts[i].pc = "trigger" /\ trigger' = trigger \cup {InputOf(i).table}
    BY <1>6 DEF CreatesTrigger
  <2>2. InputOf(i).table \in DOMAIN columns
    BY <2>1 DEF IInv, ImportOK, ProgressOK
  <2>3. /\ ColumnsKept /\ trigger' \subseteq DOMAIN columns' /\ attempts[i].pc \in Preparing
        /\ \A t \in DOMAIN columns' : \A c \in DOMAIN columns'[t] : columns'[t][c] \in Column
    BY <1>6, <2>1, <2>2 DEF ColumnsKept, IInv, TypeOK, Preparing
  <2> QED
    BY <1>4, <1>6, <2>3
<1>7. CASE Commits(i) /\ Late(i) /\ UNCHANGED <<Schema, errors>>
  BY <1>1, <1>2, <1>7, CommitLostStep
<1>8. CASE SavesErrors(i) /\ Late(i) /\ UNCHANGED <<Schema, contents>>
  <2>1. attempts[i].pc = "errors"
    BY <1>8 DEF SavesErrors
  <2> QED
    BY <1>1, <1>2, <1>8, <2>1, FailLateStep
<1> QED
  BY <1>1, <1>5, <1>6, <1>7, <1>8

-----------------------------------------------------------------------------
(* The invariant is inductive.                                             *)

\* Initially nothing is read and nothing is in a table.
LEMMA InitInv == Init => IInv
<1> SUFFICES ASSUME Init
             PROVE  IInv
  OBVIOUS
<1>1. TypeOK
  <2>1. NoAttempt \in Attempt /\ NewRow \in Row
    BY DEF NoAttempt, Attempt, NewRow, Row, Statuses
  <2> QED
    BY <2>1, ExistingAssumption DEF Init, TypeOK
<1>2. ASSUME NEW i \in Imports
      PROVE  ImportOK(i)
  <2>1. /\ attempts[i] = NoAttempt /\ attempts[i].pc = "idle" /\ attempts[i].read = 0 /\ attempts[i].sent = <<>>
        /\ attempts[i].failing = {} /\ rows[i].status = "NONE" /\ contents = {} /\ errors[i] = {}
    BY DEF Init, NoAttempt, NewRow
  <2>2. ~AfterErrors(i) /\ ~AfterCommit(i)
    BY <2>1 DEF AfterErrors, AfterCommit, Over, DoneStatuses
  <2>3. StageOK(i)
    BY <2>1 DEF StageOK, Preparing, Loading
  <2>4. ProgressOK(i)
    BY <2>1 DEF ProgressOK, Loading
  <2>5. ContentsOK(i) /\ ErrorsOK(i)
    BY <2>1, <2>2 DEF ContentsOK, ErrorsOK, PutBy
  <2> QED
    BY <2>3, <2>4, <2>5 DEF ImportOK
<1> QED
  BY <1>1, <1>2 DEF Init, IInv

\* What one import does.
Does(i) ==
    \/ Begin(i) \/ ReadHeaders(i) \/ CheckTable(i) \/ CreateTable(i) \/ CreateTrigger(i)
    \/ Prepare(i) \/ ProcessQueued(i) \/ Retry(i)
    \/ Stream(i) \/ SendProgress(i) \/ ProgressLands(i) \/ CopyRefused(i) \/ Commit(i)
    \/ SaveErrors(i) \/ ErrorsRefused(i) \/ Finish(i) \/ Throws(i) \/ AnswerLost(i)

\* Each action keeps what is known of its import and leaves the others alone.
LEMMA EachStep ==
    ASSUME IInv, NEW i \in Imports, Does(i)
    PROVE  Step(i) /\ ImportOK(i)'
<1>1. CASE Begin(i)
  BY <1>1, BeginStep
<1>2. CASE ReadHeaders(i)
  BY <1>2, ReadHeadersStep
<1>3. CASE CheckTable(i)
  BY <1>3, CheckTableStep
<1>4. CASE CreateTable(i)
  BY <1>4, CreateTableStep
<1>5. CASE CreateTrigger(i)
  BY <1>5, CreateTriggerStep
<1>6. CASE Prepare(i)
  BY <1>6, PrepareActionStep
<1>7. CASE ProcessQueued(i)
  BY <1>7, ProcessQueuedStep
<1>8. CASE Retry(i)
  BY <1>8, RetryStep
<1>9. CASE Stream(i)
  BY <1>9, StreamStep
<1>10. CASE SendProgress(i)
  BY <1>10, SendProgressStep
<1>11. CASE ProgressLands(i)
  BY <1>11, ProgressLandsStep
<1>12. CASE CopyRefused(i)
  BY <1>12, CopyRefusedStep
<1>13. CASE Commit(i)
  BY <1>13, CommitStep
<1>14. CASE SaveErrors(i)
  BY <1>14, SaveErrorsStep
<1>15. CASE Finish(i)
  BY <1>15, FinishStep
<1>16. CASE Throws(i)
  BY <1>16, ThrowsStep
<1>17. CASE ErrorsRefused(i)
  BY <1>17, ErrorsRefusedStep
<1>18. CASE AnswerLost(i)
  BY <1>18, AnswerLostStep
<1> QED
  BY <1>1, <1>2, <1>3, <1>4, <1>5, <1>6, <1>7, <1>8, <1>9, <1>10, <1>11, <1>12, <1>13, <1>14, <1>15, <1>16,
     <1>17, <1>18 DEF Does

\* Every step keeps the invariant.
LEMMA NextInv == IInv /\ [Next]_vars => IInv'
<1> SUFFICES ASSUME IInv, [Next]_vars
             PROVE  IInv'
  OBVIOUS
<1>1. ASSUME NEW i \in Imports, Does(i)
      PROVE  IInv'
  <2>1. Step(i) /\ ImportOK(i)'
    BY <1>1, EachStep
  <2>2. ASSUME NEW j \in Imports \ {i}
        PROVE  ImportOK(j)'
    BY <2>1, OthersKeep DEF Step, IInv
  <2>3. DOMAIN Existing \subseteq DOMAIN columns'
    BY <2>1 DEF Step, IInv, ColumnsKept
  <2> QED
    BY <2>1, <2>2, <2>3 DEF IInv, Step
<1>2. CASE UNCHANGED vars
  <2>1. TypeOK' /\ DOMAIN Existing \subseteq DOMAIN columns'
    BY <1>2 DEF IInv, TypeOK, vars
  <2>2. ColumnsKept
    BY <1>2 DEF ColumnsKept, vars
  <2>3. ASSUME NEW j \in Imports
        PROVE  ImportOK(j)'
    BY <1>2, <2>2, OthersKeep DEF PutBy, IInv, vars
  <2> QED
    BY <2>1, <2>3 DEF IInv
<1> QED
  BY <1>1, <1>2 DEF Next, Does

\* The invariant holds in every reachable state.
LEMMA Invariance == Spec => []IInv
BY InitInv, NextInv, PTL DEF Spec

\* All data has its type in every reachable state.
THEOREM Typing == Spec => []TypeOK
<1>1. IInv => TypeOK
  BY DEF IInv
<1> QED
  BY Invariance, <1>1, PTL
-----------------------------------------------------------------------------
(* What is in the table is the file.                                       *)

\* Without the marker, an import that has committed its last COPY has put the
\* lines of all good records, and no others.
LEMMA AllGoodLines ==
    ASSUME IInv, NEW i \in Imports, AfterCommit(i), ~Marked(i)
    PROVE  LinesPut(i) = {line \in AllLines(i) : Failing(i, line) = {}}
<1> PICK input : input = InputOf(i)
  OBVIOUS
<1> PICK cols : cols = ColumnsOf(i)
  OBVIOUS
<1>1. Whole(i, input, cols, attempts[i].number) /\ ~MarkedIn(input)
  BY DEF IInv, ImportOK, ContentsOK, Marked, MarkedIn, AllLines
<1>2. \A line : Failing(i, line) = FailingIn(input, cols, line)
  BY DEF Failing, FailingIn, TargetsOf, TargetsIn
<1>3. \A c \in Put(i) : c.line \in AllLines(i) /\ Failing(i, c.line) = {}
  BY <1>2 DEF IInv, ImportOK, ContentsOK, RowOK, Put, PutBy, AllLines
<1>4. \A line \in AllLines(i) : Failing(i, line) = {} => \E c \in Put(i) : c.line = line
  BY <1>1, <1>2 DEF Whole, Put, PutBy, AllLines
<1> QED
  BY <1>3, <1>4 DEF LinesPut

\* An import that is done is over, and has kept the errors of its records.
LEMMA DoneIsOver ==
    ASSUME IInv, NEW i \in Imports, rows[i].status \in DoneStatuses
    PROVE  AfterErrors(i) /\ AfterCommit(i) /\ attempts[i].failing \subseteq errors[i]
<1>1. attempts[i].pc \in Preparing \cup Loading \cup {"idle", "queued"}
  BY AttemptFields DEF IInv, Attempt, Preparing, Loading
<1>2. attempts[i].pc = "idle"
  BY <1>1 DEF IInv, ImportOK, StageOK, DoneStatuses
<1>3. AfterErrors(i) /\ AfterCommit(i)
  BY <1>2 DEF AfterErrors, AfterCommit, Over
<1> QED
  BY <1>3 DEF IInv, ImportOK, ErrorsOK

\* A cell of the table is the converted cell of the column's header.
LEMMA CellIsTheFiles ==
    ASSUME IInv, NEW i \in Imports, NEW c \in Put(i), NEW name \in DOMAIN c.row
    PROVE  {c.row[name]} = CellOf(i, c.line, name)
<1> PICK input : input = InputOf(i)
  OBVIOUS
<1> PICK cols : cols = columns[input.table]
  OBVIOUS
<1> PICK line : line = c.line
  OBVIOUS
<1> PICK n : n = Len(input.headers)
  OBVIOUS
<1> PICK targets : targets = TargetsIn(input)
  OBVIOUS
<1> PICK row : row = RowIn(input, cols, line)
  OBVIOUS
<1>1. Prepared(input) /\ RowOK(c, input, cols) /\ input \in Inputs
  BY DEF IInv, ImportOK, ContentsOK, StageOK, Put, PutBy
<1>2. /\ line \in DOMAIN input.records /\ ~BadWidth(input, line) /\ FailingIn(input, cols, line) = {}
      /\ c.row = Under(input, row)
  BY <1>1 DEF RowOK
<1>3. /\ n \in Nat /\ DOMAIN targets = 1 .. n /\ targets \in Seq(ElementsOf(targets)) /\ Distinct(targets)
  BY <1>1, PreparedTable DEF IInv
<1>4. /\ row \in [1 .. n -> Value]
      /\ \A k \in 1 .. n : transformValue(input.records[line][k], cols[targets[k]], input.options) = {row[k]}
  <2>1. /\ RowIn(input, columns[input.table], line) \in [1 .. Len(input.headers) -> Value]
        /\ \A k \in 1 .. Len(input.headers) :
             transformValue(input.records[line][k], columns[input.table][TargetsIn(input)[k]], input.options)
               = {RowIn(input, columns[input.table], line)[k]}
    BY <1>1, <1>2, GoodRow DEF IInv
  <2> QED
    BY <2>1, Zenon
<1>5. name \in ElementsOf(targets) /\ c.row[name] = row[CHOOSE k \in DOMAIN row : targets[k] = name]
  BY <1>2 DEF Under
<1>6. PICK k \in 1 .. n : targets[k] = name
  BY <1>3, <1>5 DEF ElementsOf
<1>7. \A j \in 1 .. n : targets[j] = name => j = k
  BY <1>3, <1>6, DistinctAt
<1>8. (CHOOSE j \in DOMAIN row : targets[j] = name) = k
  <2>1. DOMAIN row = 1 .. n
    BY <1>4
  <2> QED
    BY <1>6, <1>7, <2>1
<1>9. /\ DOMAIN input.headers = 1 .. n
      /\ \A j \in 1 .. n : Target(input.mapping, input.headers[j]) = targets[j]
  BY <1>3 DEF TargetsIn, Targets
<1>10. (CHOOSE j \in DOMAIN input.headers : Target(input.mapping, input.headers[j]) = name) = k
  BY <1>6, <1>7, <1>9
<1>11. CellOf(i, line, name) = transformValue(input.records[line][k], cols[name], input.options)
  BY <1>10 DEF CellOf
<1>12. c.row[name] = row[k]
  BY <1>5, <1>8
<1>13. transformValue(input.records[line][k], cols[name], input.options) = {row[k]}
  BY <1>4, <1>6
<1> QED
  BY <1>11, <1>12, <1>13

\* Two rows that one attempt has put for one record are one row.
LEMMA OnceEach ==
    ASSUME IInv, NEW i \in Imports, i \notin failedLate, NEW c \in Put(i), NEW d \in Put(i), c.line = d.line
    PROVE  c = d
<1> PICK input : input = InputOf(i)
  OBVIOUS
<1> PICK cols : cols = ColumnsOf(i)
  OBVIOUS
<1>1. /\ c.attempt = d.attempt /\ c.imp = d.imp
      /\ RowOK(c, input, cols) /\ RowOK(d, input, cols)
  BY DEF IInv, ImportOK, ContentsOK, Put, PutBy
<1> PICK row : row = Under(input, RowIn(input, cols, c.line))
  OBVIOUS
<1>2. /\ c = [imp |-> c.imp, attempt |-> c.attempt, line |-> c.line, row |-> row]
      /\ d = [imp |-> d.imp, attempt |-> d.attempt, line |-> d.line, row |-> row]
  BY <1>1 DEF RowOK
<1> QED
  BY <1>1, <1>2

\* An import shown as done has put into its table, in all its attempts, the rows
\* of exactly the records of its file that convert, cell for cell, whatever their
\* texts, however they are quoted for COPY and whichever calls have failed before;
\* and each once, unless an attempt has failed after its COPY was committed.
THEOREM TableIsTheFile == Spec => []TableHasTheFile
<1>1. IInv => TableHasTheFile
  <2> SUFFICES ASSUME IInv, NEW i \in Imports, rows[i].status \in DoneStatuses, ~Marked(i)
               PROVE  /\ LinesPut(i) = {line \in AllLines(i) : Failing(i, line) = {}}
                      /\ \A c \in Put(i) : \A name \in DOMAIN c.row : {c.row[name]} = CellOf(i, c.line, name)
                      /\ i \notin failedLate => \A c, d \in Put(i) : c.line = d.line => c = d
    BY DEF TableHasTheFile
  <2>1. LinesPut(i) = {line \in AllLines(i) : Failing(i, line) = {}}
    BY DoneIsOver, AllGoodLines
  <2>2. ASSUME NEW c \in Put(i), NEW name \in DOMAIN c.row
        PROVE  {c.row[name]} = CellOf(i, c.line, name)
    BY CellIsTheFiles
  <2>3. i \notin failedLate => \A c, d \in Put(i) : c.line = d.line => c = d
    BY OnceEach
  <2> QED
    BY <2>1, <2>2, <2>3
<1> QED
  BY Invariance, <1>1, PTL

\* The errors of an import that has kept them name exactly the records that fail.
LEMMA ErrorLines ==
    ASSUME IInv, NEW i \in Imports, AfterErrors(i), AfterCommit(i)
    PROVE  {e.line : e \in errors[i]} = {line \in AllLines(i) : Failing(i, line) # {}}
<1> PICK input : input = InputOf(i)
  OBVIOUS
<1> PICK cols : cols = ColumnsOf(i)
  OBVIOUS
<1> PICK failing : failing = attempts[i].failing
  OBVIOUS
<1> PICK number : number = attempts[i].number
  OBVIOUS
<1>1. attempts[i].read = Len(input.records) /\ input \in Inputs
  BY DEF IInv, ImportOK, ContentsOK, StageOK, AfterCommit, Over, Loading, DoneStatuses
<1>2. ReadOK(input, cols, number, Len(input.records), attempts[i].sent, failing)
  <2>1. CASE attempts[i].read = 0
    <3>1. attempts[i].sent = <<>> /\ attempts[i].failing = {}
      BY <2>1 DEF IInv, ImportOK, ProgressOK
    <3> QED
      BY <1>1, <2>1, <3>1, ReadStart
  <2>2. CASE attempts[i].read # 0
    BY <1>1, <2>2 DEF IInv, ImportOK, ProgressOK
  <2> QED
    BY <2>1, <2>2
<1>3. AllLines(i) = 1 .. Len(input.records)
  BY <1>1, InputsAssumption DEF AllLines
<1>4. \A line : Failing(i, line) = FailingIn(input, cols, line)
  BY DEF Failing, FailingIn, TargetsOf, TargetsIn
<1>5. \A e \in errors[i] : e.line \in AllLines(i) /\ Failing(i, e.line) # {}
  BY <1>4 DEF IInv, ImportOK, ErrorsOK, AllLines
<1>6. failing \subseteq errors[i]
  BY DEF IInv, ImportOK, ErrorsOK
<1>7. ASSUME NEW line \in AllLines(i), Failing(i, line) # {}
      PROVE  \E e \in errors[i] : e.line = line
  <2>1. PICK k \in FailingIn(input, cols, line) : TRUE
    BY <1>4, <1>7
  <2>2. [attempt |-> number, line |-> line, field |-> k] \in failing
    BY <1>2, <1>3, <2>1 DEF ReadOK
  <2> QED
    BY <1>6, <2>2
<1> QED
  BY <1>5, <1>7

\* What a partly completed import has skipped is what its list of errors names,
\* whichever calls have failed; and the list holds the errors of its last attempt
\* only, unless one has failed after its COPY was committed.
THEOREM Reported == Spec => []SkippedAreReported
<1>1. IInv => SkippedAreReported
  <2> SUFFICES ASSUME IInv, NEW i \in Imports
               PROVE  /\ rows[i].status = "PARTIALLY_COMPLETED" /\ ~Marked(i) =>
                           {e.line : e \in errors[i]} = AllLines(i) \ LinesPut(i)
                      /\ i \notin failedLate => \A e \in errors[i] : e.attempt = attempts[i].number
    BY DEF SkippedAreReported
  <2>1. ASSUME rows[i].status = "PARTIALLY_COMPLETED", ~Marked(i)
        PROVE  {e.line : e \in errors[i]} = AllLines(i) \ LinesPut(i)
    <3>1. AfterCommit(i) /\ AfterErrors(i)
      BY <2>1, DoneIsOver DEF DoneStatuses
    <3>2. LinesPut(i) = {line \in AllLines(i) : Failing(i, line) = {}}
      BY <2>1, <3>1, AllGoodLines
    <3>3. {e.line : e \in errors[i]} = {line \in AllLines(i) : Failing(i, line) # {}}
      BY <3>1, ErrorLines
    <3> QED
      BY <3>2, <3>3
  <2>2. ASSUME i \notin failedLate
        PROVE  \A e \in errors[i] : e.attempt = attempts[i].number
    <3>1. \A e \in attempts[i].failing : e.attempt = attempts[i].number
      BY DEF IInv, ImportOK, ProgressOK, ReadOK
    <3> QED
      BY <2>2, <3>1 DEF IInv, ImportOK, ErrorsOK
  <2> QED
    BY <2>1, <2>2
<1> QED
  BY Invariance, <1>1, PTL

\* Each attempt at a strict import has put its whole file into the table, or
\* nothing, whether calls fail before or after they have their effect.
THEOREM StrictIsAtomic == Spec => []StrictIsAllOrNothing
<1>1. IInv => StrictIsAllOrNothing
  <2> SUFFICES ASSUME IInv, NEW i \in Imports, NEW c \in Put(i), Strict(i)
               PROVE  /\ ~Marked(i) => {d.line : d \in {d \in Put(i) : d.attempt = c.attempt}} = AllLines(i)
                      /\ rows[i].status = "FAILED" => i \in failedLate
    BY DEF StrictIsAllOrNothing
  <2> PICK input : input = InputOf(i)
    OBVIOUS
  <2> PICK cols : cols = ColumnsOf(i)
    OBVIOUS
  <2>1. /\ AllGood(input, cols) /\ Whole(i, input, cols, c.attempt)
        /\ i \notin failedLate => AfterCommit(i)
    BY DEF IInv, ImportOK, ContentsOK, Put, PutBy
  <2>2. rows[i].status = "FAILED" => i \in failedLate
    BY <2>1 DEF IInv, ImportOK, StageOK, AfterCommit, Over, DoneStatuses, Loading
  <2>3. ASSUME ~Marked(i)
        PROVE  {d.line : d \in {d \in Put(i) : d.attempt = c.attempt}} = AllLines(i)
    <3>1. \A line \in AllLines(i) : \E d \in Put(i) : d.attempt = c.attempt /\ d.line = line
      BY <2>1, <2>3 DEF AllGood, Strict, Whole, Marked, MarkedIn, AllLines, Put, PutBy
    <3>2. \A d \in Put(i) : d.line \in AllLines(i)
      BY DEF IInv, ImportOK, ContentsOK, RowOK, Put, PutBy, AllLines
    <3> QED
      BY <3>1, <3>2
  <2> QED
    BY <2>2, <2>3
<1> QED
  BY Invariance, <1>1, PTL

-----------------------------------------------------------------------------
(* The trigger of a new table.                                             *)

\* A created table that has a maintained updated_at is one that wants a trigger.
LEMMA NewTableTrigger ==
    ASSUME NEW input, CanCreate(input), NewColumns(input)["updated_at"].type = "timestamp with time zone"
    PROVE  WantsTrigger(input)
<1>1. CASE "updated_at" \notin ElementsOf(NewNames(input))
  BY <1>1 DEF WantsTrigger
<1>2. CASE "updated_at" \in ElementsOf(NewNames(input))
  <2>1. NewColumns(input)["updated_at"] = NewColumn(TypeOf(input, "updated_at"), FALSE)
    BY <1>2 DEF NewColumns
  <2>2. DataType(TypeOf(input, "updated_at")) = "timestamp with time zone"
    <3>1. \A type, default : NewColumn(type, default).type = DataType(type)
      BY DEF NewColumn
    <3> QED
      BY <2>1, <3>1
  <2>3. TypeOf(input, "updated_at") \in NEW_TABLE_COLUMN_TYPES
    BY <1>2 DEF CanCreate
  <2>4. TypeOf(input, "updated_at") = "timestamptz"
    BY <2>2, <2>3 DEF DataType, NEW_TABLE_COLUMN_TYPES
  <2> QED
    BY <2>4 DEF WantsTrigger
<1> QED
  BY <1>1, <1>2

\* Steps that create no table and leave those that are about to get a trigger.
LEMMA TriggerKept ==
    ASSUME TriggerFollows, UNCHANGED columns, trigger \subseteq trigger', throws' = 0 => throws = 0,
           \A i \in Imports : At(i, "trigger") =>
               \/ attempts'[i].pc = "trigger" /\ attempts'[i].input = attempts[i].input
               \/ attempts[i].input.table \in trigger'
    PROVE  TriggerFollows'
<1> SUFFICES ASSUME throws' = 0, NEW t \in DOMAIN columns \ DOMAIN Existing,
                    "updated_at" \in DOMAIN columns[t],
                    columns[t]["updated_at"].type = "timestamp with time zone"
             PROVE  t \in trigger' \/ \E i \in Imports : At(i, "trigger")' /\ InputOf(i)'.table = t
  BY DEF TriggerFollows
<1>1. t \in trigger \/ \E i \in Imports : At(i, "trigger") /\ InputOf(i).table = t
  BY DEF TriggerFollows
<1> QED
  BY <1>1

\* Only the creation of a table adds one that wants its trigger, and it comes next.
LEMMA TriggerNext == IInv /\ TriggerFollows /\ [Next]_vars => TriggerFollows'
<1> SUFFICES ASSUME IInv, TriggerFollows, [Next]_vars
             PROVE  TriggerFollows'
  OBVIOUS
<1>1. ASSUME NEW i \in Imports, Does(i)
      PROVE  TriggerFollows'
  <2>1. \A j \in Imports \ {i} : attempts'[j] = attempts[j]
    BY <1>1, EachStep DEF Step
  <2>2. ASSUME UNCHANGED Schema, UNCHANGED throws, attempts[i].pc # "trigger"
        PROVE  TriggerFollows'
    BY <2>1, <2>2, TriggerKept DEF Schema
  <2>3. CASE Begin(i)
    <3>1. attempts[i].pc # "trigger"
      BY <2>3 DEF Begin, IInv, ImportOK, StageOK, NoAttempt
    <3> QED
      BY <2>2, <2>3, <3>1 DEF Begin, Ghosts
  <2>4. CASE ReadHeaders(i)
    BY <2>2, <2>4 DEF ReadHeaders, Ghosts
  <2>5. CASE CheckTable(i)
    BY <2>2, <2>5 DEF CheckTable, Ghosts
  <2>6. CASE CreateTable(i)
    <3> PICK input : input = InputOf(i)
      OBVIOUS
    <3>1. attempts[i].pc = "create" /\ UNCHANGED <<trigger, throws>>
      BY <2>6 DEF CreateTable, Creates, Ghosts
    <3>2. CASE CanCreate(input) /\ input.table \notin DOMAIN columns
      <4>1. /\ columns' = [t \in DOMAIN columns \cup {input.table} |->
                             IF t \in DOMAIN columns THEN columns[t] ELSE NewColumns(input)]
            /\ Goto(i, IF WantsTrigger(input) THEN "trigger" ELSE "metadata")
        BY <2>6, <3>2 DEF CreateTable, Creates, CanCreateNow
      <4>2. SUFFICES ASSUME throws' = 0, NEW t \in DOMAIN columns' \ DOMAIN Existing,
                            "updated_at" \in DOMAIN columns'[t],
                            columns'[t]["updated_at"].type = "timestamp with time zone"
                     PROVE  t \in trigger' \/ \E j \in Imports : At(j, "trigger")' /\ InputOf(j)'.table = t
        BY DEF TriggerFollows
      <4>3. CASE t \in DOMAIN columns
        <5>1. t \in trigger \/ \E j \in Imports : At(j, "trigger") /\ InputOf(j).table = t
          BY <3>1, <4>1, <4>2, <4>3 DEF TriggerFollows
        <5>2. CASE t \in trigger
          BY <3>1, <5>2
        <5>3. ASSUME NEW j \in Imports, At(j, "trigger"), InputOf(j).table = t
              PROVE  At(j, "trigger")' /\ InputOf(j)'.table = t
          BY <2>1, <3>1, <5>3
        <5> QED
          BY <5>1, <5>2, <5>3
      <4>4. CASE t \notin DOMAIN columns
        <5>1. t = input.table /\ columns'[t] = NewColumns(input)
          BY <4>1, <4>4
        <5>2. WantsTrigger(input)
          BY <3>2, <4>2, <5>1, NewTableTrigger
        <5>3. Goto(i, "trigger") /\ "trigger" \in Preparing
          BY <4>1, <5>2 DEF Preparing
        <5>4. attempts'[i] = [attempts[i] EXCEPT !.pc = "trigger"] /\ attempts[i] \in Attempt
          BY <5>3, GotoType, AttemptFields DEF IInv
        <5>5. attempts'[i].pc = "trigger" /\ attempts'[i].input = input
          BY <5>4 DEF Attempt
        <5> QED
          BY <5>1, <5>5
      <4> QED
        BY <4>3, <4>4
    <3>3. CASE ~(CanCreate(input) /\ input.table \notin DOMAIN columns)
      <4>1. UNCHANGED Schema
        BY <2>6, <3>1, <3>3 DEF CreateTable, Creates, CanCreateNow, Schema
      <4> QED
        BY <2>2, <3>1, <4>1
    <3> QED
      BY <3>2, <3>3
  <2>7. CASE CreateTrigger(i)
    <3>1. UNCHANGED <<columns, throws>> /\ trigger' = trigger \cup {attempts[i].input.table}
      BY <2>7 DEF CreateTrigger, CreatesTrigger, Ghosts
    <3> QED
      BY <2>1, <3>1, TriggerKept
  <2>8. CASE Prepare(i)
    BY <2>2, <2>8 DEF Prepare, Ghosts
  <2>9. CASE ProcessQueued(i)
    BY <2>2, <2>9 DEF ProcessQueued, Ghosts
  <2>10. CASE Retry(i)
    BY <2>2, <2>10 DEF Retry, Retried
  <2>11. CASE Stream(i)
    BY <2>2, <2>11 DEF Stream, Ghosts
  <2>12. CASE SendProgress(i)
    BY <2>2, <2>12 DEF SendProgress, Ghosts
  <2>13. CASE ProgressLands(i)
    BY <2>13, TriggerKept DEF ProgressLands, Schema, Ghosts
  <2>14. CASE CopyRefused(i)
    BY <2>2, <2>14 DEF CopyRefused, Ghosts
  <2>15. CASE Commit(i)
    BY <2>2, <2>15 DEF Commit, Commits, Ghosts
  <2>16. CASE SaveErrors(i)
    BY <2>2, <2>16 DEF SaveErrors, SavesErrors, Ghosts
  <2>17. CASE Finish(i)
    BY <2>2, <2>17 DEF Finish, Ghosts
  <2>19. CASE ErrorsRefused(i)
    BY <2>2, <2>19 DEF ErrorsRefused
  <2>18. CASE Throws(i) \/ AnswerLost(i)
    <3>1. throws \in Nat /\ throws' = throws + 1
      BY <2>18 DEF Throws, AnswerLost, IInv, TypeOK
    <3>2. throws' # 0
      BY <3>1
    <3> QED
      BY <3>2 DEF TriggerFollows
  <2> QED
    BY <1>1, <2>3, <2>4, <2>5, <2>6, <2>7, <2>8, <2>9, <2>10, <2>11, <2>12, <2>13, <2>14, <2>15, <2>16, <2>17, <2>18,
       <2>19        DEF Does
<1>2. CASE UNCHANGED vars
  BY <1>2, TriggerKept DEF vars
<1> QED
  BY <1>1, <1>2 DEF Next, Does

\* Whatever tables are created, by whichever imports at the same time: one with
\* a maintained updated_at has its trigger or is about to get it, as long as no
\* call has failed.
THEOREM TriggerIsAttached == Spec => []TriggerFollows
<1>1. Init => TriggerFollows
  BY DEF Init, TriggerFollows
<1> QED
  BY Invariance, TriggerNext, <1>1, PTL DEF Spec
-----------------------------------------------------------------------------
(* Final statuses.                                                         *)

\* A row changes only while its import is not over, or when it is retried.
RowMoves(i) ==
    /\ \A j \in Imports \ {i} : rows'[j] = rows[j]
    /\ \/ rows'[i] = rows[i]
       \/ rows[i].status \notin DoneStatuses \cup {"FAILED"}
       \/ rows[i].status = "FAILED" /\ rows'[i].status = "QUEUED"

\* Each action moves the row of its import so, or leaves it.
LEMMA EachRowMoves ==
    ASSUME IInv, NEW i \in Imports, Does(i)
    PROVE  RowMoves(i)
<1>1. /\ attempts[i].pc \in Preparing \cup Loading => rows[i].status \in {"VALIDATING", "PROCESSING"}
      /\ attempts[i].pc = "queued" => rows[i].status = "QUEUED"
  BY DEF IInv, ImportOK, StageOK
<1>2. rows \in [Imports -> Row]
  BY AttemptFields DEF IInv
<1>3. ASSUME UNCHANGED rows
      PROVE  RowMoves(i)
  BY <1>3 DEF RowMoves
<1>4. ASSUME \A j \in Imports \ {i} : rows'[j] = rows[j], rows[i].status \notin DoneStatuses \cup {"FAILED"}
      PROVE  RowMoves(i)
  BY <1>4 DEF RowMoves
<1>5. ASSUME \A j \in Imports \ {i} : rows'[j] = rows[j], attempts[i].pc \in Preparing \cup Loading \cup {"queued"}
      PROVE  RowMoves(i)
  <2>1. rows[i].status \notin DoneStatuses \cup {"FAILED"}
    BY <1>1, <1>5 DEF DoneStatuses
  <2> QED
    BY <1>4, <1>5, <2>1
<1>6. ASSUME NEW code, Fails(i, code), attempts[i].pc \in Preparing \cup Loading
      PROVE  RowMoves(i)
  <2>1. \A j \in Imports \ {i} : rows'[j] = rows[j]
    BY <1>2, <1>6 DEF Fails
  <2> QED
    BY <1>5, <1>6, <2>1
<1>7. CASE Begin(i)
  <2>1. rows[i].status = "NONE" /\ \A j \in Imports \ {i} : rows'[j] = rows[j]
    BY <1>2, <1>7 DEF Begin
  <2> QED
    BY <1>4, <2>1 DEF DoneStatuses
<1>8. CASE ReadHeaders(i)
  BY <1>3, <1>6, <1>8 DEF ReadHeaders, Preparing
<1>9. CASE CheckTable(i)
  BY <1>3, <1>9 DEF CheckTable
<1>10. CASE CreateTable(i)
  BY <1>3, <1>6, <1>10 DEF CreateTable, Creates, Preparing
<1>11. CASE CreateTrigger(i)
  BY <1>3, <1>11 DEF CreateTrigger
<1>12. CASE Prepare(i)
  <2>1. attempts[i].pc \in Preparing
    BY <1>12 DEF Prepare, Preparing
  <2>2. \/ Fails(i, "IMPORT_COPY_FAILED")
        \/ \A j \in Imports \ {i} : rows'[j] = rows[j]
    BY <1>2, <1>12 DEF Prepare
  <2> QED
    BY <1>5, <1>6, <2>1, <2>2
<1>13. CASE ProcessQueued(i)
  BY <1>2, <1>5, <1>13 DEF ProcessQueued
<1>14. CASE Retry(i)
  <2>1. rows[i].status = "FAILED" /\ rows' = [rows EXCEPT ![i] = [NewRow EXCEPT !.status = "QUEUED"]]
    BY <1>14 DEF Retry, Retried
  <2>2. [NewRow EXCEPT !.status = "QUEUED"].status = "QUEUED"
    BY DEF NewRow
  <2>3. rows'[i].status = "QUEUED" /\ \A j \in Imports \ {i} : rows'[j] = rows[j]
    BY <1>2, <2>1, <2>2
  <2> QED
    BY <2>1, <2>3 DEF RowMoves
<1>15. CASE Stream(i)
  BY <1>3, <1>6, <1>15 DEF Stream, Loading
<1>16. CASE SendProgress(i)
  BY <1>3, <1>16 DEF SendProgress
<1>17. CASE ProgressLands(i)
  <2>1. \/ UNCHANGED rows
        \/ rows[i].status = "PROCESSING" /\ \A j \in Imports \ {i} : rows'[j] = rows[j]
    BY <1>2, <1>17 DEF ProgressLands
  <2> QED
    BY <1>3, <1>4, <2>1 DEF DoneStatuses
<1>18. CASE CopyRefused(i)
  BY <1>6, <1>18 DEF CopyRefused, Loading
<1>19. CASE Commit(i)
  BY <1>3, <1>19 DEF Commit
<1>20. CASE SaveErrors(i)
  BY <1>3, <1>20 DEF SaveErrors
<1>21. CASE Finish(i)
  BY <1>2, <1>5, <1>21 DEF Finish, Loading
<1>22. CASE Throws(i)
  <2>1. UNCHANGED rows \/ Fails(i, "IMPORT_COPY_FAILED")
    BY <1>22 DEF Throws
  <2>2. attempts[i].pc \in Preparing \cup Loading
    BY <1>22, AttemptFields DEF Throws, IInv, Attempt, Preparing, Loading
  <2> QED
    BY <1>3, <1>6, <2>1, <2>2
<1>23. CASE ErrorsRefused(i)
  BY <1>6, <1>23 DEF ErrorsRefused, Loading
<1>24. CASE AnswerLost(i)
  <2>1. Fails(i, "IMPORT_COPY_FAILED") /\ attempts[i].pc \in Preparing \cup Loading
    BY <1>24 DEF AnswerLost, Creates, CreatesTrigger, Commits, SavesErrors, Preparing, Loading
  <2> QED
    BY <1>6, <2>1
<1> QED
  BY <1>7, <1>8, <1>9, <1>10, <1>11, <1>12, <1>13, <1>14, <1>15, <1>16, <1>17, <1>18, <1>19, <1>20, <1>21, <1>22,
     <1>23, <1>24      DEF Does

\* A final status is final, however late a progress update lands: only a retry
\* leaves FAILED, and nothing leaves the others.
THEOREM FinalStays == Spec => FinalIsKept
<1> DEFINE Kept == \A i \in Imports :
                     rows[i].status \in DoneStatuses \cup {"FAILED"} /\ rows'[i] # rows[i]
                     => rows[i].status = "FAILED" /\ rows'[i].status = "QUEUED"
<1>1. IInv /\ [Next]_vars => [Kept]_vars
  <2> SUFFICES ASSUME IInv, Next
               PROVE  Kept
    OBVIOUS
  <2>1. PICK i \in Imports : Does(i)
    BY DEF Next, Does
  <2>2. RowMoves(i)
    BY <2>1, EachRowMoves
  <2> QED
    BY <2>2 DEF RowMoves
<1> QED
  BY Invariance, <1>1, PTL DEF Spec, FinalIsKept
===============================================================================
