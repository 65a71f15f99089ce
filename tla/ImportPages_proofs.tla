--------------------------- MODULE ImportPages_proofs ---------------------------
(***************************************************************************)
(* Proofs about the pages of the web application, for all files, tables    *)
(* and imports and any number of clicks: first the wizard by itself, then  *)
(* the wizard among the other pages.                                       *)
(***************************************************************************)
EXTENDS ImportPages, FiniteSetTheorems, SequenceTheorems, TLAPS

USE WizardAssumption
-----------------------------------------------------------------------------
(* Types.                                                                  *)

\* The headers that the page shows, and what can stand as a column's name.
Headers == UNION {ElementsOf(csvHeaders(f)) : f \in Files}
NewNamesOf(f) == dedupeColumnNames(sanitizeColumnNames(csvHeaders(f)))
ColumnNames ==
    {Null} \cup TypedNames \cup (UNION {DOMAIN Existing[t] : t \in DOMAIN Existing})
      \cup (UNION {ElementsOf(NewNamesOf(f)) : f \in Files})

MappingRow == [csvHeader : Headers, dataType : {Null, "text", "integer"}, targetColumn : ColumnNames]

Page == [step : 0 .. 4, file : Files \cup {Null}, schema : Schemas \cup {Null},
         table : {Null} \cup TypedNames \cup {t[2] : t \in DOMAIN Existing},
         createTable : BOOLEAN, mapping : Seq(MappingRow), importMode : {"STRICT", "FLEXIBLE"},
         sent : {"none", "sending", "refused", "duplicate"}]
-----------------------------------------------------------------------------
(* The invariant.                                                          *)

\* What the rules of the page ask of a mapping.
Valid(p) ==
    IF p.createTable THEN isNewTableMappingValid(p.mapping)
    ELSE missingRequiredColumns(p.mapping, Existing[Destination(p)]) = {}

\* The columns that an existing table offers.
InTable(p) ==
    ~p.createTable =>
        \A k \in DOMAIN p.mapping : p.mapping[k].targetColumn \in DOMAIN Existing[Destination(p)] \cup {Null}

\* No step is reached without what the steps before it ask for.
Placed(p) ==
    /\ p.step # 0 => p.file # Null
    /\ p.step > 1 => p.schema # Null /\ p.table # Null /\ (p.createTable => p.table \in SafeNames)
    /\ ~p.createTable /\ p.table # Null => Destination(p) \in DOMAIN Existing
    /\ p.sent = "sending" => p.step = 4

\* The mapping is that of the file once there is one to show, and past its step
\* it obeys the rules.
Sound(p, loaded) ==
    /\ p.file = Null => p.mapping = <<>>
    /\ p.mapping # <<>> \/ (p.file # Null /\ (p.createTable \/ HasDetails(p, loaded))) =>
         MappingOf(p.mapping, p.file)
    /\ InTable(p)
    /\ p.step > 2 => Valid(p) /\ (p.createTable \/ HasDetails(p, loaded))

\* A page that can be sent.
Reviewed(p) ==
    /\ p.file \in Files /\ MappingOf(p.mapping, p.file)
    /\ Valid(p) /\ InTable(p)
    /\ IF p.createTable THEN p.table \in SafeNames ELSE Destination(p) \in DOMAIN Existing

\* The page that an upload was sent from.
Sender(request) ==
    [step |-> 4, file |-> request.file, schema |-> request.table[1], table |-> request.table[2],
     createTable |-> request.createTable, mapping |-> request.rows, importMode |-> request.importMode,
     sent |-> "sending"]

\* What is being uploaded is a page that could be sent, and still the page that
\* is shown, unless its user has left it.
UploadOK ==
    upload # Null =>
        /\ upload = [Request(Sender(upload)) EXCEPT !.outcome = upload.outcome]
        /\ Sender(upload) \in Page /\ Reviewed(Sender(upload))
        /\ page.sent = "sending" => page = Sender(upload)

WInv ==
    /\ page \in Page /\ reading \subseteq Files /\ details \subseteq DOMAIN Existing /\ crossed \in BOOLEAN
    /\ Placed(page)
    /\ ~crossed =>
         /\ \A f \in reading : page.file = Null /\ reading = {f}
         /\ Sound(page, details)
         /\ UploadOK
-----------------------------------------------------------------------------
(* The effect that fills the mapping.                                      *)

\* The fields of the page, one at a time.
LEMMA PageFields ==
    ASSUME NEW p \in Page
    PROVE  /\ p.step \in 0 .. 4 /\ p.file \in Files \cup {Null} /\ p.createTable \in BOOLEAN
           /\ p.mapping \in Seq(MappingRow) /\ p.schema \in Schemas \cup {Null}
BY DEF Page

\* What the preview makes of a header is as long as the header.
LEMMA HeadersOf ==
    ASSUME NEW f \in Files
    PROVE  /\ csvHeaders(f) \in Seq(Headers) /\ DOMAIN csvHeaders(f) = 1 .. Len(FileHeaders[f])
           /\ Len(FileHeaders[f]) \in Nat /\ DOMAIN FileHeaders[f] = 1 .. Len(FileHeaders[f])
<1>1. FileHeaders[f] \in Seq(STRING)
  OBVIOUS
<1>2. PICK n \in Nat : n = Len(FileHeaders[f])
  BY <1>1
<1>3. DOMAIN FileHeaders[f] = 1 .. n
  BY <1>1, <1>2
<1>4. PICK h : h = csvHeaders(f)
  OBVIOUS
<1>5. DOMAIN h = 1 .. n /\ h = [k \in 1 .. n |-> h[k]]
  BY <1>3, <1>4 DEF csvHeaders, Renamed
<1>6. \A k \in 1 .. n : h[k] \in Headers
  <2>1. \A k \in 1 .. n : h[k] \in ElementsOf(h)
    BY <1>5 DEF ElementsOf
  <2>2. ElementsOf(h) \in {ElementsOf(csvHeaders(g)) : g \in Files}
    BY <1>4
  <2> QED
    BY <2>1, <2>2 DEF Headers
<1>7. h \in Seq(Headers)
  <2>1. h \in [1 .. n -> Headers]
    BY <1>5, <1>6
  <2> QED
    BY <2>1
<1> QED
  BY <1>2, <1>3, <1>4, <1>5, <1>7

\* The two ways to fill a mapping make one row for each header.
LEMMA NewMapping ==
    ASSUME NEW f \in Files
    PROVE  /\ newTableMapping(csvHeaders(f)) \in Seq(MappingRow)
           /\ MappingOf(newTableMapping(csvHeaders(f)), f)
<1>1. PICK h : h = csvHeaders(f)
  OBVIOUS
<1>2. PICK n \in Nat : n = Len(FileHeaders[f])
  BY HeadersOf
<1>3. h \in Seq(Headers) /\ DOMAIN h = 1 .. n
  BY <1>1, <1>2, HeadersOf
<1>4. PICK names : names = NewNamesOf(f)
  OBVIOUS
<1>5. DOMAIN names = 1 .. n
  BY <1>1, <1>3, <1>4 DEF NewNamesOf, dedupeColumnNames, sanitizeColumnNames, Renamed
<1>6. \A k \in 1 .. n : names[k] \in ColumnNames
  <2>1. \A k \in 1 .. n : names[k] \in ElementsOf(names)
    BY <1>5 DEF ElementsOf
  <2>2. ElementsOf(names) \in {ElementsOf(NewNamesOf(g)) : g \in Files}
    BY <1>4
  <2> QED
    BY <2>1, <2>2 DEF ColumnNames
<1>7. newTableMapping(h) = [k \in 1 .. n |-> [csvHeader |-> h[k], dataType |-> "text", targetColumn |-> names[k]]]
  BY <1>1, <1>3, <1>4 DEF newTableMapping, NewNamesOf
<1>8. newTableMapping(h) \in [1 .. n -> MappingRow]
  BY <1>3, <1>6, <1>7 DEF MappingRow
<1>9. newTableMapping(h) \in Seq(MappingRow)
  BY <1>8
<1>10. [k \in DOMAIN newTableMapping(h) |-> newTableMapping(h)[k].csvHeader] = h
  BY <1>3, <1>7
<1> QED
  BY <1>1, <1>9, <1>10 DEF MappingOf

\* So does the one for an existing table, which takes its columns' names only.
LEMMA ExistingMapping ==
    ASSUME NEW f \in Files, NEW t \in DOMAIN Existing
    PROVE  LET mapping == initializeMapping(csvHeaders(f), Existing[t]) IN
           /\ mapping \in Seq(MappingRow) /\ MappingOf(mapping, f)
           /\ \A k \in DOMAIN mapping : mapping[k].targetColumn \in DOMAIN Existing[t] \cup {Null}
<1>1. PICK h : h = csvHeaders(f)
  OBVIOUS
<1>2. PICK n \in Nat : n = Len(FileHeaders[f])
  BY HeadersOf
<1>3. h \in Seq(Headers) /\ DOMAIN h = 1 .. n
  BY <1>1, <1>2, HeadersOf
<1>4. PICK mapping : mapping = initializeMapping(h, Existing[t])
  OBVIOUS
<1>5. mapping = [k \in 1 .. n |-> [csvHeader |-> h[k], dataType |-> Null,
                   targetColumn |-> IF h[k] \in DOMAIN Existing[t] THEN h[k] ELSE Null]]
  BY <1>3, <1>4 DEF initializeMapping
<1>6. \A k \in 1 .. n : mapping[k].targetColumn \in DOMAIN Existing[t] \cup {Null}
  BY <1>5
<1>7. DOMAIN Existing[t] \cup {Null} \subseteq ColumnNames
  BY DEF ColumnNames
<1>8. mapping \in [1 .. n -> MappingRow]
  BY <1>3, <1>5, <1>6, <1>7 DEF MappingRow
<1>9. mapping \in Seq(MappingRow)
  BY <1>8
<1>10. [k \in DOMAIN mapping |-> mapping[k].csvHeader] = h
  BY <1>3, <1>5
<1> QED
  BY <1>1, <1>4, <1>5, <1>6, <1>9, <1>10 DEF MappingOf

\* The effect changes the mapping only, and only one that is empty.
LEMMA EffectType ==
    ASSUME NEW p \in Page, NEW loaded \in SUBSET DOMAIN Existing, NEW q, q = WithMapping(p, loaded)
    PROVE  /\ q \in Page /\ q.step = p.step /\ q.file = p.file /\ q.schema = p.schema /\ q.table = p.table
           /\ q.createTable = p.createTable /\ q.sent = p.sent
           /\ \/ /\ p.mapping # <<>> \/ p.file = Null \/ ~(p.createTable \/ HasDetails(p, loaded))
                 /\ q = p
              \/ /\ p.mapping = <<>> /\ p.file \in Files /\ MappingOf(q.mapping, p.file)
                 /\ p.createTable \/ Destination(p) \in DOMAIN Existing
                 /\ ~p.createTable => \A k \in DOMAIN q.mapping :
                       q.mapping[k].targetColumn \in DOMAIN Existing[Destination(p)] \cup {Null}
<1>1. CASE p.mapping # <<>> \/ p.file = Null \/ ~(p.createTable \/ HasDetails(p, loaded))
  <2>1. q = p
    BY <1>1 DEF WithMapping
  <2> QED
    BY <1>1, <2>1
<1>2. CASE p.mapping = <<>> /\ p.file # Null /\ (p.createTable \/ HasDetails(p, loaded))
  <2>1. p.file \in Files
    BY <1>2, PageFields
  <2>2. PICK mapping \in Seq(MappingRow) :
          /\ q = [p EXCEPT !.mapping = mapping] /\ MappingOf(mapping, p.file)
          /\ p.createTable \/ Destination(p) \in DOMAIN Existing
          /\ ~p.createTable => \A k \in DOMAIN mapping :
                mapping[k].targetColumn \in DOMAIN Existing[Destination(p)] \cup {Null}
    <3>1. CASE p.createTable
      <4>1. q = [p EXCEPT !.mapping = newTableMapping(csvHeaders(p.file))]
        BY <1>2, <3>1 DEF WithMapping
      <4> QED
        BY <2>1, <3>1, <4>1, NewMapping
    <3>2. CASE ~p.createTable
      <4>1. /\ q = [p EXCEPT !.mapping = initializeMapping(csvHeaders(p.file), Existing[Destination(p)])]
            /\ Destination(p) \in DOMAIN Existing
        BY <1>2, <3>2 DEF WithMapping, HasDetails
      <4> QED
        BY <2>1, <3>2, <4>1, ExistingMapping
    <3> QED
      BY <3>1, <3>2
  <2>3. /\ q \in Page /\ q.step = p.step /\ q.file = p.file /\ q.schema = p.schema /\ q.table = p.table
        /\ q.createTable = p.createTable /\ q.sent = p.sent /\ q.mapping = mapping
    BY <2>2 DEF Page
  <2> QED
    BY <1>2, <2>1, <2>2, <2>3
<1> QED
  BY <1>1, <1>2

\* What Sound asks of a page before the effect has run.
Fillable(p, loaded) ==
    /\ p.file = Null => p.mapping = <<>>
    /\ p.mapping # <<>> => MappingOf(p.mapping, p.file)
    /\ InTable(p)
    /\ p.step > 2 => /\ Valid(p) /\ (p.createTable \/ HasDetails(p, loaded))
                     /\ MappingOf(p.mapping, p.file)

\* A mapping of no rows is that of a file without headers, which has no other.
LEMMA OnlyEmpty ==
    ASSUME NEW f, NEW m \in Seq(MappingRow), MappingOf(<<>>, f), MappingOf(m, f)
    PROVE  m = <<>>
<1>1. PICK h : h = csvHeaders(f)
  OBVIOUS
<1>2. [k \in DOMAIN <<>> |-> <<>>[k].csvHeader] = h /\ [k \in DOMAIN m |-> m[k].csvHeader] = h
  BY <1>1 DEF MappingOf
<1>3. DOMAIN h = DOMAIN <<>> /\ DOMAIN h = DOMAIN m
  BY <1>2
<1>4. DOMAIN m = 1 .. Len(m) /\ DOMAIN <<>> = 1 .. 0 /\ Len(m) \in Nat
  OBVIOUS
<1>5. PICK n \in Nat : n = Len(m)
  BY <1>4
<1>6. 1 .. n = 1 .. 0
  BY <1>3, <1>4, <1>5
<1>7. n = 0
  BY <1>6
<1> QED
  BY <1>5, <1>7, EmptySeq

\* The effect makes such a page sound.
LEMMA Effect ==
    ASSUME NEW p \in Page, NEW loaded \in SUBSET DOMAIN Existing, NEW q, q = WithMapping(p, loaded),
           Fillable(p, loaded)
    PROVE  Sound(q, loaded)
<1>1. /\ q \in Page /\ q.step = p.step /\ q.file = p.file /\ q.schema = p.schema /\ q.table = p.table
      /\ q.createTable = p.createTable
  BY EffectType
<1>2. Destination(q) = Destination(p) /\ (HasDetails(q, loaded) <=> HasDetails(p, loaded))
  BY <1>1 DEF Destination, HasDetails
<1>3. CASE q = p /\ (p.mapping # <<>> \/ p.file = Null \/ ~(p.createTable \/ HasDetails(p, loaded)))
  BY <1>3 DEF Fillable, Sound
<1>4. CASE /\ p.mapping = <<>> /\ p.file \in Files /\ MappingOf(q.mapping, p.file)
           /\ ~p.createTable => \A k \in DOMAIN q.mapping :
                 q.mapping[k].targetColumn \in DOMAIN Existing[Destination(p)] \cup {Null}
  <2>1. InTable(q)
    BY <1>1, <1>2, <1>4 DEF InTable
  <2>2. q.file # Null
    BY <1>1, <1>4
  <2>3. ASSUME q.step > 2
        PROVE  Valid(q) /\ (q.createTable \/ HasDetails(q, loaded))
    <3>1. Valid(p) /\ (p.createTable \/ HasDetails(p, loaded)) /\ MappingOf(<<>>, p.file)
      BY <1>1, <1>4, <2>3 DEF Fillable
    <3>2. q.mapping = <<>>
      BY <1>1, <1>4, <3>1, OnlyEmpty, PageFields
    <3>3. Valid(q)
      BY <1>1, <1>2, <1>4, <3>1, <3>2 DEF Valid
    <3> QED
      BY <1>1, <1>2, <3>1, <3>3
  <2> QED
    BY <1>1, <1>4, <2>1, <2>2, <2>3 DEF Sound
<1> QED
  BY <1>3, <1>4, EffectType

\* The page is changed while nothing is sent from it.
LEMMA Kept ==
    ASSUME WInv, page' \in Page, Placed(page'), details' \subseteq DOMAIN Existing, reading' \subseteq Files,
           ~crossed => /\ page'.sent # "sending" /\ Sound(page', details')
                       /\ \A f \in reading' : page'.file = Null /\ reading' = {f},
           upload' = upload, crossed' = crossed
    PROVE  WInv'
<1>1. ASSUME ~crossed PROVE UploadOK'
  BY <1>1 DEF WInv, UploadOK
<1> QED
  BY <1>1 DEF WInv

\* The same of an event that is followed by the effect.
LEMMA Shows ==
    ASSUME WInv, NEW p \in Page, Placed(p), page' = WithMapping(p, details'),
           details' \in SUBSET DOMAIN Existing, reading' \subseteq Files,
           ~crossed => /\ p.sent # "sending" /\ Fillable(p, details')
                       /\ \A f \in reading' : p.file = Null /\ reading' = {f},
           upload' = upload, crossed' = crossed
    PROVE  WInv'
<1>1. PICK q : q = page'
  OBVIOUS
<1>2. PICK loaded \in SUBSET DOMAIN Existing : loaded = details'
  OBVIOUS
<1>3. q = WithMapping(p, loaded)
  BY <1>1, <1>2
<1>4. /\ q \in Page /\ q.step = p.step /\ q.file = p.file /\ q.schema = p.schema /\ q.table = p.table
      /\ q.createTable = p.createTable /\ q.sent = p.sent
  BY <1>3, EffectType
<1>5. Placed(q)
  BY <1>4 DEF Placed, Destination
<1>6. ~crossed => Sound(q, loaded)
  BY <1>2, <1>3, Effect
<1> QED
  BY <1>1, <1>2, <1>4, <1>5, <1>6, Kept
-----------------------------------------------------------------------------
(* The events.                                                             *)

\* The page as the steps leave it.
LEMMA WInvPage ==
    ASSUME WInv
    PROVE  /\ page \in Page /\ Placed(page) /\ details \in SUBSET DOMAIN Existing /\ reading \subseteq Files
           /\ ~crossed => Sound(page, details) /\ UploadOK /\ \A f \in reading : page.file = Null /\ reading = {f}
BY DEF WInv

\* A page of the wizard that has just been opened.
LEMMA NewPage ==
    /\ INITIAL_STATE \in Page /\ Placed(INITIAL_STATE) /\ INITIAL_STATE.sent = "none"
    /\ \A loaded : Sound(INITIAL_STATE, loaded)
<1>1. PICK p : p = INITIAL_STATE
  OBVIOUS
<1>2. /\ p.step = 0 /\ p.file = Null /\ p.schema = Null /\ p.table = Null /\ p.createTable = FALSE
      /\ p.mapping = <<>> /\ p.importMode = "STRICT" /\ p.sent = "none"
  BY <1>1 DEF INITIAL_STATE
<1>3. p \in Page
  BY <1>1, <1>2 DEF INITIAL_STATE, Page
<1>4. Placed(p)
  BY <1>2 DEF Placed
<1>5. \A loaded : Sound(p, loaded)
  <2>1. InTable(p)
    BY <1>2 DEF InTable
  <2> QED
    BY <1>2, <2>1 DEF Sound
<1> QED
  BY <1>1, <1>2, <1>3, <1>4, <1>5

\* The wizard starts sound.
LEMMA WInvInit == WizardInit => WInv
<1> SUFFICES ASSUME WizardInit PROVE WInv
  OBVIOUS
<1>1. page = INITIAL_STATE /\ reading = {} /\ details = {} /\ upload = Null /\ crossed = FALSE
  BY DEF WizardInit
<1>2. UploadOK
  BY <1>1 DEF UploadOK
<1>3. page \in Page /\ Placed(page) /\ Sound(page, details)
  BY <1>1, NewPage
<1> QED
  BY <1>1, <1>2, <1>3 DEF WInv

\* A file is dropped while another is being read: they have crossed.
LEMMA DropFileKept == ASSUME WInv, NEW f \in Files, DropFile(f) PROVE WInv'
<1>1. /\ page' = page /\ details' = details /\ upload' = upload
      /\ reading' = reading \cup {f} /\ crossed' = (crossed \/ reading # {}) /\ page.file = Null
  BY DEF DropFile
<1>2. ASSUME ~crossed'
      PROVE  ~crossed /\ reading' = {f}
  BY <1>1, <1>2
<1>3. ~crossed' => UploadOK'
  BY <1>1, <1>2, WInvPage DEF UploadOK
<1> QED
  BY <1>1, <1>2, <1>3 DEF WInv

\* SET_FILE: without crossing files there was no file yet, so the page was at
\* its first step.
LEMMA PreviewReadKept == ASSUME WInv, NEW f \in Files, PreviewRead(f) PROVE WInv'
<1>1. PICK p : p = [page EXCEPT !.file = f]
  OBVIOUS
<1>2. /\ f \in reading /\ reading' = reading \ {f} /\ details' = details /\ upload' = upload
      /\ crossed' = crossed /\ page' = WithMapping(p, details')
  BY <1>1 DEF PreviewRead, Show
<1>3. /\ p \in Page /\ p.file = f /\ f # Null /\ p.step = page.step /\ p.schema = page.schema
      /\ p.table = page.table /\ p.createTable = page.createTable /\ p.mapping = page.mapping
      /\ p.sent = page.sent
  BY <1>1, WInvPage DEF Page
<1>4. Placed(p)
  BY <1>3, WInvPage DEF Placed, Destination
<1>5. ASSUME ~crossed
      PROVE  p.sent # "sending" /\ Fillable(p, details') /\ \A g \in reading' : FALSE
  <2>1. page.file = Null /\ reading = {f} /\ Sound(page, details)
    BY <1>2, <1>5, WInvPage
  <2>2. page.mapping = <<>>
    BY <2>1 DEF Sound
  <2>3. page.step = 0 /\ page.sent # "sending"
    BY <2>1, WInvPage DEF Placed
  <2>4. InTable(p)
    BY <1>3, <2>2 DEF InTable
  <2> QED
    BY <1>2, <1>3, <2>1, <2>2, <2>3, <2>4 DEF Fillable
<1> QED
  BY <1>2, <1>3, <1>4, <1>5, WInvPage, Shows

\* A preview that fails leaves the page alone.
LEMMA PreviewFailsKept == ASSUME WInv, NEW f \in Files, PreviewFails(f) PROVE WInv'
<1>1. /\ reading' = reading \ {f} /\ page' = page /\ details' = details /\ upload' = upload
      /\ crossed' = crossed /\ f \in reading
  BY DEF PreviewFails
<1>2. ~crossed => UploadOK'
  BY <1>1, WInvPage DEF UploadOK
<1> QED
  BY <1>1, <1>2 DEF WInv

\* CLEAR_FILE begins again, when nothing is being read.
LEMMA ClearFileKept == ASSUME WInv, ClearFile PROVE WInv'
<1>1. /\ page' = INITIAL_STATE /\ page.file # Null /\ reading' = reading /\ details' = details
      /\ upload' = upload /\ crossed' = crossed
  BY DEF ClearFile, Elsewhere
<1>2. page'.sent # "sending" /\ page' \in Page /\ Placed(page') /\ Sound(page', details')
  BY <1>1, NewPage
<1>3. ~crossed => \A f \in reading' : FALSE
  BY <1>1, WInvPage
<1> QED
  BY <1>1, <1>2, <1>3, WInvPage, Kept

\* Continuing: what the button asks for is what the next step relies on.
LEMMA ContinueKept == ASSUME WInv, Continue PROVE WInv'
<1>1. PICK p : p = [page EXCEPT !.step = page.step + 1]
  OBVIOUS
<1>2. /\ CanContinue /\ reading' = reading /\ details' = details /\ upload' = upload
      /\ crossed' = crossed /\ page' = WithMapping(p, details')
  BY <1>1 DEF Continue, Show, Elsewhere
<1>3. /\ page.step \in 0 .. 2
      /\ page.step = 0 => page.file # Null
      /\ page.step = 1 => page.schema # Null /\ page.table # Null
                          /\ (page.createTable => page.table \in SafeNames)
      /\ page.step = 2 => canContinueFromMapping(page, details)
  BY <1>2, PageFields, WInvPage DEF CanContinue
<1>4. /\ p \in Page /\ p.step = page.step + 1 /\ p.file = page.file /\ p.schema = page.schema
      /\ p.table = page.table /\ p.createTable = page.createTable /\ p.mapping = page.mapping
      /\ p.sent = page.sent
  BY <1>1, <1>3, WInvPage DEF Page
<1>5. Destination(p) = Destination(page)
  BY <1>4 DEF Destination
<1>6. page.step > 0 => page.file # Null
  BY <1>3, WInvPage DEF Placed
<1>7. page.sent # "sending"
  BY <1>3, WInvPage DEF Placed
<1>8. Placed(p)
  BY <1>3, <1>4, <1>5, <1>6, <1>7, WInvPage DEF Placed
<1>9. ASSUME ~crossed
      PROVE  Fillable(p, details') /\ \A f \in reading' : p.file = Null /\ reading' = {f}
  <2>1. Sound(page, details) /\ \A f \in reading : page.file = Null /\ reading = {f}
    BY <1>9, WInvPage
  <2>2. ASSUME p.step > 2
        PROVE  /\ Valid(p) /\ (p.createTable \/ HasDetails(p, details'))
               /\ MappingOf(p.mapping, p.file)
    <3>1. page.step = 2 /\ canContinueFromMapping(page, details) /\ page.file # Null
      BY <1>3, <1>4, <1>6, <2>2
    <3>2. /\ page.createTable => isNewTableMappingValid(page.mapping)
          /\ ~page.createTable => /\ HasDetails(page, details)
                                  /\ missingRequiredColumns(page.mapping, Existing[Destination(page)]) = {}
      BY <3>1 DEF canContinueFromMapping
    <3>3. Valid(p)
      BY <1>4, <1>5, <3>2 DEF Valid
    <3>4. MappingOf(page.mapping, page.file)
      BY <2>1, <3>1, <3>2 DEF Sound
    <3> QED
      BY <1>2, <1>4, <1>5, <3>2, <3>3, <3>4 DEF HasDetails
  <2>3. InTable(p)
    BY <1>4, <1>5, <2>1 DEF InTable, Sound
  <2> QED
    BY <1>2, <1>4, <2>1, <2>2, <2>3 DEF Fillable, Sound
<1> QED
  BY <1>2, <1>4, <1>7, <1>8, <1>9, WInvPage, Shows

\* Going back loses nothing that an earlier step relies on.
LEMMA BackKept == ASSUME WInv, Back PROVE WInv'
<1>1. PICK p : p = [page EXCEPT !.step = page.step - 1]
  OBVIOUS
<1>2. /\ CanGoBack /\ reading' = reading /\ details' = details /\ upload' = upload
      /\ crossed' = crossed /\ page' = WithMapping(p, details')
  BY <1>1 DEF Back, Show, Elsewhere
<1>3. page.step \in 1 .. 4 /\ page.sent # "sending"
  BY <1>2, PageFields, WInvPage DEF CanGoBack, Placed
<1>4. /\ p \in Page /\ p.step = page.step - 1 /\ p.file = page.file /\ p.schema = page.schema
      /\ p.table = page.table /\ p.createTable = page.createTable /\ p.mapping = page.mapping
      /\ p.sent = page.sent
  BY <1>1, <1>3, WInvPage DEF Page
<1>5. Destination(p) = Destination(page)
  BY <1>4 DEF Destination
<1>6. Placed(p)
  BY <1>3, <1>4, <1>5, WInvPage DEF Placed
<1>7. ASSUME ~crossed
      PROVE  Fillable(p, details') /\ \A f \in reading' : p.file = Null /\ reading' = {f}
  <2>1. /\ Sound(page, details) /\ \A f \in reading : page.file = Null /\ reading = {f}
        /\ page.file # Null
    BY <1>3, <1>7, WInvPage DEF Placed
  <2>2. ASSUME p.step > 2
        PROVE  /\ Valid(p) /\ (p.createTable \/ HasDetails(p, details'))
               /\ MappingOf(p.mapping, p.file)
    <3>1. page.step > 2
      BY <1>3, <1>4, <2>2
    <3>2. /\ Valid(page) /\ (page.createTable \/ HasDetails(page, details))
          /\ MappingOf(page.mapping, page.file)
      BY <2>1, <3>1 DEF Sound
    <3> QED
      BY <1>2, <1>4, <1>5, <3>2 DEF Valid, HasDetails
  <2>3. InTable(p)
    BY <1>4, <1>5, <2>1 DEF InTable, Sound
  <2> QED
    BY <1>2, <1>4, <2>1, <2>2, <2>3 DEF Fillable, Sound
<1> QED
  BY <1>2, <1>3, <1>4, <1>6, <1>7, WInvPage, Shows

\* Choosing a target: q is the page with the choice, its mapping is dropped.
LEMMA ChooseKept ==
    ASSUME WInv, NEW q \in Page, Choose(q), q.step = page.step, q.file = page.file, q.sent = page.sent,
           ~q.createTable /\ q.table # Null => Destination(q) \in DOMAIN Existing
    PROVE  WInv'
<1>1. PICK p : p = [q EXCEPT !.mapping = <<>>]
  OBVIOUS
<1>2. /\ page.step = 1 /\ reading' = reading /\ details' = details /\ upload' = upload
      /\ crossed' = crossed /\ page' = WithMapping(p, details')
  BY <1>1 DEF Choose, Show, Elsewhere
<1>3. /\ p \in Page /\ p.step = 1 /\ p.file = page.file /\ p.schema = q.schema
      /\ p.table = q.table /\ p.createTable = q.createTable /\ p.mapping = <<>>
      /\ p.sent = page.sent
  BY <1>1, <1>2, EmptySeq DEF Page
<1>4. page.sent # "sending" /\ page.file # Null
  BY <1>2, WInvPage DEF Placed
<1>5. Placed(p)
  BY <1>3, <1>4 DEF Placed, Destination
<1>6. Fillable(p, details')
  BY <1>3 DEF Fillable, InTable
<1> QED
  BY <1>2, <1>3, <1>4, <1>5, <1>6, WInvPage, Shows

\* SET_SCHEMA, SET_CREATE_TABLE and SET_TABLE.
LEMMA ChoicesKept ==
    ASSUME WInv,
           \/ \E s \in listSchemas(Schemas) : ChooseSchema(s)
           \/ \E b \in BOOLEAN : ChooseCreate(b)
           \/ \E t \in listTables(page.schema, Existing) : ChooseTable(t)
           \/ \E name \in TypedNames : TypeTable(name)
    PROVE  WInv'
<1> USE WInvPage
<1>1. ASSUME NEW s \in listSchemas(Schemas), ChooseSchema(s)
      PROVE  WInv'
  <2>1. PICK q : q = [page EXCEPT !.schema = s, !.table = Null]
    OBVIOUS
  <2>2. q \in Page /\ q.step = page.step /\ q.file = page.file /\ q.sent = page.sent /\ q.table = Null
    BY <2>1 DEF Page, listSchemas
  <2> QED
    BY <1>1, <2>1, <2>2, ChooseKept DEF ChooseSchema
<1>2. ASSUME NEW b \in BOOLEAN, ChooseCreate(b)
      PROVE  WInv'
  <2>1. PICK q : q = [page EXCEPT !.createTable = b, !.table = Null]
    OBVIOUS
  <2>2. q \in Page /\ q.step = page.step /\ q.file = page.file /\ q.sent = page.sent /\ q.table = Null
    BY <2>1 DEF Page
  <2> QED
    BY <1>2, <2>1, <2>2, ChooseKept DEF ChooseCreate
<1>3. ASSUME NEW t \in listTables(page.schema, Existing), ChooseTable(t)
      PROVE  WInv'
  <2>1. PICK q : q = [page EXCEPT !.table = t[2]]
    OBVIOUS
  <2>2. t \in DOMAIN Existing /\ t = <<t[1], t[2]>> /\ page.schema = t[1]
    BY <1>3 DEF listTables, ChooseTable
  <2>3. /\ q \in Page /\ q.step = page.step /\ q.file = page.file /\ q.sent = page.sent
        /\ q.schema = t[1] /\ q.table = t[2]
    BY <2>1, <2>2 DEF Page
  <2>4. Destination(q) = t
    BY <2>2, <2>3 DEF Destination
  <2> QED
    BY <1>3, <2>1, <2>2, <2>3, <2>4, ChooseKept DEF ChooseTable
<1>4. ASSUME NEW name \in TypedNames, TypeTable(name)
      PROVE  WInv'
  <2>1. PICK q : q = [page EXCEPT !.table = name]
    OBVIOUS
  <2>2. /\ q \in Page /\ q.step = page.step /\ q.file = page.file /\ q.sent = page.sent
        /\ q.createTable = page.createTable
    BY <2>1 DEF Page
  <2> QED
    BY <1>4, <2>1, <2>2, ChooseKept DEF TypeTable
<1> QED
  BY <1>1, <1>2, <1>3, <1>4

\* The details of a table arrive, at whatever step the page is.
LEMMA DetailsLoadedKept == ASSUME WInv, DetailsLoaded PROVE WInv'
<1>1. /\ page.step \in 1 .. 3 /\ ~page.createTable /\ page.table # Null
      /\ details' = details \cup {Destination(page)} /\ page' = WithMapping(page, details')
      /\ reading' = reading /\ upload' = upload /\ crossed' = crossed
  BY DEF DetailsLoaded
<1>2. page \in Page /\ Placed(page)
  BY WInvPage
<1>3. Destination(page) \in DOMAIN Existing /\ page.sent # "sending" /\ page.file # Null
  BY <1>1, <1>2 DEF Placed
<1>4. details' \in SUBSET DOMAIN Existing
  BY <1>1, <1>3, WInvPage
<1>5. ASSUME ~crossed
      PROVE  Fillable(page, details') /\ \A f \in reading' : page.file = Null /\ reading' = {f}
  <2>1. Sound(page, details) /\ \A f \in reading : page.file = Null /\ reading = {f}
    BY <1>5, WInvPage
  <2>2. HasDetails(page, details) => HasDetails(page, details')
    BY <1>1 DEF HasDetails
  <2> QED
    BY <1>1, <1>3, <2>1, <2>2 DEF Fillable, Sound
<1> QED
  BY <1>1, <1>2, <1>3, <1>4, <1>5, WInvPage, Shows

\* A row keeps its header, and an existing table offers its own columns.
LEMMA EditKept ==
    ASSUME WInv, NEW k \in DOMAIN page.mapping, NEW column \in ColumnNames, NEW type \in {Null, "text", "integer"},
           ~page.createTable => column \in DOMAIN Existing[Destination(page)] \cup {Null},
           Edit(k, column, type)
    PROVE  WInv'
<1>1. PICK p : p = [page EXCEPT !.mapping[k].targetColumn = column, !.mapping[k].dataType = type]
  OBVIOUS
<1>2. /\ page.step = 2 /\ reading' = reading /\ details' = details /\ upload' = upload
      /\ crossed' = crossed /\ page' = WithMapping(p, details')
  BY <1>1 DEF Edit, Show
<1>3. page \in Page /\ page.mapping \in Seq(MappingRow)
  BY WInvPage, PageFields
<1>4. PICK m : m = page.mapping
  OBVIOUS
<1>5. PICK n \in Nat : n = Len(m)
  BY <1>3, <1>4
<1>6. m \in [1 .. n -> MappingRow] /\ k \in 1 .. n
  BY <1>3, <1>4, <1>5
<1>7. PICK row : row = [csvHeader |-> m[k].csvHeader, dataType |-> type, targetColumn |-> column]
  OBVIOUS
<1>8. row \in MappingRow /\ row.csvHeader = m[k].csvHeader /\ row.targetColumn = column
  BY <1>6, <1>7 DEF MappingRow
<1>9. PICK edited : edited = [m EXCEPT ![k] = row]
  OBVIOUS
<1>10. p = [page EXCEPT !.mapping = edited]
  <2>1. m[k] = [csvHeader |-> m[k].csvHeader, dataType |-> m[k].dataType, targetColumn |-> m[k].targetColumn]
    BY <1>6 DEF MappingRow
  <2>2. [[m[k] EXCEPT !.targetColumn = column] EXCEPT !.dataType = type] = row
    <3>1. m[k] \in MappingRow
      BY <1>6
    <3>2. PICK once : once = [m[k] EXCEPT !.targetColumn = column]
      OBVIOUS
    <3>3. once \in MappingRow /\ once.csvHeader = m[k].csvHeader /\ once.targetColumn = column
      BY <3>1, <3>2 DEF MappingRow
    <3>4. PICK twice : twice = [once EXCEPT !.dataType = type]
      OBVIOUS
    <3>5. /\ twice \in MappingRow /\ twice.csvHeader = m[k].csvHeader /\ twice.targetColumn = column
          /\ twice.dataType = type
      BY <3>3, <3>4 DEF MappingRow
    <3>6. twice = row
      BY <1>7, <3>5 DEF MappingRow
    <3> QED
      BY <3>2, <3>4, <3>6
  <2> QED
    BY <1>1, <1>3, <1>4, <1>6, <1>9, <2>1, <2>2 DEF Page
<1>11. edited \in [1 .. n -> MappingRow]
  BY <1>6, <1>8, <1>9
<1>12. edited \in Seq(MappingRow)
  BY <1>11
<1>13. [j \in DOMAIN edited |-> edited[j].csvHeader] = [j \in DOMAIN m |-> m[j].csvHeader]
  <2>1. \A j \in 1 .. n : edited[j].csvHeader = m[j].csvHeader
    BY <1>6, <1>8, <1>9
  <2> QED
    BY <1>6, <1>11, <2>1
<1>14. /\ p \in Page /\ p.step = page.step /\ p.file = page.file /\ p.schema = page.schema
       /\ p.table = page.table /\ p.createTable = page.createTable /\ p.mapping = edited
       /\ p.sent = page.sent
  BY <1>3, <1>10, <1>12 DEF Page
<1>15. Destination(p) = Destination(page)
  BY <1>14 DEF Destination
<1>16. Placed(p) /\ p.sent # "sending" /\ page.file # Null
  BY <1>2, <1>14, <1>15, WInvPage DEF Placed
<1>17. ASSUME ~crossed
       PROVE  Fillable(p, details') /\ \A f \in reading' : p.file = Null /\ reading' = {f}
  <2>1. Sound(page, details) /\ \A f \in reading : page.file = Null /\ reading = {f}
    BY <1>17, WInvPage
  <2>2. m # <<>>
    BY <1>4, <1>5, <1>6, <1>3, EmptySeq
  <2>3. MappingOf(edited, page.file)
    BY <1>4, <1>13, <2>1, <2>2 DEF Sound, MappingOf
  <2>4. InTable(p)
    <3>1. \A j \in 1 .. n : edited[j].targetColumn \in {m[j].targetColumn, column}
      BY <1>6, <1>8, <1>9
    <3>2. ~page.createTable => \A j \in 1 .. n : m[j].targetColumn \in DOMAIN Existing[Destination(page)] \cup {Null}
      BY <1>4, <1>6, <2>1 DEF Sound, InTable
    <3> QED
      BY <1>11, <1>14, <1>15, <3>1, <3>2 DEF InTable
  <2> QED
    BY <1>2, <1>14, <1>16, <2>1, <2>3, <2>4 DEF Fillable
<1> QED
  BY <1>2, <1>14, <1>16, <1>17, WInvPage, Shows

\* SET_MAPPING, with what the page offers for the row.
LEMMA EditMappingKept == ASSUME WInv, EditMapping PROVE WInv'
<1>1. PICK k \in DOMAIN page.mapping :
        \/ /\ ~page.createTable
           /\ \E c \in DOMAIN Existing[Destination(page)] \cup {Null} : Edit(k, c, page.mapping[k].dataType)
        \/ page.createTable /\ \E c \in TypedNames \cup {Null} : Edit(k, c, page.mapping[k].dataType)
        \/ page.createTable /\ Edit(k, page.mapping[k].targetColumn, "integer")
  BY DEF EditMapping
<1>2. page.mapping[k].dataType \in {Null, "text", "integer"} /\ page.mapping[k].targetColumn \in ColumnNames
  <2>1. page.mapping \in Seq(MappingRow)
    BY WInvPage, PageFields
  <2>2. page.mapping[k] \in MappingRow
    BY <2>1
  <2> QED
    BY <2>2 DEF MappingRow
<1>3. CASE /\ ~page.createTable
           /\ \E c \in DOMAIN Existing[Destination(page)] \cup {Null} : Edit(k, c, page.mapping[k].dataType)
  <2>1. PICK c \in DOMAIN Existing[Destination(page)] \cup {Null} : Edit(k, c, page.mapping[k].dataType)
    BY <1>3
  <2>2. page.step = 2 /\ CanGoBack
    BY <2>1 DEF Edit
  <2>3. Destination(page) \in DOMAIN Existing
    BY <1>3, <2>2, WInvPage DEF CanGoBack, HasDetails
  <2>4. c \in ColumnNames
    BY <2>1, <2>3 DEF ColumnNames
  <2> QED
    BY <1>2, <2>1, <2>4, EditKept
<1>4. CASE page.createTable /\ \E c \in TypedNames \cup {Null} : Edit(k, c, page.mapping[k].dataType)
  <2>1. TypedNames \cup {Null} \subseteq ColumnNames
    BY DEF ColumnNames
  <2> QED
    BY <1>2, <1>4, <2>1, EditKept
<1>5. CASE page.createTable /\ Edit(k, page.mapping[k].targetColumn, "integer")
  BY <1>2, <1>5, EditKept
<1> QED
  BY <1>1, <1>3, <1>4, <1>5

\* SET_IMPORT_MODE changes nothing that was checked.
LEMMA ChooseModeKept == ASSUME WInv, ChooseMode PROVE WInv'
<1>1. /\ page.step = 3 /\ page' = [page EXCEPT !.importMode = "FLEXIBLE"]
      /\ reading' = reading /\ details' = details /\ upload' = upload /\ crossed' = crossed
  BY DEF ChooseMode, Elsewhere
<1>2. PICK p : p = page'
  OBVIOUS
<1>3. /\ p \in Page /\ p.step = page.step /\ p.file = page.file /\ p.schema = page.schema
      /\ p.table = page.table /\ p.createTable = page.createTable /\ p.mapping = page.mapping
      /\ p.sent = page.sent
  BY <1>1, <1>2, WInvPage DEF Page
<1>4. Destination(p) = Destination(page)
  BY <1>3 DEF Destination
<1>5. Placed(p) /\ p.sent # "sending"
  BY <1>1, <1>3, <1>4, WInvPage DEF Placed
<1>6. ASSUME Sound(page, details)
      PROVE  Sound(p, details)
  <2>1. (HasDetails(p, details) <=> HasDetails(page, details)) /\ (Valid(p) <=> Valid(page))
        /\ (InTable(p) <=> InTable(page))
    BY <1>3, <1>4 DEF HasDetails, Valid, InTable
  <2> QED
    BY <1>3, <1>6, <2>1 DEF Sound
<1>7. ~crossed => Sound(p, details') /\ \A f \in reading' : p.file = Null /\ reading' = {f}
  BY <1>1, <1>3, <1>6, WInvPage
<1> QED
  BY <1>1, <1>2, <1>3, <1>5, <1>7, WInvPage, Kept

\* Starting: a reviewed page is sent as it is.
LEMMA StartKept == ASSUME WInv, Start PROVE WInv'
<1>1. /\ page.step = 3 /\ CanGoBack /\ page' = [page EXCEPT !.step = 4, !.sent = "sending"]
      /\ upload' = Request(page) /\ reading' = reading /\ details' = details /\ crossed' = crossed
  BY DEF Start
<1>2. PICK p : p = page'
  OBVIOUS
<1>3. /\ p \in Page /\ p.step = 4 /\ p.file = page.file /\ p.schema = page.schema
      /\ p.table = page.table /\ p.createTable = page.createTable /\ p.mapping = page.mapping
      /\ p.importMode = page.importMode /\ p.sent = "sending"
  <2>1. PICK q : q = [page EXCEPT !.step = 4]
    OBVIOUS
  <2>2. /\ q \in Page /\ q.step = 4 /\ q.file = page.file /\ q.schema = page.schema
        /\ q.table = page.table /\ q.createTable = page.createTable /\ q.mapping = page.mapping
        /\ q.importMode = page.importMode
    BY <2>1, WInvPage DEF Page
  <2>3. p = [q EXCEPT !.sent = "sending"]
    BY <1>1, <1>2, <2>1
  <2> QED
    BY <2>2, <2>3 DEF Page
<1>4. Destination(p) = Destination(page) /\ page.file # Null
  BY <1>1, <1>3, WInvPage DEF Destination, Placed
<1>5. Placed(p)
  BY <1>1, <1>3, <1>4, WInvPage DEF Placed
<1>6. Request(page) = Request(p)
  BY <1>3, <1>4 DEF Request
<1>7. PICK request : request = Request(p)
  OBVIOUS
<1>8. /\ request.file = p.file /\ request.table = <<p.schema, p.table>> /\ request.createTable = p.createTable
      /\ request.importMode = p.importMode /\ request.rows = p.mapping /\ request.outcome = Null
      /\ request = [request EXCEPT !.outcome = Null]
  BY <1>7 DEF Request, Destination
<1>9. Sender(request) = p
  <2>1. request.table[1] = p.schema /\ request.table[2] = p.table
    BY <1>8
  <2> QED
    BY <1>3, <1>8, <2>1 DEF Sender, Page
<1>10. ASSUME ~crossed
       PROVE  Sound(p, details) /\ Reviewed(p) /\ \A f \in reading : FALSE
  <2>1. Sound(page, details) /\ \A f \in reading : FALSE
    BY <1>4, <1>10, WInvPage
  <2>2. (HasDetails(p, details) <=> HasDetails(page, details)) /\ (Valid(p) <=> Valid(page))
        /\ (InTable(p) <=> InTable(page))
    BY <1>3, <1>4 DEF HasDetails, Valid, InTable
  <2>3. /\ Valid(page) /\ InTable(page) /\ MappingOf(page.mapping, page.file)
        /\ page.createTable \/ HasDetails(page, details)
    BY <1>1, <1>4, <2>1 DEF Sound
  <2>4. Sound(p, details)
    BY <1>3, <1>4, <2>1, <2>2, <2>3 DEF Sound
  <2>5. p.file \in Files
    BY <1>3, <1>4, WInvPage, PageFields
  <2>6. IF p.createTable THEN p.table \in SafeNames ELSE Destination(p) \in DOMAIN Existing
    BY <1>1, <1>3, <1>4, <2>3, WInvPage DEF Placed, HasDetails
  <2> QED
    BY <1>3, <2>1, <2>2, <2>3, <2>4, <2>5, <2>6 DEF Reviewed
<1>11. ASSUME ~crossed
       PROVE  UploadOK'
  <2>1. upload' = request
    BY <1>1, <1>6, <1>7
  <2> QED
    BY <1>2, <1>3, <1>7, <1>8, <1>9, <1>10, <1>11, <2>1 DEF UploadOK
<1> QED
  BY <1>1, <1>2, <1>3, <1>5, <1>10, <1>11, WInvPage DEF WInv

\* The end of an upload: the page stays, for another try, or a new one is opened.
LEMMA RejectedKept == ASSUME WInv, NEW sent \in {"refused", "duplicate"}, UploadRejected(sent) PROVE WInv'
<1>1. /\ page' = (IF page.sent = "sending" THEN [page EXCEPT !.sent = sent] ELSE page)
      /\ upload' = Null /\ reading' = reading /\ details' = details /\ crossed' = crossed
  BY DEF UploadRejected
<1>2. PICK p : p = page'
  OBVIOUS
<1>3. /\ p \in Page /\ p.step = page.step /\ p.file = page.file /\ p.schema = page.schema
      /\ p.table = page.table /\ p.createTable = page.createTable /\ p.mapping = page.mapping
      /\ p.sent # "sending"
  BY <1>1, <1>2, WInvPage DEF Page
<1>4. Destination(p) = Destination(page)
  BY <1>3 DEF Destination
<1>5. Placed(p)
  BY <1>3, <1>4, WInvPage DEF Placed
<1>6. ASSUME Sound(page, details)
      PROVE  Sound(p, details)
  <2>1. (HasDetails(p, details) <=> HasDetails(page, details)) /\ (Valid(p) <=> Valid(page))
        /\ (InTable(p) <=> InTable(page))
    BY <1>3, <1>4 DEF HasDetails, Valid, InTable
  <2> QED
    BY <1>3, <1>6, <2>1 DEF Sound
<1>7. UploadOK'
  BY <1>1 DEF UploadOK
<1> QED
  BY <1>1, <1>2, <1>3, <1>5, <1>6, <1>7, WInvPage DEF WInv

\* Leaving the wizard: an upload may go on without its page.
LEMMA LeavesKept ==
    ASSUME WInv, Leaves, upload' \in {Null, upload}, crossed' \in BOOLEAN, crossed /\ upload' # Null => crossed'
    PROVE  WInv'
<1>1. page' = INITIAL_STATE /\ reading' = {} /\ details' = {}
  BY DEF Leaves
<1>2. page' \in Page /\ Placed(page') /\ Sound(page', details') /\ page'.sent # "sending"
  BY <1>1, NewPage
<1>3. ASSUME ~crossed' PROVE UploadOK'
  BY <1>2, <1>3, WInvPage DEF UploadOK
<1> QED
  BY <1>1, <1>2, <1>3 DEF WInv

\* All events of the page.
LEMMA WizardEventKept == ASSUME WInv, WizardEvent PROVE WInv'
BY DropFileKept, PreviewReadKept, PreviewFailsKept, ClearFileKept, ContinueKept, BackKept, ChoicesKept,
   DetailsLoadedKept, EditMappingKept, ChooseModeKept, StartKept
   DEF WizardEvent

\* And the steps that are not the wizard's.
LEMMA WizardUnchanged == ASSUME WInv, UNCHANGED wizard PROVE WInv'
<1>1. page' = page /\ reading' = reading /\ details' = details /\ upload' = upload /\ crossed' = crossed
  BY DEF wizard
<1>2. ~crossed => UploadOK'
  BY <1>1, WInvPage DEF UploadOK
<1> QED
  BY <1>1, <1>2 DEF WInv

\* The end of an upload, as the wizard sees it.
LEMMA UploadEndsKept == ASSUME WInv, UploadEnds PROVE WInv'
<1>1. CASE Leaves /\ upload' = Null /\ crossed' = FALSE
  BY <1>1, LeavesKept
<1>2. CASE \E sent \in {"refused", "duplicate"} : UploadRejected(sent)
  BY <1>2, RejectedKept
<1> QED
  BY <1>1, <1>2 DEF UploadEnds

\* The invariant of the wizard by itself.
LEMMA WizardInv == WizardSpec => []WInv
<1>1. WInv /\ [WizardEvent \/ UploadEnds]_wizard => WInv'
  BY WizardEventKept, UploadEndsKept, WizardUnchanged
<1> QED
  BY WInvInit, <1>1, PTL DEF WizardSpec

-----------------------------------------------------------------------------
(* What a reviewed page asks of the server.                                *)

\* The values of a function are as many as its arguments only if they differ.
LEMMA Counting ==
    ASSUME NEW S, IsFiniteSet(S), NEW f, f = [k \in S |-> f[k]], NEW T, T = {f[k] : k \in S}
    PROVE  /\ IsFiniteSet(T) /\ Cardinality(T) <= Cardinality(S)
           /\ Cardinality(T) = Cardinality(S) <=> \A j, k \in S : f[j] = f[k] => j = k
<1>1. f \in Surjection(S, T)
  BY DEF Surjection
<1>2. f \in Injection(S, T) <=> \A j, k \in S : f[j] = f[k] => j = k
  BY <1>1 DEF Surjection, Injection, IsInjective
<1> QED
  BY <1>1, <1>2, FS_Surjection

\* Of one row, the last is this row.
LEMMA LastOfOne == ASSUME NEW m, NEW k \in Nat PROVE LastOf(m, {k}) = m[k]
<1>1. \A x \in {k} : x = k /\ \A j \in {k} : j <= x
  OBVIOUS
<1>2. (CHOOSE x \in {k} : \A j \in {k} : j <= x) = k
  BY <1>1
<1> QED
  BY <1>2 DEF LastOf

\* There are k numbers up to k.
LEMMA UpTo == \A k \in Nat : IsFiniteSet(1 .. k) /\ Cardinality(1 .. k) = k
BY FS_Interval

\* The rows of a file whose headers all have a column: every row has one, and
\* no header occurs twice, though the headers sent are not those of the rows.
LEMMA AllChosen ==
    ASSUME NEW f \in Files, NEW m \in Seq(MappingRow), MappingOf(m, f),
           {m[k].csvHeader : k \in Chosen(m)} = ElementsOf(FileHeaders[f]), Distinct(FileHeaders[f]),
           NEW n \in Nat, n = Len(FileHeaders[f])
    PROVE  /\ DOMAIN m = 1 .. n /\ Chosen(m) = 1 .. n
           /\ \A j, k \in 1 .. n : m[j].csvHeader = m[k].csvHeader => j = k
<1>1. PICK h : h = csvHeaders(f)
  OBVIOUS
<1>2. DOMAIN h = 1 .. n
  BY <1>1, HeadersOf
<1>3. DOMAIN m = 1 .. n
  BY <1>1, <1>2 DEF MappingOf
<1>4. IsFiniteSet(1 .. n) /\ Cardinality(1 .. n) = n
  BY UpTo
<1>5. PICK C : C = Chosen(m)
  OBVIOUS
<1>6. C \in SUBSET (1 .. n) /\ IsFiniteSet(C) /\ Cardinality(C) <= n
  BY <1>3, <1>4, <1>5, FS_Subset DEF Chosen
<1>7. PICK g : g = [k \in C |-> m[k].csvHeader]
  OBVIOUS
<1>8. \A k \in C : g[k] = m[k].csvHeader
  BY <1>7
<1>9. {g[k] : k \in C} = {m[k].csvHeader : k \in C}
  BY <1>8
<1>10. PICK T : T = {g[k] : k \in C}
  OBVIOUS
<1>11. Cardinality(T) = n
  BY <1>5, <1>9, <1>10 DEF Distinct
<1>12. Cardinality(T) <= Cardinality(C) /\ (Cardinality(T) = Cardinality(C) <=> \A j, k \in C : g[j] = g[k] => j = k)
  <2>1. g = [k \in C |-> g[k]]
    BY <1>7
  <2> QED
    BY <1>6, <1>10, <2>1, Counting
<1>13. Cardinality(C) \in Nat
  BY <1>6, FS_CardinalityType
<1>14. Cardinality(C) = n
  BY <1>6, <1>11, <1>12, <1>13
<1>15. C = 1 .. n
  BY <1>4, <1>6, <1>14, FS_Subset
<1>16. \A j, k \in C : g[j] = g[k] => j = k
  BY <1>11, <1>12, <1>14
<1> QED
  BY <1>3, <1>5, <1>8, <1>15, <1>16

\* Such a mapping sends each header to the column of its row.
LEMMA TargetsSent ==
    ASSUME NEW F \in Seq(STRING), NEW m \in Seq(MappingRow), NEW n \in Nat, n = Len(F),
           DOMAIN m = 1 .. n, Chosen(m) = 1 .. n,
           \A j, k \in 1 .. n : m[j].csvHeader = m[k].csvHeader => j = k,
           \A k \in 1 .. n : m[k].csvHeader \in ElementsOf(F),
           \A h \in ElementsOf(F) : \E k \in 1 .. n : h = m[k].csvHeader,
           NEW targets, targets = Targets(F, mappingToColumnMapping(m))
    PROVE  DOMAIN targets = 1 .. n /\ Len(targets) = n /\ ElementsOf(targets) = NamesOf(m)
<1>1. PICK map : map = mappingToColumnMapping(m)
  OBVIOUS
<1>2. \A k \in 1 .. n : m[k].csvHeader \in DOMAIN map /\ map[m[k].csvHeader] = m[k].targetColumn
  <2> TAKE k \in 1 .. n
  <2>1. m[k].csvHeader \in DOMAIN map
    BY <1>1 DEF mappingToColumnMapping
  <2>2. map[m[k].csvHeader] = LastOf(m, {j \in Chosen(m) : m[j].csvHeader = m[k].csvHeader}).targetColumn
    BY <1>1, <2>1 DEF mappingToColumnMapping
  <2>3. {j \in Chosen(m) : m[j].csvHeader = m[k].csvHeader} = {k}
    OBVIOUS
  <2>4. LastOf(m, {k}) = m[k]
    BY LastOfOne
  <2>5. map[m[k].csvHeader] = m[k].targetColumn
    BY <2>2, <2>3, <2>4
  <2> QED
    BY <2>1, <2>5
<1>3. DOMAIN F = 1 .. n
  OBVIOUS
<1>4. targets = [j \in 1 .. n |-> Target(map, F[j])]
  BY <1>1, <1>3 DEF Targets
<1>5. \A j \in 1 .. n : \E k \in 1 .. n : F[j] = m[k].csvHeader /\ targets[j] = m[k].targetColumn
  <2> TAKE j \in 1 .. n
  <2>1. F[j] \in ElementsOf(F)
    BY <1>3 DEF ElementsOf
  <2>2. PICK k \in 1 .. n : F[j] = m[k].csvHeader
    BY <2>1
  <2>3. targets[j] = Target(map, F[j])
    BY <1>4
  <2>4. Target(map, F[j]) = m[k].targetColumn
    BY <1>2, <2>2 DEF Target
  <2> QED
    BY <2>2, <2>3, <2>4
<1>6. \A k \in 1 .. n : \E j \in 1 .. n : F[j] = m[k].csvHeader /\ targets[j] = m[k].targetColumn
  <2> TAKE k \in 1 .. n
  <2>1. m[k].csvHeader \in ElementsOf(F)
    OBVIOUS
  <2>2. PICK j \in 1 .. n : F[j] = m[k].csvHeader
    BY <1>3, <2>1 DEF ElementsOf
  <2>3. targets[j] = m[k].targetColumn
    <3>1. targets[j] = Target(map, F[j])
      BY <1>4
    <3>2. Target(map, F[j]) = m[k].targetColumn
      BY <1>2, <2>2 DEF Target
    <3> QED
      BY <3>1, <3>2
  <2> QED
    BY <2>2, <2>3
<1>7. DOMAIN targets = 1 .. n
  BY <1>4
<1>8. Len(targets) = n
  BY <1>4
<1>9. ElementsOf(targets) = {targets[j] : j \in 1 .. n} /\ NamesOf(m) = {m[k].targetColumn : k \in 1 .. n}
  BY <1>7 DEF ElementsOf, NamesOf
<1>10. {targets[j] : j \in 1 .. n} = {m[k].targetColumn : k \in 1 .. n}
  <2>1. ASSUME NEW x \in {targets[j] : j \in 1 .. n}
        PROVE  x \in {m[k].targetColumn : k \in 1 .. n}
    <3>1. PICK j \in 1 .. n : x = targets[j]
      BY <2>1
    <3>2. PICK k \in 1 .. n : targets[j] = m[k].targetColumn
      BY <1>5
    <3> QED
      BY <3>1, <3>2
  <2>2. ASSUME NEW x \in {m[k].targetColumn : k \in 1 .. n}
        PROVE  x \in {targets[j] : j \in 1 .. n}
    <3>1. PICK k \in 1 .. n : x = m[k].targetColumn
      BY <2>2
    <3>2. PICK j \in 1 .. n : targets[j] = m[k].targetColumn
      BY <1>6
    <3> QED
      BY <3>1, <3>2
  <2> QED
    BY <2>1, <2>2
<1> QED
  BY <1>7, <1>8, <1>9, <1>10

\* The types of a new table's columns, whose names differ, are those of the page.
LEMMA TypesSent ==
    ASSUME NEW m \in Seq(MappingRow), NEW n \in Nat, DOMAIN m = 1 .. n, Chosen(m) = 1 .. n,
           \A j, k \in 1 .. n : m[j].targetColumn = m[k].targetColumn => j = k,
           NEW types, types = mappingToColumnTypes(m)
    PROVE  \A c \in DOMAIN types : types[c] \in {"text", "integer"}
<1> TAKE c \in DOMAIN types
<1>1. PICK typed : typed = {k \in Chosen(m) : m[k].dataType # Null}
  OBVIOUS
<1>2. /\ DOMAIN types = {m[k].targetColumn : k \in typed}
      /\ types[c] = LastOf(m, {k \in typed : m[k].targetColumn = c}).dataType
  BY <1>1 DEF mappingToColumnTypes
<1>3. PICK k \in typed : m[k].targetColumn = c
  BY <1>2
<1>4. k \in 1 .. n /\ m[k].dataType # Null
  BY <1>1
<1>5. {j \in typed : m[j].targetColumn = c} = {k}
  BY <1>1, <1>3, <1>4
<1>6. LastOf(m, {k}) = m[k]
  BY <1>4, LastOfOne
<1>7. types[c] = m[k].dataType
  BY <1>2, <1>5, <1>6
<1>8. m[k] \in MappingRow
  BY <1>4
<1>9. m[k].dataType \in {Null, "text", "integer"}
  BY <1>8 DEF MappingRow
<1> QED
  BY <1>4, <1>7, <1>9

\* No new column needs a value.
LEMMA NewColumnsAreFree ==
    ASSUME NEW request, NEW c \in ElementsOf(NewNames(request))
    PROVE  /\ DOMAIN NewColumns(request) = ElementsOf(NewNames(request)) \cup AuditNames
           /\ ~NewColumns(request)[c].generated
<1>1. NewColumns(request)[c] = NewColumn(TypeOf(request, c), FALSE)
  BY DEF NewColumns
<1>2. NewColumn(TypeOf(request, c), FALSE).generated = FALSE
  BY DEF NewColumn
<1> QED
  BY <1>1, <1>2 DEF NewColumns

\* Neither a new column nor created_at and updated_at.
LEMMA NewColumnsAreOptional ==
    ASSUME NEW request, NEW c \in DOMAIN NewColumns(request)
    PROVE  ~Required(NewColumns(request)[c])
<1>1. \A type : ~Required(NewColumn(type, FALSE)) /\ ~Required(NewColumn(type, TRUE))
  BY DEF Required, NewColumn
<1>2. \/ NewColumns(request)[c] = NewColumn(TypeOf(request, c), FALSE)
      \/ NewColumns(request)[c] = NewColumn("timestamptz", TRUE)
  BY DEF NewColumns
<1> QED
  BY <1>1, <1>2

\* The names of the chosen rows differ if there are as many of them.
LEMMA NamesDiffer ==
    ASSUME NEW m, NEW n \in Nat, Chosen(m) = 1 .. n, Cardinality(NamesOf(m)) = Cardinality(Chosen(m))
    PROVE  \A j, k \in 1 .. n : m[j].targetColumn = m[k].targetColumn => j = k
<1>1. PICK C : C = Chosen(m)
  OBVIOUS
<1>2. PICK g : g = [k \in C |-> m[k].targetColumn]
  OBVIOUS
<1>3. \A k \in C : g[k] = m[k].targetColumn
  BY <1>2
<1>4. {g[k] : k \in C} = {m[k].targetColumn : k \in C}
  BY <1>3
<1>5. PICK T : T = {g[k] : k \in C}
  OBVIOUS
<1>6. T = NamesOf(m)
  BY <1>1, <1>4, <1>5 DEF NamesOf
<1>7. IsFiniteSet(C)
  BY <1>1, UpTo
<1>8. g = [k \in C |-> g[k]]
  BY <1>2
<1>9. \A j, k \in C : g[j] = g[k] => j = k
  BY <1>1, <1>5, <1>6, <1>7, <1>8, Counting
<1> QED
  BY <1>1, <1>3, <1>9

\* What is sent of a reviewed page, when every header has a column.
LEMMA Acceptable ==
    ASSUME NEW p \in Page, Reviewed(p), NEW r, r = [Request(p) EXCEPT !.outcome = r.outcome],
           Mapped(r), isAllowed(r.table)
    PROVE  IF r.table \notin DOMAIN Existing
           THEN /\ r.createTable
                /\ r.table[1] \in SafeNames => CanCreate(r) /\ Fits(r, NewColumns(r))
           ELSE LET columns == Existing[r.table] IN
                \/ r.createTable
                \/ ~Distinct(NewNames(r))
                \/ \E c \in ElementsOf(NewNames(r)) : columns[c].generated
                \/ Fits(r, columns)
<1>1. PICK f \in Files : f = p.file
  BY DEF Reviewed
<1>2. PICK m \in Seq(MappingRow) : m = p.mapping
  BY PageFields
<1>3. PICK F \in Seq(STRING) : F = FileHeaders[f]
  OBVIOUS
<1>4. PICK n \in Nat : n = Len(F)
  BY <1>3
<1>5. /\ r.headers = F /\ r.table = <<p.schema, p.table>> /\ r.createTable = p.createTable
      /\ r.mapping = mappingToColumnMapping(m) /\ r.types = mappingToColumnTypes(m)
  <2>1. PICK request : request = Request(p)
    OBVIOUS
  <2>2. /\ request.headers = F /\ request.table = <<p.schema, p.table>> /\ request.createTable = p.createTable
        /\ request.mapping = mappingToColumnMapping(m) /\ request.types = mappingToColumnTypes(m)
    BY <1>1, <1>2, <1>3, <2>1 DEF Request, Destination
  <2>3. PICK outcome : r = [request EXCEPT !.outcome = outcome]
    BY <2>1
  <2> QED
    BY <2>1, <2>2, <2>3 DEF Request
<1>6. {m[k].csvHeader : k \in Chosen(m)} = ElementsOf(F) /\ Distinct(F)
  <2>1. DOMAIN mappingToColumnMapping(m) = {m[k].csvHeader : k \in Chosen(m)}
    BY DEF mappingToColumnMapping
  <2> QED
    BY <1>5, <2>1 DEF Mapped
<1>7. MappingOf(m, f)
  BY <1>1, <1>2 DEF Reviewed
<1>8. /\ DOMAIN m = 1 .. n /\ Chosen(m) = 1 .. n
      /\ \A j, k \in 1 .. n : m[j].csvHeader = m[k].csvHeader => j = k
  BY <1>3, <1>4, <1>6, <1>7, AllChosen
<1>9. PICK targets : targets = Targets(F, mappingToColumnMapping(m))
  OBVIOUS
<1>10. /\ DOMAIN targets = 1 .. n /\ Len(targets) = n /\ ElementsOf(targets) = NamesOf(m)
       /\ NewNames(r) = targets
  <2>1. DOMAIN targets = 1 .. n /\ Len(targets) = n /\ ElementsOf(targets) = NamesOf(m)
    <3>1. \A k \in 1 .. n : m[k].csvHeader \in ElementsOf(F)
      BY <1>6, <1>8
    <3>2. \A h \in ElementsOf(F) : \E k \in 1 .. n : h = m[k].csvHeader
      BY <1>6, <1>8
    <3> QED
      BY <1>4, <1>8, <1>9, <3>1, <3>2, TargetsSent
  <2>2. NewNames(r) = targets
    BY <1>5, <1>9 DEF NewNames
  <2> QED
    BY <2>1, <2>2
<1>11. DOMAIN r.mapping \subseteq ElementsOf(F)
  BY <1>5 DEF Mapped
<1>12. CASE p.createTable
  <2>1. isNewTableMappingValid(m) /\ p.table \in SafeNames
    BY <1>2, <1>12 DEF Reviewed, Valid
  <2>2. Cardinality(NamesOf(m)) = Cardinality(1 .. n) /\ NamesOf(m) \subseteq SafeNames
    BY <1>8, <2>1 DEF isNewTableMappingValid
  <2>3. IsFiniteSet(1 .. n) /\ Cardinality(1 .. n) = n
    BY UpTo
  <2>4. Distinct(targets)
    BY <1>10, <2>2, <2>3 DEF Distinct
  <2>5. \A j, k \in 1 .. n : m[j].targetColumn = m[k].targetColumn => j = k
    BY <1>8, <2>1, NamesDiffer DEF isNewTableMappingValid
  <2>6. \A name : TypeOf(r, name) \in {"text", "integer"}
    <3>1. \A c \in DOMAIN r.types : r.types[c] \in {"text", "integer"}
      BY <1>5, <1>8, <2>5, TypesSent
    <3> QED
      BY <3>1 DEF TypeOf
  <2>7. ASSUME r.table[1] \in SafeNames
        PROVE  CanCreate(r)
    <3>1. ElementsOf(r.table) = {p.schema, p.table} /\ p.schema \in SafeNames
      BY <1>5, <2>7 DEF ElementsOf
    <3>2. \A name \in ElementsOf(NewNames(r)) : TypeOf(r, name) \in NEW_TABLE_COLUMN_TYPES
      BY <2>6 DEF NEW_TABLE_COLUMN_TYPES
    <3> QED
      BY <1>10, <2>1, <2>2, <2>4, <3>1, <3>2 DEF CanCreate
  <2>8. Fits(r, NewColumns(r))
    <3>1. \A c \in ElementsOf(targets) : c \in DOMAIN NewColumns(r) /\ ~NewColumns(r)[c].generated
      BY <1>10, NewColumnsAreFree
    <3>2. \A c \in DOMAIN NewColumns(r) : ~Required(NewColumns(r)[c])
      BY NewColumnsAreOptional
    <3>3. Targets(r.headers, r.mapping) = targets
      BY <1>5, <1>9
    <3>4. ValidMapping(r.headers, r.mapping, NewColumns(r))
      BY <1>5, <1>11, <2>4, <3>1, <3>2, <3>3 DEF ValidMapping
    <3> QED
      BY <3>4 DEF Fits
  <2> QED
    BY <1>5, <1>12, <2>7, <2>8
<1>13. CASE ~p.createTable
  <2>1. /\ r.table \in DOMAIN Existing
        /\ missingRequiredColumns(m, Existing[r.table]) = {}
        /\ \A k \in 1 .. n : m[k].targetColumn \in DOMAIN Existing[r.table] \cup {Null}
    BY <1>2, <1>5, <1>8, <1>13 DEF Reviewed, Valid, InTable, Destination
  <2>2. PICK columns : columns = Existing[r.table]
    OBVIOUS
  <2>3. \A c \in NamesOf(m) : c \in DOMAIN columns
    BY <1>8, <2>1, <2>2 DEF NamesOf, Chosen
  <2>4. \A c \in DOMAIN columns : Required(columns[c]) => c \in NamesOf(m)
    BY <2>1, <2>2 DEF missingRequiredColumns
  <2>5. ASSUME Distinct(NewNames(r)), \A c \in ElementsOf(NewNames(r)) : ~columns[c].generated
        PROVE  Fits(r, columns)
    <3>1. Targets(r.headers, r.mapping) = targets
      BY <1>5, <1>9
    <3>2. ValidMapping(r.headers, r.mapping, columns)
      BY <1>5, <1>10, <1>11, <2>3, <2>4, <2>5, <3>1 DEF ValidMapping
    <3> QED
      BY <3>2 DEF Fits
  <2> QED
    BY <2>1, <2>2, <2>5
<1> QED
  BY <1>12, <1>13, PageFields
-----------------------------------------------------------------------------
(* The theorems about the wizard.                                          *)

\* What the invariant says of an upload is what the properties ask of it.
LEMMA WInvProperties == WInv => ReviewedIsSent /\ AcceptedIfMapped
<1> SUFFICES ASSUME WInv PROVE ReviewedIsSent /\ AcceptedIfMapped
  OBVIOUS
<1>1. ASSUME upload # Null, ~crossed
      PROVE  /\ MappingOf(upload.rows, upload.file)
             /\ page.sent = "sending" => upload = [Request(page) EXCEPT !.outcome = upload.outcome]
  <2>1. UploadOK
    BY <1>1, WInvPage
  <2>2. MappingOf(Sender(upload).mapping, Sender(upload).file)
    BY <1>1, <2>1 DEF UploadOK, Reviewed
  <2> QED
    BY <1>1, <2>1, <2>2 DEF UploadOK, Sender
<1>2. ASSUME upload # Null, ~crossed, Mapped(upload), isAllowed(upload.table)
      PROVE  AcceptedIfMapped
  <2>1. UploadOK
    BY <1>2, WInvPage
  <2>2. /\ upload = [Request(Sender(upload)) EXCEPT !.outcome = upload.outcome]
        /\ Sender(upload) \in Page /\ Reviewed(Sender(upload))
    BY <1>2, <2>1 DEF UploadOK
  <2> QED
    BY <1>2, <2>2, Acceptable DEF AcceptedIfMapped
<1> QED
  BY <1>1, <1>2 DEF ReviewedIsSent, AcceptedIfMapped

\* Unless files crossed, what is uploaded is what the page has shown and shows
\* still, with the mapping of its own file: whatever the five steps of the
\* wizard, the previews, the table details and its user have done meanwhile.
THEOREM Reviewing == WizardSpec => []ReviewedIsSent
<1>1. WInv => ReviewedIsSent
  BY WInvProperties
<1> QED
  BY <1>1, WizardInv, PTL

\* The rules of the page are as strict as the server's for a mapping that gives
\* every header a column, but for a column chosen twice, a generated one, and
\* the name of a schema.
THEOREM Accepted == WizardSpec => []AcceptedIfMapped
<1>1. WInv => AcceptedIfMapped
  BY WInvProperties
<1> QED
  BY <1>1, WizardInv, PTL

-----------------------------------------------------------------------------
(* The pages around the wizard.                                            *)

\* An import as the server knows it, and what a query can know of its imports.
Import == [status : Status \cup {"NONE", "GONE"}, version : Nat]
Answers(key) == {NoData} \cup [OfKey(key) -> Import]
Query(key) == [data : Answers(key), fetch : {"none", "first", "second"}, read : Answers(key), isError : BOOLEAN]
Cache(qs) == qs = [key \in Keys |-> qs[key]] /\ \A key \in Keys : qs[key] \in Query(key)

\* A mutation, which is of an import from when it is sent until it is over.
Stages == {"unused", "sent", "queueing", "served", "refused", "over"}
Call == [op : {"retry", "cancel", "remove", Null}, imp : Imports \cup {Null}, version : Nat,
         stage : Stages, here : BOOLEAN]
Sent(c) == c.stage \notin {"unused", "over"}
Mutation == {c \in Call : Sent(c) => c.imp \in Imports}

PagesType ==
    /\ server \in [Imports -> Import] /\ known \in [Imports -> Nat] /\ Cache(queries)
    /\ where \in Keys \cup {"wizard"} /\ excused \in BOOLEAN /\ calls \in [Mutations -> Mutation]
    /\ upload # Null => "outcome" \in DOMAIN upload

\* What this user knows, or is about to be told, the server has done.
Honest ==
    /\ \A i \in Imports : known[i] <= server[i].version
    /\ \A m \in Mutations : Sent(calls[m]) => calls[m].version <= server[calls[m].imp].version
    /\ upload # Null /\ upload.outcome \in Imports => server[upload.outcome].version >= 1

\* Only the query of the open page is fetched.
Idle(q) == q.fetch = "none" /\ q.read = NoData
OnlyOpen(qs, open) == \A i \in Imports : (i # open \/ qs[i].fetch = "none") => Idle(qs[i])

\* A user who waits for an answer has stayed on the page that has asked.
Waiting ==
    /\ \A m \in Mutations : Sent(calls[m]) =>
          where = "list" \/ (where = calls[m].imp /\ HasData(queries[calls[m].imp]))
    /\ upload # Null => where = "wizard"

\* What the open page shows, or is about to show, is as new as what he knows.
\* An answer that was read before he knew is dropped.
FreshAt(i, q, news) ==
    /\ q.read # NoData => q.read[i].version >= news[i]
    /\ q.fetch = "none" /\ HasData(q) => q.data[i].version >= news[i]

PInv ==
    /\ PagesType /\ Honest /\ OnlyOpen(queries, where)
    /\ ~excused => Waiting /\ \A i \in Imports : where = i => FreshAt(i, queries[i], known)

\* Reading the invariant.
LEMMA PInvFacts ==
    ASSUME PInv
    PROVE  /\ server \in [Imports -> Import] /\ known \in [Imports -> Nat] /\ Cache(queries)
           /\ where \in Keys \cup {"wizard"} /\ excused \in BOOLEAN /\ calls \in [Mutations -> Mutation]
           /\ upload # Null => "outcome" \in DOMAIN upload
           /\ Honest /\ OnlyOpen(queries, where)
           /\ ~excused => Waiting /\ \A i \in Imports : where = i => FreshAt(i, queries[i], known)
BY DEF PInv, PagesType

\* The keys are not the names of pages, and no answer of a query is empty.
LEMMA KeyFacts ==
    /\ \A i \in Imports : i \in Keys /\ i # "list" /\ i # "wizard" /\ i # "refused" /\ i # "duplicate" /\ i # Null
                          /\ OfKey(i) = {i}
    /\ "list" \in Keys /\ "list" # "wizard" /\ Null \notin Imports
BY PagesAssumption DEF Keys, OfKey

\* A query that was never fetched.
LEMMA NewQueryType == \A key \in Keys : NewQuery \in Query(key)
BY DEF NewQuery, Query, Answers

\* Sending a query keeps what it shows.
LEMMA SendType ==
    ASSUME NEW key, NEW q \in Query(key), NEW r, r = Send(q)
    PROVE  r \in Query(key) /\ r.fetch = "first" /\ r.read = NoData /\ r.data = q.data
<1>1. PICK once : once = [q EXCEPT !.fetch = "first"]
  OBVIOUS
<1>2. once \in Query(key) /\ once.fetch = "first" /\ once.data = q.data
  BY <1>1 DEF Query
<1>3. r = [once EXCEPT !.read = NoData]
  BY <1>1 DEF Send
<1>4. NoData \in Answers(key)
  BY DEF Answers
<1> QED
  BY <1>2, <1>3, <1>4 DEF Query

\* One query is changed.
LEMMA CacheSet ==
    ASSUME NEW qs, Cache(qs), NEW key \in Keys, NEW q \in Query(key), NEW rs, rs = [qs EXCEPT ![key] = q]
    PROVE  Cache(rs) /\ rs[key] = q /\ \A k \in Keys : k # key => rs[k] = qs[k]
<1>1. qs = [k \in Keys |-> qs[k]]
  BY DEF Cache
<1>2. rs = [k \in Keys |-> IF k = key THEN q ELSE qs[k]]
  BY <1>1
<1> QED
  BY <1>2 DEF Cache

\* Opening a page, leaving it, and fetching again what it shows.
LEMMA MountedType ==
    ASSUME NEW qs, Cache(qs), NEW key \in Keys, NEW rs, rs = Mounted(qs, key)
    PROVE  /\ Cache(rs) /\ \A k \in Keys : k # key => rs[k] = qs[k]
           /\ rs[key] = IF qs[key].fetch = "none" THEN Send(qs[key]) ELSE qs[key]
<1>1. CASE qs[key].fetch = "none"
  <2>1. PICK q : q = Send(qs[key])
    OBVIOUS
  <2>2. rs = [qs EXCEPT ![key] = q]
    BY <1>1, <2>1 DEF Mounted
  <2>3. q \in Query(key)
    BY <2>1, SendType DEF Cache
  <2>4. key \in Keys
    OBVIOUS
  <2>5. Cache(rs) /\ rs[key] = q /\ \A k \in Keys : k # key => rs[k] = qs[k]
    <3>1. rs = [k \in Keys |-> IF k = key THEN q ELSE qs[k]] /\ \A k \in Keys : qs[k] \in Query(k)
      BY <2>2 DEF Cache
    <3> QED
      BY <2>3, <2>4, <3>1 DEF Cache
  <2> QED
    BY <1>1, <2>1, <2>5
<1>2. CASE qs[key].fetch # "none"
  BY <1>2 DEF Mounted
<1> QED
  BY <1>1, <1>2

\* Leaving a page aborts the fetch of its import.
LEMMA UnmountedType ==
    ASSUME NEW qs, Cache(qs), NEW key, NEW rs, rs = Unmounted(qs, key)
    PROVE  /\ Cache(rs) /\ \A k \in Keys : k # key \/ key \notin Imports => rs[k] = qs[k]
           /\ key \in Imports => Idle(rs[key]) /\ rs[key].data = qs[key].data
<1>1. CASE key \in Imports
  <2>1. key \in Keys
    BY <1>1 DEF Keys
  <2>2. PICK once : once = [qs[key] EXCEPT !.fetch = "none"]
    OBVIOUS
  <2>3. qs[key] \in Query(key) /\ qs = [k \in Keys |-> qs[k]] /\ NoData \in Answers(key)
    BY <2>1 DEF Cache, Answers
  <2>4. once \in Query(key) /\ once.fetch = "none" /\ once.data = qs[key].data
    BY <2>2, <2>3 DEF Query
  <2>5. PICK q : q = [once EXCEPT !.read = NoData]
    OBVIOUS
  <2>6. q \in Query(key) /\ Idle(q) /\ q.data = qs[key].data
    BY <2>3, <2>4, <2>5 DEF Query, Idle
  <2>7. PICK half : half = [qs EXCEPT ![key] = once]
    OBVIOUS
  <2>8. Cache(half) /\ half[key] = once /\ half = [k \in Keys |-> half[k]]
    BY <2>1, <2>4, <2>7, CacheSet DEF Cache
  <2>9. rs = [half EXCEPT ![key] = q]
    <3>1. rs = [[qs EXCEPT ![key].fetch = "none"] EXCEPT ![key].read = NoData]
      BY <1>1 DEF Unmounted
    <3>2. [qs EXCEPT ![key].fetch = "none"] = half
      BY <2>1, <2>2, <2>3, <2>7
    <3>3. rs = [half EXCEPT ![key].read = NoData]
      BY <3>1, <3>2
    <3> QED
      BY <2>1, <2>5, <2>8, <3>3
  <2>10. Cache(rs) /\ rs[key] = q /\ \A k \in Keys : k # key => rs[k] = half[k]
    BY <2>1, <2>6, <2>8, <2>9, CacheSet
  <2>11. \A k \in Keys : k # key => half[k] = qs[k]
    BY <2>1, <2>4, <2>7, CacheSet
  <2> QED
    BY <1>1, <2>6, <2>10, <2>11
<1>2. CASE key \notin Imports
  BY <1>2 DEF Unmounted
<1> QED
  BY <1>1, <1>2

\* Invalidation sends the open page's query again, and changes no other.
LEMMA InvalidatedType ==
    ASSUME NEW qs, Cache(qs), NEW open, NEW rs, rs = Invalidated(qs, open)
    PROVE  /\ Cache(rs)
           /\ \A k \in Keys : rs[k] = IF k = open /\ (qs[k].fetch = "none" \/ HasData(qs[k]))
                                     THEN Send(qs[k]) ELSE qs[k]
<1>1. rs = [k \in Keys |-> IF k = open /\ (qs[k].fetch = "none" \/ HasData(qs[k])) THEN Send(qs[k]) ELSE qs[k]]
  BY DEF Invalidated
<1>2. \A k \in Keys : qs[k] \in Query(k) /\ Send(qs[k]) \in Query(k)
  BY SendType DEF Cache
<1> QED
  BY <1>1, <1>2 DEF Cache

\* An import that moves on.
LEMMA BecomesType ==
    ASSUME server \in [Imports -> Import], NEW i \in Imports, NEW status \in Status \cup {"GONE"}, Becomes(i, status)
    PROVE  /\ server' \in [Imports -> Import] /\ server'[i].version = server[i].version + 1
           /\ \A j \in Imports : server'[j].version >= server[j].version
<1>1. PICK n \in Nat : n = server[i].version
  BY DEF Import
<1>2. PICK row : row = [status |-> status, version |-> n + 1]
  OBVIOUS
<1>3. row \in Import /\ row.version = n + 1
  BY <1>2 DEF Import
<1>4. server' = [server EXCEPT ![i] = row]
  BY <1>1, <1>2 DEF Becomes
<1>5. server' \in [Imports -> Import] /\ server'[i] = row /\ \A j \in Imports : j # i => server'[j] = server[j]
  BY <1>3, <1>4
<1>6. \A j \in Imports : server[j].version \in Nat
  BY DEF Import
<1> QED
  BY <1>1, <1>3, <1>5, <1>6

-----------------------------------------------------------------------------
(* The queries' steps.                                                     *)

\* The query of the open page changes; what it may show is as new as before.
LEMMA QueryStep ==
    ASSUME PInv, NEW key \in Keys, NEW q \in Query(key), queries' = [queries EXCEPT ![key] = q],
           key \in Imports /\ (key # where \/ q.fetch = "none") => Idle(q),
           HasData(queries[key]) => HasData(q),
           ~excused' => ~excused /\ (key \in Imports /\ where = key => FreshAt(key, q, known)),
           excused' \in BOOLEAN, server' = server, where' = where, known' = known, calls' = calls, upload' = upload
    PROVE  PInv'
<1>1. Cache(queries') /\ queries'[key] = q /\ \A k \in Keys : k # key => queries'[k] = queries[k]
  <2>1. Cache(queries)
    BY PInvFacts
  <2>2. key \in Keys /\ q \in Query(key)
    OBVIOUS
  <2> QED
    <3>1. /\ queries' = [k \in Keys |-> IF k = key THEN q ELSE queries[k]]
          /\ \A k \in Keys : queries[k] \in Query(k)
      BY <2>1 DEF Cache
    <3> QED
      BY <2>2, <3>1 DEF Cache
<1>2. PagesType' /\ Honest'
  BY <1>1, PInvFacts DEF PagesType, Honest
<1>3. OnlyOpen(queries', where')
  <2> SUFFICES ASSUME NEW i \in Imports, i # where' \/ queries'[i].fetch = "none"
               PROVE  Idle(queries'[i])
    BY DEF OnlyOpen
  <2>1. CASE i = key
    BY <1>1, <2>1
  <2>2. CASE i # key
    BY <1>1, <2>2, KeyFacts, PInvFacts DEF OnlyOpen
  <2> QED
    BY <2>1, <2>2
<1>4. ASSUME ~excused'
      PROVE  Waiting' /\ \A i \in Imports : where' = i => FreshAt(i, queries'[i], known')
  <2>1. Waiting /\ \A i \in Imports : where = i => FreshAt(i, queries[i], known)
    BY <1>4, PInvFacts
  <2>2. \A m \in Mutations : calls[m].version \in Nat /\ (Sent(calls[m]) => calls[m].imp \in Imports)
    BY PInvFacts DEF Mutation, Call
  <2>3. Waiting'
    BY <1>1, <2>1, <2>2, KeyFacts DEF Waiting
  <2> QED
    BY <1>1, <1>4, <2>1, <2>3, KeyFacts
<1> QED
  BY <1>2, <1>3, <1>4 DEF PInv

\* What the server reads now is as new as what any user can know.
LEMMA ServerReadsKept == ASSUME PInv, NEW key \in Keys, ServerReads(key) PROVE PInv'
<1>1. PICK answer : answer = [i \in OfKey(key) |-> server[i]]
  OBVIOUS
<1>2. PICK q : q = [queries[key] EXCEPT !.read = answer]
  OBVIOUS
<1>3. /\ queries[key].fetch # "none" /\ queries' = [queries EXCEPT ![key] = q] /\ upload' = upload
      /\ server' = server /\ where' = where /\ known' = known /\ calls' = calls /\ excused' = excused
  <2>1. queries' = [queries EXCEPT ![key].read = answer]
    BY <1>1 DEF ServerReads
  <2>2. queries' = [queries EXCEPT ![key] = q]
    BY <1>2, <2>1
  <2> QED
    BY <2>2 DEF ServerReads, wizard
<1>4. answer \in Answers(key)
  <2>1. OfKey(key) \subseteq Imports
    BY DEF OfKey, Keys
  <2> QED
    BY <1>1, <2>1, PInvFacts DEF Answers
<1>5. /\ q \in Query(key) /\ q.fetch = queries[key].fetch /\ q.data = queries[key].data /\ q.read = answer
  <2>1. queries[key] \in Query(key)
    BY PInvFacts DEF Cache
  <2> QED
    BY <1>2, <1>4, <2>1 DEF Query
<1>6. key \in Imports => answer[key] = server[key] /\ known[key] <= server[key].version
                         /\ server[key].version \in Nat /\ known[key] \in Nat
  BY <1>1, KeyFacts, PInvFacts DEF Honest, Import
<1>7. ASSUME key \in Imports, key # where \/ q.fetch = "none"
      PROVE  FALSE
  BY <1>3, <1>5, <1>7, PInvFacts DEF OnlyOpen, Idle
<1>8. key \in Imports => FreshAt(key, q, known)
  BY <1>3, <1>5, <1>6 DEF FreshAt
<1> QED
  BY <1>3, <1>5, <1>7, <1>8, PInvFacts, QueryStep DEF HasData

\* The answer is shown.
LEMMA AnsweredKept == ASSUME PInv, NEW key \in Keys, Answered(key) PROVE PInv'
<1>1. PICK q : q = [NewQuery EXCEPT !.data = queries[key].read]
  OBVIOUS
<1>2. /\ queries[key].read # NoData /\ queries' = [queries EXCEPT ![key] = q] /\ upload' = upload
      /\ server' = server /\ where' = where /\ known' = known /\ calls' = calls /\ excused' = excused
  BY <1>1 DEF Answered, wizard
<1>3. queries[key] \in Query(key) /\ queries[key].read \in Answers(key)
  BY PInvFacts DEF Cache, Query
<1>4. q \in Query(key) /\ Idle(q) /\ q.data = queries[key].read
  BY <1>1, <1>3, NewQueryType DEF Query, NewQuery, Idle
<1>5. ASSUME ~excused, key \in Imports, where = key
      PROVE  FreshAt(key, q, known)
  BY <1>2, <1>4, <1>5, PInvFacts DEF FreshAt, Idle
<1> QED
  BY <1>2, <1>4, <1>5, PInvFacts, QueryStep DEF HasData

\* A fetch that fails is tried once again, and then gives up.
LEMMA FetchFailsKept == ASSUME PInv, NEW key \in Keys, FetchFails(key) PROVE PInv'
<1>1. PICK old : old = queries[key]
  OBVIOUS
<1>2. PICK q : q = IF old.fetch = "first" THEN [old EXCEPT !.fetch = "second", !.read = NoData]
                   ELSE [NewQuery EXCEPT !.data = old.data, !.isError = TRUE]
  OBVIOUS
<1>3. /\ old.fetch # "none" /\ queries' = [queries EXCEPT ![key] = q] /\ upload' = upload
      /\ server' = server /\ where' = where /\ known' = known /\ calls' = calls
      /\ excused' = (excused \/ old.fetch = "second")
  BY <1>1, <1>2 DEF FetchFails, wizard
<1>4. old \in Query(key) /\ NoData \in Answers(key)
  BY <1>1, PInvFacts DEF Cache, Answers
<1>5. CASE old.fetch = "first"
  <2>1. PICK half : half = [old EXCEPT !.fetch = "second"]
    OBVIOUS
  <2>2. half \in Query(key) /\ half.fetch = "second" /\ half.data = old.data
    BY <1>4, <2>1 DEF Query
  <2>3. q = [half EXCEPT !.read = NoData]
    BY <1>2, <1>5, <2>1
  <2>4. q \in Query(key) /\ q.fetch = "second" /\ q.data = old.data /\ q.read = NoData
    BY <1>4, <2>2, <2>3 DEF Query
  <2>5. key \in Imports => key = where
    BY <1>1, <1>3, PInvFacts DEF OnlyOpen, Idle
  <2>6. ~excused' => ~excused
    BY <1>3
  <2>7. excused' \in BOOLEAN
    BY <1>3
  <2> QED
    BY <1>1, <1>3, <2>4, <2>5, <2>6, <2>7, PInvFacts, QueryStep DEF FreshAt, HasData
<1>6. CASE old.fetch # "first"
  <2>1. old.fetch = "second" /\ excused' = TRUE
    BY <1>3, <1>4, <1>6 DEF Query
  <2>2. PICK half : half = [NewQuery EXCEPT !.data = old.data]
    OBVIOUS
  <2>3. half \in Query(key) /\ Idle(half) /\ half.data = old.data
    BY <1>4, <2>2, NewQueryType DEF Query, NewQuery, Idle
  <2>4. q = [half EXCEPT !.isError = TRUE]
    BY <1>2, <1>6, <2>2
  <2>5. q \in Query(key) /\ Idle(q) /\ q.data = old.data
    BY <2>3, <2>4 DEF Query, Idle
  <2> QED
    BY <1>1, <1>3, <2>1, <2>5, PInvFacts, QueryStep DEF HasData
<1> QED
  BY <1>5, <1>6

\* Polling sends the query of the open page.
LEMMA PollKept == ASSUME PInv, NEW i \in Imports, Poll(i) PROVE PInv'
<1>1. PICK q : q = Send(queries[i])
  OBVIOUS
<1>2. /\ where = i /\ queries' = [queries EXCEPT ![i] = q] /\ upload' = upload
      /\ server' = server /\ where' = where /\ known' = known /\ calls' = calls /\ excused' = excused
  BY <1>1 DEF Poll, wizard
<1>3. queries[i] \in Query(i) /\ i \in Keys
  BY PInvFacts, KeyFacts DEF Cache
<1>4. q \in Query(i) /\ q.fetch = "first" /\ q.read = NoData /\ q.data = queries[i].data
  BY <1>1, <1>3, SendType
<1>5. FreshAt(i, q, known)
  BY <1>4 DEF FreshAt
<1> QED
  BY <1>2, <1>3, <1>4, <1>5, PInvFacts, QueryStep DEF HasData

-----------------------------------------------------------------------------
(* The other steps.                                                        *)

\* What a call knows to have made of an import stays behind it.
LEMMA SentNewer ==
    ASSUME PInv, NEW m \in Mutations, Sent(calls[m]), \A j \in Imports : server'[j].version >= server[j].version,
           \A j \in Imports : server'[j].version \in Nat
    PROVE  calls[m].version <= server'[calls[m].imp].version
<1>1. PICK c \in Mutation : c = calls[m]
  BY PInvFacts
<1>2. c.imp \in Imports /\ c.version \in Nat
  BY <1>1 DEF Mutation, Call
<1>3. c.version <= server[c.imp].version /\ server[c.imp].version \in Nat
  BY <1>1, <1>2, PInvFacts DEF Honest, Import
<1>4. server'[c.imp].version >= server[c.imp].version /\ server'[c.imp].version \in Nat
  BY <1>2
<1> QED
  BY <1>1, <1>2, <1>3, <1>4

\* An import moves on while the open page shows the same.
LEMMA SamePage ==
    ASSUME PInv, queries' = queries, where' = where, known' = known, upload' \in {upload, Null},
           server' \in [Imports -> Import], \A j \in Imports : server'[j].version >= server[j].version,
           calls' = calls, excused' \in BOOLEAN, excused => excused'
    PROVE  PInv'
<1>1. PagesType'
  BY PInvFacts DEF PagesType
<1>2. Honest'
  <2>1. \A j \in Imports : server[j].version \in Nat /\ server'[j].version \in Nat /\ known[j] \in Nat
    BY PInvFacts DEF Import
  <2>2. ASSUME NEW m \in Mutations, Sent(calls[m])
        PROVE  calls[m].version <= server'[calls[m].imp].version
    BY <2>1, <2>2, SentNewer
  <2> QED
    BY <2>1, <2>2, PInvFacts DEF Honest
<1>3. ~excused' => Waiting'
  BY PInvFacts DEF Waiting
<1> QED
  BY <1>1, <1>2, <1>3, PInvFacts DEF PInv

\* The wizard's events change no query, and what they send has no answer yet.
LEMMA WizardKept == ASSUME PInv, Wizard PROVE PInv'
<1>1. /\ where = "wizard" /\ server' = server /\ where' = where /\ queries' = queries /\ calls' = calls
      /\ known' = known /\ excused' = excused
  BY DEF Wizard, pages
<1>2. upload' = upload \/ (upload' = Request(page))
  BY DEF Wizard, WizardEvent, DropFile, PreviewRead, PreviewFails, ClearFile, Continue, Back, ChooseSchema,
         ChooseCreate, ChooseTable, TypeTable, Choose, DetailsLoaded, EditMapping, Edit, ChooseMode, Start, Elsewhere
<1>3. "outcome" \in DOMAIN Request(page) /\ Request(page).outcome = Null
  BY DEF Request
<1>4. PagesType' /\ Honest'
  BY <1>1, <1>2, <1>3, KeyFacts, PInvFacts DEF PagesType, Honest
<1>5. ~excused' => Waiting'
  BY <1>1, PInvFacts DEF Waiting
<1> QED
  BY <1>1, <1>4, <1>5, PInvFacts DEF PInv

\* A mutation goes on when its page is left.
LEMMA CallsLeft ==
    ASSUME calls \in [Mutations -> Mutation], calls' = [m \in Mutations |-> [calls[m] EXCEPT !.here = FALSE]]
    PROVE  /\ calls' \in [Mutations -> Mutation]
           /\ \A m \in Mutations : /\ calls'[m].stage = calls[m].stage /\ calls'[m].imp = calls[m].imp
                                 /\ calls'[m].version = calls[m].version
<1>1. ASSUME NEW m \in Mutations
      PROVE  /\ calls'[m] \in Mutation /\ calls'[m].stage = calls[m].stage /\ calls'[m].imp = calls[m].imp
             /\ calls'[m].version = calls[m].version
  <2>1. calls[m] \in Call /\ (Sent(calls[m]) => calls[m].imp \in Imports)
    BY DEF Mutation
  <2>2. PICK c : c = [calls[m] EXCEPT !.here = FALSE]
    OBVIOUS
  <2>3. c \in Call /\ c.stage = calls[m].stage /\ c.imp = calls[m].imp /\ c.version = calls[m].version
    BY <2>1, <2>2 DEF Call
  <2>4. c \in Mutation
    BY <2>1, <2>3 DEF Mutation, Sent
  <2> QED
    BY <2>2, <2>3, <2>4
<1> QED
  BY <1>1

\* Another page is opened, and its query is sent.
LEMMA VisitKept == ASSUME PInv, NEW to \in Keys, Visit(to) PROVE PInv'
<1>1. PICK left : left = Unmounted(queries, where)
  OBVIOUS
<1>2. /\ to # where /\ where' = to /\ queries' = Mounted(left, to) /\ upload' = upload
      /\ calls' = [m \in Mutations |-> [calls[m] EXCEPT !.here = FALSE]]
      /\ server' = server /\ known' = known
      /\ excused' = (excused \/ upload # Null \/ queries["list"].fetch # "none" \/ \E m \in Mutations : Pending(m))
  BY <1>1 DEF Visit, Opens
<1>10. /\ calls' \in [Mutations -> Mutation]
       /\ \A m \in Mutations : /\ calls'[m].stage = calls[m].stage /\ calls'[m].imp = calls[m].imp
                             /\ calls'[m].version = calls[m].version
  BY <1>2, CallsLeft, PInvFacts
<1>3. /\ Cache(left) /\ \A k \in Keys : k # where \/ where \notin Imports => left[k] = queries[k]
      /\ where \in Imports => Idle(left[where])
  BY <1>1, UnmountedType, PInvFacts
<1>4. /\ Cache(queries') /\ \A k \in Keys : k # to => queries'[k] = left[k]
      /\ queries'[to] = IF left[to].fetch = "none" THEN Send(left[to]) ELSE left[to]
  BY <1>2, <1>3, MountedType
<1>5. \A i \in Imports : Idle(left[i])
  <2> TAKE i \in Imports
  <2>1. CASE i = where
    BY <1>3, <2>1
  <2>2. CASE i # where
    BY <1>3, <2>2, KeyFacts, PInvFacts DEF OnlyOpen
  <2> QED
    BY <2>1, <2>2
<1>6. to \in Imports => queries'[to].fetch = "first" /\ queries'[to].read = NoData
  <2>1. ASSUME to \in Imports
        PROVE  queries'[to] = Send(left[to])
    BY <1>4, <1>5, <2>1 DEF Idle
  <2>2. left[to] \in Query(to)
    BY <1>3 DEF Cache
  <2> QED
    BY <2>1, <2>2, SendType
<1>7. PagesType' /\ Honest'
  <2>1. excused' \in BOOLEAN
    BY <1>2, PInvFacts
  <2>2. PagesType'
    BY <1>2, <1>4, <1>10, <2>1, PInvFacts DEF PagesType
  <2>3. \A m \in Mutations : Sent(calls'[m]) => calls'[m].version <= server[calls'[m].imp].version
    BY <1>10, PInvFacts DEF Honest, Sent
  <2> QED
    BY <1>2, <2>2, <2>3, PInvFacts DEF Honest
<1>8. OnlyOpen(queries', where')
  BY <1>2, <1>4, <1>5, <1>6, KeyFacts DEF OnlyOpen
<1>9. ~excused' => Waiting' /\ \A i \in Imports : where' = i => FreshAt(i, queries'[i], known')
  <2>1. ~excused' => Waiting'
    BY <1>2, <1>10 DEF Waiting, Sent, Pending
  <2>2. \A i \in Imports : where' = i => FreshAt(i, queries'[i], known')
    BY <1>2, <1>6 DEF FreshAt
  <2> QED
    BY <2>1, <2>2
<1> QED
  BY <1>7, <1>8, <1>9 DEF PInv

\* What a button makes of an import is a status, or nothing is left of it.
LEMMA ResultType == \A op : Result(op) \in Status \cup {"GONE"}
BY DEF Result, Status

\* A call that is over, or was never made.
LEMMA OverType == Over \in Mutation /\ ~Sent(Over)
<1>1. PICK c : c = NoCall
  OBVIOUS
<1>2. c \in Call
  BY <1>1 DEF NoCall, Call, Stages
<1>3. PICK d : d = [c EXCEPT !.stage = "over"]
  OBVIOUS
<1>4. d \in Call /\ d.stage = "over"
  BY <1>2, <1>3 DEF Call, Stages
<1>5. d = Over
  BY <1>1, <1>3 DEF Over
<1> QED
  BY <1>4, <1>5 DEF Mutation, Sent

\* A step of which the server knows nothing.
LEMMA SameVersions ==
    ASSUME PInv, server' = server
    PROVE  server' \in [Imports -> Import] /\ \A j \in Imports : server'[j].version >= server[j].version
<1>1. server \in [Imports -> Import] /\ \A j \in Imports : server[j].version \in Nat
  BY PInvFacts DEF Import
<1> QED
  BY <1>1

\* One call is sent, served, refused or over, while the open page shows the same.
LEMMA CallStep ==
    ASSUME PInv, NEW m \in Mutations, NEW c \in Mutation, calls' = [calls EXCEPT ![m] = c],
           queries' = queries, where' = where, known' = known, upload' = upload,
           server' \in [Imports -> Import], \A j \in Imports : server'[j].version >= server[j].version,
           excused' \in BOOLEAN, excused => excused',
           Sent(c) => /\ c.version <= server'[c.imp].version
                      /\ \/ where = "list" \/ (where = c.imp /\ HasData(queries[c.imp]))
                         \/ Sent(calls[m]) /\ calls[m].imp = c.imp
    PROVE  PInv'
<1>1. /\ calls' \in [Mutations -> Mutation] /\ calls'[m] = c
      /\ \A n \in Mutations : n # m => calls'[n] = calls[n]
  BY PInvFacts
<1>2. PagesType'
  BY <1>1, PInvFacts DEF PagesType
<1>3. Honest'
  <2>1. \A j \in Imports : server[j].version \in Nat /\ server'[j].version \in Nat /\ known[j] \in Nat
    BY PInvFacts DEF Import
  <2>2. \A n \in Mutations : calls[n].version \in Nat /\ (Sent(calls[n]) => calls[n].imp \in Imports)
    BY PInvFacts DEF Mutation, Call
  <2>3. ASSUME NEW n \in Mutations, Sent(calls'[n])
        PROVE  calls'[n].version <= server'[calls'[n].imp].version
    <3>1. CASE n = m
      BY <1>1, <2>3, <3>1
    <3>2. CASE n # m
      BY <1>1, <2>1, <2>2, <2>3, <3>2, PInvFacts DEF Honest
    <3> QED
      BY <3>1, <3>2
  <2>4. \A i \in Imports : known'[i] <= server'[i].version
    BY <2>1, PInvFacts DEF Honest
  <2>5. upload' # Null /\ upload'.outcome \in Imports => server'[upload'.outcome].version >= 1
    BY <2>1, PInvFacts DEF Honest
  <2> QED
    BY <2>3, <2>4, <2>5 DEF Honest
<1>4. ASSUME ~excused' PROVE Waiting'
  <2>1. Waiting
    BY <1>4, PInvFacts
  <2>2. ASSUME NEW n \in Mutations, Sent(calls'[n])
        PROVE  where = "list" \/ (where = calls'[n].imp /\ HasData(queries[calls'[n].imp]))
    BY <1>1, <2>1, <2>2 DEF Waiting
  <2> QED
    BY <2>1, <2>2 DEF Waiting
<1> QED
  BY <1>2, <1>3, <1>4, PInvFacts DEF PInv

\* A call names the version that it has made.
LEMMA Versioned ==
    ASSUME NEW c \in Mutation, Sent(c), NEW version \in Nat, NEW d, d = [c EXCEPT !.version = version]
    PROVE  d \in Mutation /\ Sent(d) /\ d.imp = c.imp /\ d.version = version /\ c.imp \in Imports
<1>1. c \in Call /\ c.imp \in Imports
  BY DEF Mutation
<1>2. d \in Call /\ d.imp = c.imp /\ d.version = version /\ d.stage = c.stage
  BY <1>1 DEF Call
<1> QED
  BY <1>1, <1>2 DEF Mutation, Sent

\* A call goes on, and stays the call of the same import.
LEMMA Stays ==
    ASSUME NEW c \in Mutation, Sent(c), NEW stage \in Stages, NEW d, d = [c EXCEPT !.stage = stage]
    PROVE  d \in Mutation /\ d.imp = c.imp /\ d.version = c.version /\ c.imp \in Imports /\ c.version \in Nat
<1>1. c \in Call /\ c.imp \in Imports
  BY DEF Mutation
<1>2. d \in Call /\ d.imp = c.imp /\ d.version = c.version /\ c.version \in Nat
  BY <1>1 DEF Call
<1> QED
  BY <1>1, <1>2 DEF Mutation

\* A button is offered by the page that the user is on.
LEMMA PressKept ==
    ASSUME PInv, NEW op \in {"retry", "cancel", "remove"}, NEW i \in Imports, NEW m \in Mutations, Press(op, i, m)
    PROVE  PInv'
<1>1. PICK c : c = [op |-> op, imp |-> i, version |-> 0, stage |-> "sent", here |-> TRUE]
  OBVIOUS
<1>2. /\ OfferedBy(op, i) /\ calls' = [calls EXCEPT ![m] = c] /\ server' = server /\ where' = where
      /\ queries' = queries /\ known' = known /\ excused' = excused /\ upload' = upload
  BY <1>1 DEF Press, wizard
<1>3. c \in Mutation /\ c.imp = i /\ c.version = 0
  BY <1>1 DEF Mutation, Call, Stages
<1>4. where = "list" \/ (where = i /\ HasData(queries[i]))
  BY <1>2 DEF OfferedBy
<1>5. /\ server' \in [Imports -> Import]
      /\ \A j \in Imports : server'[j].version >= server[j].version
  BY <1>2, SameVersions
<1>6. c.version <= server'[c.imp].version
  BY <1>3, <1>5 DEF Import
<1> QED
  BY <1>2, <1>3, <1>4, <1>5, <1>6, PInvFacts, CallStep

\* The server does what was asked, and the call names the version it made.
LEMMA ServeCallKept == ASSUME PInv, NEW m \in Mutations, ServeCall(m) PROVE PInv'
<1>1. PICK c \in Mutation : c = calls[m]
  BY PInvFacts
<1>2. PICK version : version = server'[c.imp].version
  OBVIOUS
<1>3. PICK stage : stage = IF c.op = "retry" THEN "queueing" ELSE "served"
  OBVIOUS
<1>4. PICK d : d = [c EXCEPT !.version = version, !.stage = stage]
  OBVIOUS
<1>5. /\ c.stage = "sent" /\ Becomes(c.imp, Result(c.op)) /\ calls' = [calls EXCEPT ![m] = d] /\ where' = where
      /\ queries' = queries /\ known' = known /\ excused' = excused /\ upload' = upload
  BY <1>1, <1>2, <1>3, <1>4 DEF ServeCall, wizard
<1>6. Sent(c) /\ c.imp \in Imports
  BY <1>5 DEF Sent, Mutation
<1>7. /\ server' \in [Imports -> Import]
      /\ \A j \in Imports : server'[j].version >= server[j].version
  BY <1>5, <1>6, ResultType, BecomesType, PInvFacts
<1>8. version \in Nat /\ stage \in Stages
  BY <1>2, <1>3, <1>6, <1>7 DEF Import, Stages
<1>9. d \in Mutation /\ d.imp = c.imp /\ d.version = version
  <2>1. PICK half : half = [c EXCEPT !.version = version]
    OBVIOUS
  <2>2. half \in Mutation /\ Sent(half) /\ half.imp = c.imp /\ half.version = version
    BY <1>6, <1>8, <2>1, Versioned
  <2>3. d = [half EXCEPT !.stage = stage]
    BY <1>4, <2>1
  <2> QED
    BY <1>8, <2>2, <2>3, Stays
<1>10. d.version <= server'[d.imp].version
  BY <1>2, <1>8, <1>9
<1> QED
  BY <1>1, <1>5, <1>6, <1>7, <1>9, <1>10, PInvFacts, CallStep

\* The job of a retry is in the queue.
LEMMA EnqueuedKept == ASSUME PInv, NEW m \in Mutations, Enqueued(m) PROVE PInv'
<1>1. PICK c \in Mutation : c = calls[m]
  BY PInvFacts
<1>2. PICK d : d = [c EXCEPT !.stage = "served"]
  OBVIOUS
<1>3. /\ c.stage = "queueing" /\ calls' = [calls EXCEPT ![m] = d] /\ server' = server /\ where' = where
      /\ queries' = queries /\ known' = known /\ excused' = excused /\ upload' = upload
  <2>1. calls' = [calls EXCEPT ![m].stage = "served"]
    BY DEF Enqueued
  <2>2. calls' = [calls EXCEPT ![m] = d]
    BY <1>1, <1>2, <2>1
  <2> QED
    BY <1>1, <2>2 DEF Enqueued, wizard
<1>4. Sent(c) /\ "served" \in Stages
  BY <1>3 DEF Sent, Stages
<1>5. d \in Mutation /\ d.imp = c.imp /\ d.version = c.version /\ c.imp \in Imports
  BY <1>2, <1>4, Stays
<1>6. d.version <= server[d.imp].version
  BY <1>1, <1>4, <1>5, PInvFacts DEF Honest
<1>7. /\ server' \in [Imports -> Import]
      /\ \A j \in Imports : server'[j].version >= server[j].version
  BY <1>3, SameVersions
<1> QED
  BY <1>1, <1>3, <1>4, <1>5, <1>6, <1>7, PInvFacts, CallStep

\* The queue refuses it, and the import is saved as failed.
LEMMA EnqueueFailsKept == ASSUME PInv, NEW m \in Mutations, EnqueueFails(m) PROVE PInv'
<1>1. PICK c \in Mutation : c = calls[m]
  BY PInvFacts
<1>2. PICK d : d = [c EXCEPT !.stage = "refused"]
  OBVIOUS
<1>3. /\ c.stage = "queueing" /\ calls' = [calls EXCEPT ![m] = d] /\ Becomes(c.imp, "FAILED") /\ where' = where
      /\ queries' = queries /\ known' = known /\ excused' = excused /\ upload' = upload
  <2>1. calls' = [calls EXCEPT ![m].stage = "refused"]
    BY DEF EnqueueFails
  <2>2. calls' = [calls EXCEPT ![m] = d]
    BY <1>1, <1>2, <2>1
  <2> QED
    BY <1>1, <2>2 DEF EnqueueFails, wizard
<1>4. Sent(c) /\ "refused" \in Stages /\ "FAILED" \in Status \cup {"GONE"}
  BY <1>3 DEF Sent, Stages, Status
<1>5. d \in Mutation /\ d.imp = c.imp /\ d.version = c.version /\ c.imp \in Imports /\ c.version \in Nat
  BY <1>2, <1>4, Stays
<1>6. /\ server' \in [Imports -> Import]
      /\ \A j \in Imports : server'[j].version >= server[j].version
  BY <1>3, <1>4, <1>5, BecomesType, PInvFacts
<1>7. d.version <= server'[d.imp].version
  <2>1. d.version <= server[d.imp].version
    BY <1>1, <1>4, <1>5, PInvFacts DEF Honest
  <2>2. server[d.imp].version \in Nat /\ server'[d.imp].version \in Nat
    BY <1>5, <1>6, PInvFacts DEF Import
  <2> QED
    BY <1>5, <1>6, <2>1, <2>2
<1> QED
  BY <1>1, <1>3, <1>4, <1>5, <1>6, <1>7, PInvFacts, CallStep

\* The user is told; the page that he is on fetches again.
LEMMA CallAnsweredKept == ASSUME PInv, NEW m \in Mutations, CallAnswered(m) PROVE PInv'
<1>1. PICK c \in Mutation : c = calls[m]
  BY PInvFacts
<1>2. PICK news : news = IF known[c.imp] < c.version THEN c.version ELSE known[c.imp]
  OBVIOUS
<1>3. /\ c.stage = "served" /\ known' = [known EXCEPT ![c.imp] = news] /\ calls' = [calls EXCEPT ![m] = Over]
      /\ queries' = Invalidated(queries, where) /\ server' = server /\ where' = where
      /\ excused' = excused /\ upload' = upload
  <2>1. known' = [known EXCEPT ![c.imp] = IF @ < c.version THEN c.version ELSE @]
    BY <1>1 DEF CallAnswered
  <2>2. known' = [known EXCEPT ![c.imp] = news]
    BY <1>2, <2>1
  <2> QED
    BY <1>1, <2>2 DEF CallAnswered, wizard
<1>4. Sent(c) /\ c.imp \in Imports /\ c.version \in Nat /\ c.version <= server[c.imp].version
  <2>1. Sent(c)
    BY <1>3 DEF Sent
  <2>2. c.imp \in Imports /\ c.version \in Nat
    BY <2>1 DEF Mutation, Call
  <2> QED
    BY <1>1, <2>1, <2>2, PInvFacts DEF Honest
<1>5. news \in Nat /\ news <= server[c.imp].version
  BY <1>2, <1>4, PInvFacts DEF Honest
<1>6. known' \in [Imports -> Nat] /\ \A i \in Imports : known'[i] = IF i = c.imp THEN news ELSE known[i]
  BY <1>3, <1>4, <1>5, PInvFacts
<1>7. /\ calls' \in [Mutations -> Mutation] /\ ~Sent(calls'[m])
      /\ \A n \in Mutations : n # m => calls'[n] = calls[n]
  BY <1>3, OverType, PInvFacts
<1>8. /\ Cache(queries')
      /\ \A k \in Keys : queries'[k] = IF k = where /\ (queries[k].fetch = "none" \/ HasData(queries[k]))
                                       THEN Send(queries[k]) ELSE queries[k]
  BY <1>3, InvalidatedType, PInvFacts
<1>9. \A k \in Keys : /\ Send(queries[k]).fetch = "first" /\ Send(queries[k]).read = NoData
                      /\ Send(queries[k]).data = queries[k].data
  BY SendType, PInvFacts DEF Cache
<1>10. PagesType'
  BY <1>3, <1>6, <1>7, <1>8, PInvFacts DEF PagesType
<1>11. Honest'
  <2>1. \A i \in Imports : known'[i] <= server[i].version
    BY <1>5, <1>6, PInvFacts DEF Honest
  <2>2. \A n \in Mutations : Sent(calls'[n]) => calls'[n].version <= server[calls'[n].imp].version
    BY <1>7, PInvFacts DEF Honest
  <2> QED
    BY <1>3, <2>1, <2>2, PInvFacts DEF Honest
<1>12. OnlyOpen(queries', where')
  BY <1>3, <1>8, <1>9, KeyFacts, PInvFacts DEF OnlyOpen
<1>13. ASSUME ~excused'
       PROVE  Waiting' /\ \A i \in Imports : where' = i => FreshAt(i, queries'[i], known')
  <2>1. Waiting
    BY <1>3, <1>13, PInvFacts
  <2>2. ASSUME NEW n \in Mutations, Sent(calls'[n])
        PROVE  where' = "list" \/ (where' = calls'[n].imp /\ HasData(queries'[calls'[n].imp]))
    <3>1. n # m /\ Sent(calls[n]) /\ calls'[n] = calls[n]
      BY <1>7, <2>2
    <3>2. calls[n].imp \in Keys
      BY <3>1, KeyFacts, PInvFacts DEF Mutation
    <3>3. where = "list" \/ (where = calls[n].imp /\ HasData(queries[calls[n].imp]))
      BY <2>1, <3>1 DEF Waiting
    <3> QED
      BY <1>3, <1>8, <1>9, <3>1, <3>2, <3>3 DEF HasData
  <2>3. upload' # Null => where' = "wizard"
    BY <1>3, <2>1 DEF Waiting
  <2>4. ASSUME NEW i \in Imports, where' = i
        PROVE  FreshAt(i, queries'[i], known')
    <3>1. where = c.imp /\ HasData(queries[c.imp]) /\ i = where
      BY <1>1, <1>3, <1>4, <2>1, <2>4, KeyFacts DEF Waiting
    <3>2. queries'[i].fetch = "first" /\ queries'[i].read = NoData
      BY <1>8, <1>9, <3>1, KeyFacts
    <3> QED
      BY <3>2 DEF FreshAt
  <2> QED
    BY <2>2, <2>3, <2>4 DEF Waiting
<1> QED
  BY <1>10, <1>11, <1>12, <1>13 DEF PInv

\* A call that fails tells its user nothing.
LEMMA CallFailsKept == ASSUME PInv, NEW m \in Mutations, CallFails(m) PROVE PInv'
<1>1. /\ calls' = [calls EXCEPT ![m] = Over] /\ server' = server /\ where' = where /\ queries' = queries
      /\ known' = known /\ upload' = upload
  BY DEF CallFails, wizard
<1>2. excused' = excused \/ excused' = (excused \/ calls[m].stage # "sent")
  BY DEF CallFails
<1>3. excused' \in BOOLEAN
  BY <1>2, PInvFacts
<1>4. excused => excused'
  BY <1>2
<1>5. /\ server' \in [Imports -> Import]
      /\ \A j \in Imports : server'[j].version >= server[j].version
  BY <1>1, SameVersions
<1> QED
  BY <1>1, <1>3, <1>4, <1>5, OverType, PInvFacts, CallStep

\* The server's answers to an upload.
LEMMA ServeUploadKept == ASSUME PInv, NEW i \in Imports, ServeUpload(i) PROVE PInv'
<1>1. /\ upload # Null /\ where' = where /\ queries' = queries /\ calls' = calls /\ known' = known
      /\ excused' = excused
  BY DEF ServeUpload
<1>2. /\ server' \in [Imports -> Import] /\ \A j \in Imports : server'[j].version >= server[j].version
      /\ \E outcome : /\ upload' = [upload EXCEPT !.outcome = outcome]
                      /\ outcome \in Imports => server'[outcome].version >= 1
  <2>1. CASE \E status \in {"QUEUED"} \cup DoneStatuses :
               Becomes(i, status) /\ upload' = [upload EXCEPT !.outcome = i]
    <3>1. PICK status \in {"QUEUED"} \cup DoneStatuses :
            Becomes(i, status) /\ upload' = [upload EXCEPT !.outcome = i]
      BY <2>1
    <3>2. status \in Status \cup {"GONE"}
      BY DEF DoneStatuses, Status
    <3>3. /\ server' \in [Imports -> Import] /\ server'[i].version = server[i].version + 1
          /\ \A j \in Imports : server'[j].version >= server[j].version
      BY <3>1, <3>2, BecomesType, PInvFacts
    <3>4. server[i].version \in Nat
      BY PInvFacts DEF Import
    <3>5. server'[i].version >= 1
      BY <3>3, <3>4
    <3> QED
      BY <3>1, <3>3, <3>5
  <2>2. CASE Becomes(i, "FAILED") /\ upload' = [upload EXCEPT !.outcome = "refused"]
    <3>1. "FAILED" \in Status \cup {"GONE"}
      BY DEF Status
    <3>2. /\ server' \in [Imports -> Import]
          /\ \A j \in Imports : server'[j].version >= server[j].version
      BY <2>2, <3>1, BecomesType, PInvFacts
    <3> QED
      BY <2>2, <3>2, KeyFacts
  <2>3. CASE \E answer \in {"refused", "duplicate"} :
               upload' = [upload EXCEPT !.outcome = answer] /\ UNCHANGED server
    <3>1. PICK answer \in {"refused", "duplicate"} : upload' = [upload EXCEPT !.outcome = answer]
      BY <2>3
    <3>2. server' = server /\ \A j \in Imports : server[j].version \in Nat
      BY <2>3, PInvFacts DEF Import
    <3>3. /\ server' \in [Imports -> Import]
          /\ \A j \in Imports : server'[j].version >= server[j].version
      BY <3>2, PInvFacts
    <3> QED
      BY <3>1, <3>3, KeyFacts
  <2> QED
    BY <2>1, <2>2, <2>3 DEF ServeUpload
<1>3. "outcome" \in DOMAIN upload'
  BY <1>1, <1>2, PInvFacts
<1>4. upload'.outcome \in Imports => server'[upload'.outcome].version >= 1
  <2>1. PICK outcome : /\ upload' = [upload EXCEPT !.outcome = outcome]
                       /\ outcome \in Imports => server'[outcome].version >= 1
    BY <1>2
  <2>2. upload'.outcome = outcome
    BY <1>1, <2>1, PInvFacts
  <2> QED
    BY <2>1, <2>2
<1>5. PagesType'
  BY <1>1, <1>2, <1>3, PInvFacts DEF PagesType
<1>6. Honest'
  <2>1. \A j \in Imports : server[j].version \in Nat /\ server'[j].version \in Nat /\ known[j] \in Nat
    BY <1>2, PInvFacts DEF Import
  <2>2. ASSUME NEW m \in Mutations, Sent(calls[m])
        PROVE  calls[m].version <= server'[calls[m].imp].version
    BY <1>2, <2>1, <2>2, SentNewer
  <2> QED
    BY <1>1, <1>2, <1>4, <2>1, <2>2, PInvFacts DEF Honest
<1>7. ~excused' => Waiting'
  BY <1>1, PInvFacts DEF Waiting
<1> QED
  BY <1>1, <1>5, <1>6, <1>7, PInvFacts DEF PInv

\* The page of the new import is opened.
LEMMA UploadAnsweredKept == ASSUME PInv, UploadAnswered PROVE PInv'
<1>1. PICK i \in Imports : i = upload.outcome
  BY DEF UploadAnswered
<1>2. PICK fresh : fresh = Invalidated(queries, where)
  OBVIOUS
<1>3. PICK left : left = IF where = i THEN fresh ELSE Unmounted(fresh, where)
  OBVIOUS
<1>4. /\ upload # Null /\ upload' = Null /\ where' = i /\ known' = [known EXCEPT ![i] = 1]
      /\ queries' = Mounted(left, i) /\ server' = server /\ excused' = excused
      /\ calls' = [m \in Mutations |-> [calls[m] EXCEPT !.here = FALSE]]
  BY <1>1, <1>2, <1>3 DEF UploadAnswered, Opens
<1>18. /\ calls' \in [Mutations -> Mutation]
       /\ \A m \in Mutations : /\ calls'[m].stage = calls[m].stage /\ calls'[m].imp = calls[m].imp
                             /\ calls'[m].version = calls[m].version
  BY <1>4, CallsLeft, PInvFacts
<1>5. i \in Keys
  BY KeyFacts
<1>6. /\ Cache(fresh)
      /\ \A k \in Keys : fresh[k] = IF k = where /\ (queries[k].fetch = "none" \/ HasData(queries[k]))
                                    THEN Send(queries[k]) ELSE queries[k]
  BY <1>2, InvalidatedType, PInvFacts
<1>7. \A k \in Keys : Send(queries[k]).fetch = "first" /\ Send(queries[k]).read = NoData
  BY SendType, PInvFacts DEF Cache
<1>8. Cache(left) /\ \A j \in Imports : j # i => Idle(left[j])
  <2>1. CASE where = i
    <3>1. left = fresh
      BY <1>3, <2>1
    <3>2. \A j \in Imports : j # i => Idle(fresh[j])
      BY <1>6, <2>1, KeyFacts, PInvFacts DEF OnlyOpen
    <3> QED
      BY <1>6, <3>1, <3>2
  <2>2. CASE where # i
    <3>1. left = Unmounted(fresh, where)
      BY <1>3, <2>2
    <3>2. /\ Cache(left) /\ \A k \in Keys : k # where \/ where \notin Imports => left[k] = fresh[k]
          /\ where \in Imports => Idle(left[where])
      BY <1>6, <3>1, UnmountedType
    <3>3. \A j \in Imports : j # where => Idle(left[j])
      BY <1>6, <3>2, KeyFacts, PInvFacts DEF OnlyOpen
    <3> QED
      BY <3>2, <3>3
  <2> QED
    BY <2>1, <2>2
<1>9. where # i => Idle(left[i])
  <2> SUFFICES ASSUME where # i PROVE Idle(left[i])
    OBVIOUS
  <2>1. left = Unmounted(fresh, where)
    BY <1>3
  <2>2. \A k \in Keys : k # where \/ where \notin Imports => left[k] = fresh[k]
    BY <1>6, <2>1, UnmountedType
  <2>3. left[i] = queries[i]
    BY <1>5, <1>6, <2>2
  <2> QED
    BY <2>3, PInvFacts DEF OnlyOpen
<1>10. /\ Cache(queries') /\ \A k \in Keys : k # i => queries'[k] = left[k]
       /\ queries'[i] = IF left[i].fetch = "none" THEN Send(left[i]) ELSE left[i]
  BY <1>4, <1>5, <1>8, MountedType
<1>11. Send(left[i]).fetch = "first" /\ Send(left[i]).read = NoData
  <2>1. left[i] \in Query(i)
    BY <1>5, <1>8 DEF Cache
  <2> QED
    BY <2>1, SendType
<1>12. server[i].version >= 1
  BY <1>1, <1>4, PInvFacts DEF Honest
<1>13. known' \in [Imports -> Nat] /\ \A j \in Imports : known'[j] = IF j = i THEN 1 ELSE known[j]
  BY <1>4, PInvFacts
<1>14. PagesType'
  BY <1>4, <1>5, <1>10, <1>13, <1>18, PInvFacts DEF PagesType
<1>15. Honest'
  <2>1. \A m \in Mutations : Sent(calls'[m]) => calls'[m].version <= server[calls'[m].imp].version
    BY <1>18, PInvFacts DEF Honest, Sent
  <2> QED
    BY <1>4, <1>12, <1>13, <2>1, PInvFacts DEF Honest
<1>16. OnlyOpen(queries', where')
  <2> SUFFICES ASSUME NEW j \in Imports, j # where' \/ queries'[j].fetch = "none"
               PROVE  Idle(queries'[j])
    BY DEF OnlyOpen
  <2>1. CASE j # i
    BY <1>8, <1>10, <2>1, KeyFacts
  <2>2. CASE j = i
    <3>1. queries'[i].fetch = "none"
      BY <1>4, <2>2
    <3>2. left[i].fetch # "none" /\ queries'[i] = left[i]
      BY <1>10, <1>11, <3>1
    <3> QED
      BY <3>1, <3>2
  <2> QED
    BY <2>1, <2>2
<1>17. ASSUME ~excused'
       PROVE  Waiting' /\ \A j \in Imports : where' = j => FreshAt(j, queries'[j], known')
  <2>1. Waiting /\ where = "wizard"
    BY <1>4, <1>17, PInvFacts DEF Waiting
  <2>2. \A m \in Mutations : ~Sent(calls[m])
    <3>1. \A m \in Mutations : Sent(calls[m]) => calls[m].imp \in Imports
      BY PInvFacts DEF Mutation
    <3> QED
      BY <2>1, <3>1, KeyFacts DEF Waiting
  <2>3. Waiting'
    BY <1>4, <1>18, <2>2 DEF Waiting, Sent
  <2>4. queries'[i].fetch = "first" /\ queries'[i].read = NoData
    BY <1>9, <1>10, <1>11, <2>1, KeyFacts DEF Idle
  <2> QED
    BY <1>4, <2>3, <2>4 DEF FreshAt
<1> QED
  BY <1>14, <1>15, <1>16, <1>17 DEF PInv

\* An upload that fails leaves the pages alone.
LEMMA UploadFailsKept == ASSUME PInv, UploadFails PROVE PInv'
<1>1. /\ upload' = Null /\ server' = server /\ where' = where /\ queries' = queries /\ calls' = calls
      /\ known' = known /\ excused' = excused
  BY DEF UploadFails, UploadRejected
<1>2. \A j \in Imports : server[j].version \in Nat
  BY PInvFacts DEF Import
<1> QED
  BY <1>1, <1>2, PInvFacts, SamePage

\* The server moves an import on, and so do others.
LEMMA AdvanceKept == ASSUME PInv, NEW i \in Imports, Advance(i) PROVE PInv'
<1>1. PICK status \in allowedTransitions[server[i].status] : Becomes(i, status)
  BY DEF Advance
<1>2. /\ queries' = queries /\ where' = where /\ known' = known /\ upload' = upload /\ calls' = calls
      /\ excused' = excused /\ server[i].status \in Status
  BY DEF Advance, wizard, NON_TERMINAL_STATUSES, Status
<1>3. status \in Status \cup {"GONE"}
  BY <1>1, <1>2 DEF allowedTransitions, Status
<1>4. /\ server' \in [Imports -> Import]
      /\ \A j \in Imports : server'[j].version >= server[j].version
  BY <1>1, <1>3, BecomesType, PInvFacts
<1> QED
  BY <1>2, <1>4, PInvFacts, SamePage

\* A worker's result is a status, whatever it is saved over.
LEMMA FinishesKept == ASSUME PInv, NEW i \in Imports, Finishes(i) PROVE PInv'
<1>1. PICK status \in allowedTransitions["PROCESSING"] : Becomes(i, status)
  BY DEF Finishes
<1>2. /\ queries' = queries /\ where' = where /\ known' = known /\ upload' = upload /\ calls' = calls
      /\ excused' = excused
  BY DEF Finishes, wizard
<1>3. status \in Status \cup {"GONE"}
  BY <1>1 DEF allowedTransitions, Status
<1>4. /\ server' \in [Imports -> Import]
      /\ \A j \in Imports : server'[j].version >= server[j].version
  BY <1>1, <1>3, BecomesType, PInvFacts
<1> QED
  BY <1>2, <1>4, PInvFacts, SamePage

\* What others do excuses the pages.
LEMMA ByAnotherKept == ASSUME PInv, NEW i \in Imports, ByAnother(i) PROVE PInv'
<1>1. /\ \E status \in Status \cup {"GONE"} : Becomes(i, status)
      /\ queries' = queries /\ where' = where /\ known' = known /\ upload' = upload /\ calls' = calls
      /\ excused' = TRUE
  BY ResultType DEF ByAnother, wizard, Status
<1>2. /\ server' \in [Imports -> Import]
      /\ \A j \in Imports : server'[j].version >= server[j].version
  BY <1>1, BecomesType, PInvFacts
<1> QED
  BY <1>1, <1>2, PInvFacts, SamePage

-----------------------------------------------------------------------------
(* The theorems about the pages.                                           *)

\* A session begins with nothing known.
LEMMA PInvInit == Init => PInv
<1> SUFFICES ASSUME Init PROVE PInv
  OBVIOUS
<1>1. /\ where \in {"wizard", "list"} /\ calls = [m \in Mutations |-> NoCall] /\ known = [i \in Imports |-> 0] /\ excused = FALSE
      /\ queries = [q \in Keys |-> IF q = where THEN Send(NewQuery) ELSE NewQuery]
      /\ server \in [Imports -> {[status |-> s, version |-> 0] :
                               s \in IF where = "wizard" THEN {"NONE"} ELSE Status}]
      /\ upload = Null
  BY DEF Init, WizardInit
<1>2. \A i \in Imports : server[i] \in Import /\ server[i].version = 0
  BY <1>1 DEF Import
<1>3. server \in [Imports -> Import]
  BY <1>1, <1>2
<1>4. \A key \in Keys : Send(NewQuery) \in Query(key) /\ NewQuery \in Query(key)
  BY SendType, NewQueryType
<1>5. Cache(queries)
  BY <1>1, <1>4 DEF Cache
<1>6. NewQuery.fetch = "none" /\ NewQuery.read = NoData
  BY DEF NewQuery
<1>7. \A i \in Imports : i # where /\ queries[i] = NewQuery
  BY <1>1, KeyFacts
<1>8. OnlyOpen(queries, where)
  BY <1>6, <1>7 DEF OnlyOpen, Idle
<1>12. \A m \in Mutations : calls[m] = NoCall /\ ~Sent(calls[m])
  BY <1>1 DEF NoCall, Sent
<1>13. NoCall \in Mutation
  BY DEF NoCall, Mutation, Call, Stages, Sent
<1>9. PagesType
  BY <1>1, <1>3, <1>5, <1>13, KeyFacts DEF PagesType
<1>10. Honest
  BY <1>1, <1>2, <1>12 DEF Honest
<1>11. Waiting
  BY <1>1, <1>12 DEF Waiting
<1> QED
  BY <1>7, <1>8, <1>9, <1>10, <1>11 DEF PInv

\* Stuttering.
LEMMA PagesUnchanged == ASSUME PInv, UNCHANGED vars PROVE PInv'
<1>1. /\ queries' = queries /\ where' = where /\ known' = known /\ upload' = upload /\ calls' = calls
      /\ server' = server /\ excused' = excused
  BY DEF vars, wizard, pages
<1>2. \A j \in Imports : server[j].version \in Nat
  BY PInvFacts DEF Import
<1> QED
  BY <1>1, <1>2, PInvFacts, SamePage

\* The invariant of the pages.
LEMMA PagesInv == Spec => []PInv
<1>1. ASSUME PInv, Next PROVE PInv'
  BY <1>1, WizardKept, VisitKept, ServerReadsKept, AnsweredKept, FetchFailsKept, PollKept, ServeUploadKept,
     AdvanceKept, FinishesKept, ByAnotherKept, PressKept, ServeCallKept, EnqueuedKept, EnqueueFailsKept,
     CallAnsweredKept, CallFailsKept, UploadAnsweredKept, UploadFailsKept DEF Next
<1>2. PInv /\ [Next]_vars => PInv'
  BY <1>1, PagesUnchanged
<1> QED
  BY PInvInit, <1>2, PTL DEF Spec

\* A page that fetches nothing shows what its user knows to have done, with any
\* number of imports and of the server's steps: every answer read before he
\* knew is dropped, or belongs to a page that he has left.
THEOREM ReadsItsWrites == Spec => []ReadYourWrites
<1>1. PInv => ReadYourWrites
  <2> SUFFICES ASSUME PInv, ~excused, NEW i \in Imports, Open(i), queries[i].fetch = "none"
               PROVE  queries[i].data[i].version >= known[i]
    BY DEF ReadYourWrites
  <2>1. where = i /\ HasData(queries[i])
    BY DEF Open
  <2>2. FreshAt(i, queries[i], known)
    BY <2>1, PInvFacts
  <2> QED
    BY <2>1, <2>2 DEF FreshAt
<1> QED
  BY <1>1, PagesInv, PTL

\* The server's answer changes nothing of what was sent.
LEMMA ServedKept == ASSUME WInv, NEW i \in Imports, ServeUpload(i) PROVE WInv'
<1>1. /\ upload # Null /\ page' = page /\ reading' = reading /\ details' = details /\ crossed' = crossed
  BY DEF ServeUpload
<1>2. PICK outcome : upload' = [upload EXCEPT !.outcome = outcome]
  BY DEF ServeUpload
<1>3. ASSUME ~crossed PROVE UploadOK'
  <2>1. PICK p \in Page : p = Sender(upload)
    BY <1>1, <1>3, WInvPage DEF UploadOK
  <2>2. PICK request : request = Request(p)
    OBVIOUS
  <2>3. /\ upload = [request EXCEPT !.outcome = upload.outcome] /\ Reviewed(p)
        /\ page.sent = "sending" => page = p
    BY <1>1, <1>3, <2>1, <2>2, WInvPage DEF UploadOK
  <2>4. PICK next : next = upload'
    OBVIOUS
  <2>5. next = [request EXCEPT !.outcome = outcome]
    BY <1>2, <2>3, <2>4
  <2>6. /\ next.file = p.file /\ next.table = <<p.schema, p.table>> /\ next.createTable = p.createTable
        /\ next.importMode = p.importMode /\ next.rows = p.mapping /\ next.outcome = outcome
    BY <2>2, <2>5 DEF Request, Destination
  <2>7. p.step = 4 /\ p.sent = "sending"
    BY <2>1 DEF Sender
  <2>8. Sender(next) = p
    <3>1. next.table[1] = p.schema /\ next.table[2] = p.table
      BY <2>6
    <3> QED
      BY <2>6, <2>7, <3>1 DEF Sender, Page
  <2>9. next = [Request(Sender(next)) EXCEPT !.outcome = next.outcome]
    BY <2>2, <2>5, <2>6, <2>8
  <2> QED
    BY <1>1, <2>3, <2>4, <2>8, <2>9 DEF UploadOK
<1> QED
  BY <1>1, <1>3 DEF WInv

\* The wizard's invariant is kept by every step of the application.
LEMMA WInvNext == ASSUME WInv, Next PROVE WInv'
<1>1. CASE Wizard
  BY <1>1, WizardEventKept DEF Wizard
<1>2. ASSUME NEW to \in Keys, Visit(to) PROVE WInv'
  <2>1. Leaves /\ upload' = upload /\ crossed' = (crossed /\ upload' # Null)
    BY <1>2 DEF Visit, Opens
  <2> QED
    BY <2>1, LeavesKept
<1>3. CASE UploadAnswered
  <2>1. Leaves /\ upload' = Null /\ crossed' = (crossed /\ upload' # Null)
    BY <1>3 DEF UploadAnswered, Opens
  <2> QED
    BY <2>1, LeavesKept
<1>4. CASE UploadFails
  BY <1>4, RejectedKept DEF UploadFails
<1>5. ASSUME NEW i \in Imports, ServeUpload(i) PROVE WInv'
  BY <1>5, ServedKept
<1>6. CASE UNCHANGED wizard
  BY <1>6, WizardUnchanged
<1>7. ASSUME NEW key \in Keys, ServerReads(key) \/ Answered(key) \/ FetchFails(key) PROVE UNCHANGED wizard
  BY <1>7 DEF ServerReads, Answered, FetchFails
<1>8. ASSUME NEW i \in Imports,
             \/ Poll(i) \/ Advance(i) \/ Finishes(i) \/ ByAnother(i)
             \/ \E op \in {"retry", "cancel", "remove"}, m \in Mutations : Press(op, i, m)
      PROVE  UNCHANGED wizard
  BY <1>8 DEF Poll, Advance, Finishes, ByAnother, Press
<1>9. ASSUME NEW m \in Mutations,
             ServeCall(m) \/ Enqueued(m) \/ EnqueueFails(m) \/ CallAnswered(m) \/ CallFails(m)
      PROVE  UNCHANGED wizard
  BY <1>9 DEF ServeCall, Enqueued, EnqueueFails, CallAnswered, CallFails
<1> QED
  BY <1>1, <1>2, <1>3, <1>4, <1>5, <1>6, <1>7, <1>8, <1>9 DEF Next

\* Both theorems about the wizard hold among the other pages too, where its user
\* may leave it while an upload runs and the server may answer at any time.
THEOREM ReviewingAmongPages == Spec => [](ReviewedIsSent /\ AcceptedIfMapped)
<1>1. Init => WInv
  BY WInvInit DEF Init
<1>2. UNCHANGED vars => UNCHANGED wizard
  BY DEF vars, wizard
<1>3. WInv /\ [Next]_vars => WInv'
  BY <1>2, WInvNext, WizardUnchanged
<1>4. WInv => ReviewedIsSent /\ AcceptedIfMapped
  BY WInvProperties
<1> QED
  BY <1>1, <1>3, <1>4, PTL DEF Spec
===============================================================================
