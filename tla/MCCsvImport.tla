----------------------------- MODULE MCCsvImport -----------------------------
(* Instances of CsvImport: the tables there are and the files clients send. *)
EXTENDS CsvImport

Of(type) == [type |-> type, nullable |-> TRUE, default |-> FALSE, generated |-> FALSE,
             identity |-> FALSE, tooLong |-> {}]
Needed(type) == [Of(type) EXCEPT !.nullable = FALSE]

Customers == <<"public", "customers">>
Fresh == <<"public", "fresh">>

MCExisting ==
    Customers :> [ id |-> [Needed("uuid") EXCEPT !.default = TRUE],
                   name |-> [Needed("text") EXCEPT !.tooLong = {"long text"}],
                   n |-> Of("integer"),
                   born |-> Of("date"),
                   tags |-> Of("ARRAY"),
                   sum |-> [Of("numeric") EXCEPT !.generated = TRUE] ]

MCSafeNames == {"public", "fresh", "a", "b", "name", "n", "updated_at", "created_at"}

Input(table, createTable, mode, headers, mapping, records) ==
    [table |-> table, createTable |-> createTable, mode |-> mode, headers |-> headers, mapping |-> mapping,
     types |-> <<>>, large |-> FALSE, options |-> [dateFormat |-> "DD/MM/YYYY", arrayDelimiter |-> ";"],
     records |-> records]

Into(mode, headers, records) == Input(Customers, FALSE, mode, headers, <<>>, records)
New(mode, headers, mapping, types, records) ==
    [Input(Fresh, TRUE, mode, headers, mapping, records) EXCEPT !.types = types]

NameN == <<"name", "n">>
People == << <<"x", " 7 ">>, <<"p,q", "NA">>, <<"null", "x">> >>
Large(input) == [input EXCEPT !.large = TRUE]

ExistingInputs ==
    { Into("FLEXIBLE", NameN, People), Large(Into("STRICT", NameN, People)),
      Large(Into("STRICT", NameN, SubSeq(People, 1, 2))),
      Large(Into("FLEXIBLE", NameN, << <<"x", "7">>, <<"x", "long text">> >>)),
      Into("FLEXIBLE", NameN, << <<"x", "7">>, <<"long text", "1e3">> >>),
      Into("FLEXIBLE", NameN, << <<"x", "99999999999">> >>),
      Into("FLEXIBLE", NameN, << <<"x", "7">>, <<"x">> >>),
      Into("FLEXIBLE", <<"id", "name", "born", "tags">>,
           << <<"A0EEBC99-9C0B-4EF8-BB6D-6BB9BD380A11", "x", "29/02/2024", "p,q">>,
              <<"x", "x", "30/02/2024", "[1, 2]">> >>),
      Into("FLEXIBLE", <<"id", "name">>, << <<"", "x">> >>),
      Large(Into("FLEXIBLE", <<"name">>, << <<"x">>, <<"\\.">>, <<"n">> >>)),
      Into("STRICT", <<"n">>, << <<"7">> >>),
      [Into("FLEXIBLE", <<"name", "born">>, << <<"x", "29/02/2024">>, <<"x", "NA">> >>)
         EXCEPT !.options.dateFormat = "DD.MM.YYYY"],
      Into("STRICT", <<"name", "sum">>, << <<"x", "7">> >>),
      Into("STRICT", <<"name", "name">>, << <<"x", "x">> >>),
      [Into("STRICT", <<"name">>, << <<"x">> >>) EXCEPT !.table = <<"public", "users">>] }

NewInputs ==
    { New("FLEXIBLE", <<"a", "first name">>, "first name" :> "b", "b" :> "integer",
          << <<"[1, 2]", "7">>, <<"", "yes">> >>),
      Large(New("STRICT", <<"a", "name">>, "name" :> "b", "b" :> "boolean",
                << <<"x", "yes">>, <<"NA", "n">> >>)),
      New("STRICT", <<"a", "updated_at">>, <<>>, "updated_at" :> "timestamptz",
          << <<"x", "2024-02-29T10:00:00Z">> >>),
      New("STRICT", <<"a", "updated_at">>, <<>>, <<>>, << <<"x", "n">> >>),
      New("STRICT", <<"a">>, "c" :> "b", <<>>, << <<"x">> >>),
      New("STRICT", <<"a", "first name">>, <<>>, <<>>, << <<"x", "x">> >>) }

MCInputs == ExistingInputs \cup NewInputs
==============================================================================
