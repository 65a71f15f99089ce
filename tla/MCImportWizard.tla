---------------------------- MODULE MCImportWizard ----------------------------
(* A small instance for TLC: files with a header that the preview trims and *)
(* with two that become one name, and a table with every kind of column.   *)
EXTENDS ImportWizard

Of(type) == [type |-> type, nullable |-> TRUE, default |-> FALSE, generated |-> FALSE,
             identity |-> FALSE, tooLong |-> {}]

Customers == <<"public", "customers">>
MCExisting ==
    Customers :> [ name |-> [Of("text") EXCEPT !.nullable = FALSE],
                   a |-> Of("integer"),
                   sum |-> [Of("numeric") EXCEPT !.generated = TRUE] ]
    @@ <<"public", "users">> :> [name |-> Of("text")]

MCFileHeaders == [f1 |-> <<"name", "A ">>, f2 |-> <<"a", "A">>, f3 |-> <<"name", "1st">>]
MCTrimmed == "A " :> "A"
MCSanitized == ("A" :> "a") @@ ("1st" :> "_1st")
==============================================================================
