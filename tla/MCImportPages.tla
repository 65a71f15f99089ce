----------------------------- MODULE MCImportPages -----------------------------
(* A small instance of ImportPages for TLC: the wizard is kept narrow, its  *)
(* own instance is MCImportWizard.                                          *)
EXTENDS ImportPages

MCExisting ==
    <<"public", "customers">> :>
        [name |-> [type |-> "text", nullable |-> FALSE, default |-> FALSE, generated |-> FALSE,
                   identity |-> FALSE, tooLong |-> {}]]
MCFileHeaders == [f1 |-> <<"name">>]

\* Where to stop: both properties are about states and behaviours in which
\* nothing has excused the page, and what has excused it stays.
NotExcused == ~excused
==============================================================================
