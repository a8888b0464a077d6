----------------------------- MODULE MCEndToEnd -----------------------------
(***************************************************************************)
(* A small instance of EndToEnd for TLC: the last year there can be is     *)
(* 1962, and two loads meet on the figure of 1961.                         *)
(***************************************************************************)
EXTENDS EndToEnd, TLC

CONSTANTS p1, p2, NonInt

SomeSpellings == ("bol" :> "BOL")
SomeNames == ("bolivia" :> "BOL") @@ ("peru" :> "PER")

(* Bolivia from 1961 on, and everything there is.                          *)
Bolivia == [database_url |-> "postgresql://", log_level |-> Unset,
            http_timeout_seconds |-> Unset, http_max_retries |-> 0,
            country_filter |-> <<"bol">>, min_year |-> 1961]
Everything == [Bolivia EXCEPT !.country_filter = <<>>, !.min_year = 1960]
SomeEnvs == {Bolivia, Everything, [Bolivia EXCEPT !.database_url = Unset]}

Record(code, year, value) == [code |-> code, year |-> year, value |-> value]

(* A figure given twice, across two pages, with one nobody asked for in    *)
(* between; and its revision, with a row that cannot be read and a blank.  *)
Table == <<Record("BOL", 1961, 4), Record("PER", 1961, 5), Record("bol", 1961, 6)>>
Revised == <<Record("BOL", 1962, 101), Record("bol", 1961, 5), Record("BOL", 1962, Missing)>>
SomeTables == {Table, Revised}

SomeDownloads == {[columns |-> REQUIRED_COLUMNS,
                   rows |-> <<Record("BOL", 1960, 7), Record("BOL", 1962, 3),
                              Record("BOL", 1961, Garbled), Record("BOL", 1961, Missing),
                              Record("bol", 1961, 5)>>]}

NoLabel == [provider |-> "none", year |-> 0]
PlainText == [name |-> OtherName, figure |-> Garbled, label |-> NoLabel, of |-> "none"]
Name(name) == [PlainText EXCEPT !.name = name]
Figure(of, figure) == [PlainText EXCEPT !.figure = figure, !.of = of]
Label(provider, year) == [PlainText EXCEPT !.label = [provider |-> provider, year |-> year]]
Line(name, wb, cia) == <<Name(name), Figure("WB", wb), Figure("CIA", cia)>>

SomeArticles == {<< <<PlainText, PlainText>>, <<Label("WB", 1960), Label("CIA", 1961)>>,
                    Line("bolivia", 3, 4), Line("peru", 5, Missing),
                    Line(OtherName, 7, 8)>>, NoTable}

(* What another invocation loads meanwhile.                                *)
OtherFeed == {[rows |-> <<[fact |-> <<"BOL", 1961>>, value |-> 9]>>,
               rejected |-> 0, skipped |-> 0]}

(* The other is followed through the first source only, which it may load  *)
(* before, after or beside the one that is watched.                        *)
OthersFirstSource == idx[p2] = 1
=============================================================================
