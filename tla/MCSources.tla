------------------------------ MODULE MCSources ------------------------------
(***************************************************************************)
(* Small instances of Sources for TLC: environments, tables of up to       *)
(* seven records over pages of two with a limit of three, CSV bodies, and  *)
(* articles.                                                               *)
(***************************************************************************)
EXTENDS SourcesProgress, TLC

CONSTANTS NonInt

SomeCodes == {"BOL", "PER", "FRA", "LAC"}
SomeSpellings == ("bol" :> "BOL") @@ ("lac" :> "LAC") @@ ("info" :> "INFO")
SomeNames == ("bolivia" :> "BOL") @@ ("peru" :> "PER")

-----------------------------------------------------------------------------
(* Environments                                                            *)

Plain == [database_url |-> "postgresql://", log_level |-> Unset,
          http_timeout_seconds |-> Unset, http_max_retries |-> Unset,
          country_filter |-> <<>>, min_year |-> Unset]

Narrow == [Plain EXCEPT !.log_level = "info", !.http_timeout_seconds = 1,
                        !.http_max_retries = 0, !.min_year = 2021,
                        !.country_filter = <<"bol", Unset, "LAC">>]

Widest == [Plain EXCEPT !.min_year = 1960, !.http_max_retries = 1]

Refusals == {[Plain EXCEPT !.database_url = Unset], [Plain EXCEPT !.log_level = "LOUD"],
             [Plain EXCEPT !.http_timeout_seconds = 0],
             [Plain EXCEPT !.http_max_retries = -1],
             [Plain EXCEPT !.min_year = 1959], [Plain EXCEPT !.min_year = Garbled]}

AllEnvs == {Plain, Narrow, Widest, [Plain EXCEPT !.http_timeout_seconds = NotFinite]}
               \cup Refusals

PlainEnv == {Plain}

-----------------------------------------------------------------------------
(* The API                                                                 *)

Record(code, year, value) == [code |-> code, year |-> year, value |-> value]

Good == <<Record("BOL", 2020, 4), Record("PER", 2020, 5), Record("bol", 2021, 6)>>

(* The same with one more at the top, as a release of a new year does.     *)
Released == <<Record("BOL", 2022, 7)>> \o Good

(* Every way a record can be out of scope, blank or unreadable.            *)
Mixed == <<Record("lac", 2020, 5), Record("BOL", 2020, Missing),
           Record("BOL", 2009, 5), Record("BOL", 2009, Garbled)>>
Odd == <<NotAnObject, Record("FRA", 1950, Garbled), Record(Missing, 2020, 5),
         Record(Malformed, 2020, 5)>>
Bounds == <<Record("BOL", 2028, 5), Record("PER", 2027, 100), Record("PER", 2026, 101)>>

(* One page more than the limit allows.                                    *)
TooLong == Released \o Good

AllTables == {Good, Released, Mixed, Odd, Bounds, TooLong}

(* No integer at all, and a total that is never reached.                   *)
Misreports == {NonInt, 9}

-----------------------------------------------------------------------------
(* The CSV                                                                 *)

Body(records) == [columns |-> REQUIRED_COLUMNS, rows |-> records]

Years == <<Record("BOL", 1959, 5), Record("BOL", 2009, 5), Record("BOL", 2021, 0),
           Record("BOL", Fractional, 5), Record("BOL", Missing, 5),
           Record("BOL", 2028, 5)>>
Figures == <<Record("BOL", 2021, Missing), Record("BOL", 2021, Garbled),
             Record("PER", 2021, 101), Record("BOL", 2021, 100)>>
CodesOfAllKinds == <<Record("bol", 2021, 5), Record("LAC", 2021, 5),
                     Record(Missing, 2021, 5), Record("FRA", 2021, 5)>>

Renamed == [columns |-> {"entity", "code", "year"}, rows |-> Good]

AllDownloads == {Body(Years), Body(Figures), Body(CodesOfAllKinds), Body(<<>>),
                 Renamed, Unparseable}

-----------------------------------------------------------------------------
(* The article                                                             *)

NoLabel == [provider |-> "none", year |-> 0]
PlainText == [name |-> OtherName, figure |-> Garbled, label |-> NoLabel, of |-> "none"]
Name(name) == [PlainText EXCEPT !.name = name]
Figure(of, figure) == [PlainText EXCEPT !.figure = figure, !.of = of]
Label(provider, year) == [PlainText EXCEPT !.label = [provider |-> provider, year |-> year]]

Line(name, wb, cia) == <<Name(name), Figure("WB", wb), Figure("CIA", cia)>>
Heading == <<Name(OtherName), PlainText>>

Article(header, lines) == <<Heading, header>> \o lines

WbFirst == <<Label("WB", 2023), Label("CIA", 2024)>>

AllArticles == {
    NoTable,
    <<Heading, WbFirst>>,
    Article(<<Label("WB", 2024), Label("IMF", 2024)>>, <<Line("bolivia", 3, 4)>>),
    Article(WbFirst, <<Line("bolivia", 3, 4), Line("peru", 5, Missing),
                       Line(OtherName, 7, 8), Line("peru", 5, 6)>>),
    Article(WbFirst, <<Line(NoName, 3, 4), Line("bolivia", 3, Garbled),
                       Line("bolivia", Missing, 101)>>),
    Article(WbFirst, <<Line(OtherName, 7, 8), <<PlainText>>>>),
    \* a section across the table, and a cell across two columns
    Article(WbFirst, <<<<PlainText>>, <<Name("peru"), Figure("CIA", 4), PlainText>>,
                       Line("bolivia", 3, 4)>>),
    \* the column first, an old edition, and a year nobody can have measured
    Article(<<Label("CIA", 2019), Label("WB", 2024)>>,
            <<<<Name("bolivia"), Figure("CIA", 4), Figure("WB", 3)>>>>),
    Article(<<Label("CIA", 2050), Label("WB", 2024)>>,
            <<<<Name("bolivia"), Figure("CIA", 4), Figure("WB", 3)>>>>)}
=============================================================================
