--------------------------- MODULE SourcesProgress ---------------------------
(***************************************************************************)
(* Why every extraction ends, the limit on pages and the budget of         *)
(* requests being all that bounds what a publisher can make it do.         *)
(***************************************************************************)
EXTENDS Sources, Progress

PhasesLeft ==
    [configure |-> 4, request |-> 3, fetching |-> 2, reading |-> 1,
     returned |-> 0, raised |-> 0, refused |-> 0]

(* Requests to send and sleeps to wait out, in one fetch.                  *)
FetchLeft ==
    2 * (fetch.attempts - fetch.attempt)
      + (CASE fetch.state = "sending" -> 2 [] fetch.state = "sleeping" -> 1 [] OTHER -> 0)

PhaseLeft ==
    CASE pc = "fetching" -> FetchLeft
      [] pc = "reading" -> Len(rows) - done
      [] OTHER -> 0

Remaining == <<MAX_PAGES + 1 - page, PhasesLeft[pc], PhaseLeft>>

(* No page is asked for twice, no request repeated beyond the budget and   *)
(* no row read again; publishing another table meanwhile buys the          *)
(* publisher no further step (world_bank.py 91-150, http.py 62-89).        *)
ExtractSpends ==
    [][/\ Remaining \in Triples /\ Remaining' \in Triples
       /\ \/ Shrinks(Remaining', Remaining)
          \/ published' # published /\ Remaining' = Remaining]_vars
=============================================================================
