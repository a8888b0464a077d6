------------------------------- MODULE Loader -------------------------------
(***************************************************************************)
(* The observations table of one source and the upsert that writes it      *)
(* (pipeline/loader.py, db/migrations/001_initial_schema.sql).             *)
(*                                                                         *)
(* A natural key inside one source is a Fact (country, year, indicator);   *)
(* the rows of an extraction arrive as a sequence of [fact, value] pairs   *)
(* in the order the extractor produced them, duplicates included: nothing  *)
(* in the code removes them.                                               *)
(***************************************************************************)
EXTENDS Integers, Sequences, FiniteSets

CONSTANTS
    Facts,      \* natural keys within one source
    Values,     \* figures a row can carry
    Refused,    \* the figures the CHECK constraints refuse
    NoRow       \* the cell of a fact that has no row

ASSUME RefusedAssumption == Refused \subseteq Values

(* A stored row; the two timestamps are the ordinal of the BEGIN that      *)
(* wrote them (now() is the start of the transaction).                     *)
Row == [value : Values \ Refused, firstSeen : Nat, updatedAt : Nat]

ASSUME NoRowAssumption == NoRow \notin Row /\ NoRow \notin Values

Cell == Row \cup {NoRow}

(* What one table holds, and what a reader of its value column sees.       *)
Table == [Facts -> Cell]
EmptyTable == [f \in Facts |-> NoRow]
Figures(table) == [f \in Facts |-> IF table[f] = NoRow THEN NoRow
                                                       ELSE table[f].value]

IncomingRow == [fact : Facts, value : Values]

-----------------------------------------------------------------------------
(* INSERT ... ON CONFLICT (natural key) DO UPDATE SET value, updated_at    *)
(* WHERE observations.value IS DISTINCT FROM EXCLUDED.value.               *)

Moves(cell, value) == cell = NoRow \/ cell.value # value

(* Faulty: no WHERE, every conflict stamps the row.                        *)
UpsertStampsAll(cell, value, stamp) ==
    [value |-> value, updatedAt |-> stamp,
     firstSeen |-> IF cell = NoRow THEN stamp ELSE cell.firstSeen]

Upsert(cell, value, stamp) ==
    IF cell = NoRow
      THEN [value |-> value, firstSeen |-> stamp, updatedAt |-> stamp]
      ELSE IF cell.value # value
             THEN [cell EXCEPT !.value = value, !.updatedAt = stamp]
             ELSE cell

-----------------------------------------------------------------------------
(* What landing a whole extraction means: every fact it covers holds the   *)
(* figure of the last row for that fact, and no other fact changes.        *)

Covered(rows) == {rows[i].fact : i \in DOMAIN rows}

IsLastFor(rows, i, f) ==
    /\ i \in DOMAIN rows
    /\ rows[i].fact = f
    /\ \A j \in DOMAIN rows : j > i => rows[j].fact # f

LastFor(rows, f) == CHOOSE i \in DOMAIN rows : IsLastFor(rows, i, f)

Overlay(figures, rows) ==
    [f \in Facts |-> IF f \in Covered(rows) THEN rows[LastFor(rows, f)].value
                                            ELSE figures[f]]

(* An extraction that gives no fact two different figures.                 *)
Unambiguous(rows) ==
    \A i, j \in DOMAIN rows :
        rows[i].fact = rows[j].fact => rows[i].value = rows[j].value
=============================================================================
