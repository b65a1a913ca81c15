-------------------------------- MODULE Rows --------------------------------
(***************************************************************************)
(* Tables of the database, as functions from the identifiers of the live   *)
(* rows to the rows (pkg/model, pkg/dao).  Identifiers are UUIDs that the  *)
(* BeforeCreate hooks draw: nobody knows them before the row is there.     *)
(***************************************************************************)
EXTENDS Integers, FiniteSets, Functions

\* A table with a row more.
Adding(rows, id, row) == [i \in DOMAIN rows \cup {id} |-> IF i = id THEN row ELSE rows[i]]

\* An identifier for each of the new rows, which is neither live nor known to
\* a request.
Drawn(rows, known, new) ==
  LET taken == DOMAIN rows \cup known
  IN CHOOSE id \in [new -> 1..Cardinality(taken) + Cardinality(new)] :
       IsInjective(id) /\ \A x \in new : id[x] \notin taken

\* The table with the new rows inserted.
Put(rows, known, new) ==
  LET id == Drawn(rows, known, new)
  IN [i \in DOMAIN rows \cup {id[x] : x \in new} |->
        IF i \in DOMAIN rows THEN rows[i] ELSE CHOOSE x \in new : id[x] = i]

\* The table with rows (softly) deleted.
Dropping(rows, gone) == [i \in DOMAIN rows \ gone |-> rows[i]]

\* What a unique index over all the columns admits.
Unique(rows) == \A i, j \in DOMAIN rows : rows[i] = rows[j] => i = j
=============================================================================
