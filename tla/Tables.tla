------------------------------- MODULE Tables -------------------------------
(***************************************************************************)
(* Tables of the database, and maps in memory, as functions of their keys. *)
(* These operators are what :> and @@ of TLC are, in a form that proofs    *)
(* can expand.                                                             *)
(***************************************************************************)

\* The rows of both, those of the first where both have one.
Over(rows, table) ==
    [k \in DOMAIN rows \cup DOMAIN table |-> IF k \in DOMAIN rows THEN rows[k] ELSE table[k]]

\* The table with the row of a key, new or in place of another.
With(table, key, row) ==
    [k \in {key} \cup DOMAIN table |-> IF k = key THEN row ELSE table[k]]
=============================================================================
