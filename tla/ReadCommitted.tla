--------------------------- MODULE ReadCommitted ---------------------------
(***************************************************************************)
(* What the services rely on PostgreSQL for, at its default isolation      *)
(* level READ COMMITTED (pos.service.ts:181-185 names it).  A row is a     *)
(* cell: the committed version, the version of the transaction that has    *)
(* written it, and that transaction, which holds the row lock until it     *)
(* ends.  A client is in at most one transaction at a time.                *)
(*                                                                         *)
(*  - A SELECT sees, of each row, the client's own version or the          *)
(*    committed one; each statement looks afresh.                          *)
(*  - An UPDATE ... WHERE matches against what it sees: a row that does    *)
(*    not match is skipped at once; a row that matches but is locked by    *)
(*    another transaction is waited for, and matched again afterwards.     *)
(*  - A transaction publishes all its versions or none.                    *)
(***************************************************************************)
CONSTANTS Clients, Nobody

ASSUME NobodyAssumption == Nobody \notin Clients

Cell(row)   == [com |-> row, live |-> row, by |-> Nobody]
Cells(Rows) == [com : Rows, live : Rows, by : Clients \cup {Nobody}]

See(c, p)          == IF c.by = p THEN c.live ELSE c.com
Free(c, p)         == c.by \in {Nobody, p}
Written(c, p, row) == [c EXCEPT !.live = row, !.by = p]

\* The committed state of a table.
Snapshot(table) == [k \in DOMAIN table |-> table[k].com]

Committed(table, p) ==
    [k \in DOMAIN table |-> IF table[k].by = p THEN Cell(table[k].live) ELSE table[k]]
RolledBack(table, p) ==
    [k \in DOMAIN table |-> IF table[k].by = p THEN Cell(table[k].com) ELSE table[k]]
=============================================================================
