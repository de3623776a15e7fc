----------------------------- MODULE MCReplay -----------------------------
(* Replay for TLC: two columns, two values, two or three rows.              *)
EXTENDS Replay, TLC

CONSTANTS a, b, blank, x, p, q, ann

\* Rows have names of their own, so that none can stand for another.
MCRow(n, cell) == [cell |-> cell, by |-> IF n = 1 THEN p ELSE q]
MCTable(C, cells) == [cols |-> C, rows |-> [n \in DOMAIN cells |-> MCRow(n, cells[n])]]

\* All contents of two rows, in one and in two columns; of three, with the first two equal;
\* and none.  The author has loaded two rows, or three of which two or all are equal.
MCOf(C, n) == {MCTable(C, cells) : cells \in [1..n -> Cells(C)]}
MCThree == {t \in MCOf({a, b}, 3) : t.rows[1].cell = t.rows[2].cell}
MCTwo == MCOf({a}, 2) \cup MCOf({a, b}, 2)
MCTables == MCTwo \cup MCThree \cup MCOf({a, b}, 0)
MCLoaded == {t \in MCTwo : t.rows[1].cell[a] = blank} \cup {t \in MCThree : \A f \in {t.rows[1].cell, t.rows[3].cell} :
                                         f[a] = blank /\ t.rows[1].cell[b] = blank}
MCFit == [cols |-> {}, names |-> {}, dates |-> {}, odd |-> {}, long |-> {}]
\* All is fit; or a value in one column is not in ASCII; or it is too long, and there may
\* not be two columns.
MCUnfit == {MCFit, [MCFit EXCEPT !.odd = {<<a, x>>}],
            [MCFit EXCEPT !.long = {<<a, x>>}, !.cols = {{a, b}}]}
MCImports == MCOf({a, b}, 2) \cup MCOf({b}, 2)
=============================================================================
