------------------------------ MODULE RowDiff ------------------------------
(***************************************************************************)
(* compute_diff: which rows a save adds, removes and edits.                *)
(*                                                                         *)
(* A row has cells, and the name of who added it, which is not compared.   *)
(* Rows have no identity: they are told apart by their cells in the        *)
(* columns C that both contents have, and equal rows by counting.  Rows    *)
(* are named by their position here.                                       *)
(***************************************************************************)
EXTENDS Naturals, Sequences, FiniteSets

CONSTANT MAX_DIFF_ROWS      \* beyond it no edits are looked for

ASSUME DiffAssumption == MAX_DIFF_ROWS \in Nat

Key(row, C) == [c \in C |-> row.cell[c]]
\* How many rows in S have the key k.
Count(rows, S, k, C) == Cardinality({i \in S : Key(rows[i], C) = k})
Times(rows, k, C) == Count(rows, DOMAIN rows, k, C)

\* Of the rows that are in excess, the last are new ...
ComputeAdded(old, new, C) ==
    {i \in DOMAIN new : LET k == Key(new[i], C) IN
        Times(old, k, C) + Count(new, i..Len(new), k, C) <= Times(new, k, C)}

\* ... and the first are gone.
ComputeRemoved(old, new, C) ==
    {i \in DOMAIN old : LET k == Key(old[i], C) IN
        Times(new, k, C) + Count(old, 1..i, k, C) <= Times(old, k, C)}

Overlap(x, y, C) == Cardinality({c \in C : x.cell[c] = y.cell[c]})

\* The n-th position in S.
Nth(S, n) == CHOOSE i \in S : Cardinality({j \in S : j <= i}) = n

\* Faulty: a removed row is paired again.
FaultyPair(j, taken, old, new, removed, C) ==
    LET free == removed
        best == {i \in free : \A x \in free : Overlap(old[x], new[j], C) <= Overlap(old[i], new[j], C)}
    IN IF \E i \in best : 2 * Overlap(old[i], new[j], C) >= Cardinality(C)
       THEN Nth(best, 1) ELSE 0

\* The new row j is an edit of the row that is most like it among those not taken, if half
\* of its fields are the same.
Pair(j, taken, old, new, removed, C) ==
    LET free == removed \ taken
        best == {i \in free : \A x \in free : Overlap(old[x], new[j], C) <= Overlap(old[i], new[j], C)}
    IN IF \E i \in best : 2 * Overlap(old[i], new[j], C) >= Cardinality(C)
       THEN Nth(best, 1) ELSE 0

\* The new rows are taken in their order.
ComputeEdited(old, new, added, removed, C) ==
    IF Cardinality(added) > MAX_DIFF_ROWS \/ Cardinality(removed) > MAX_DIFF_ROWS THEN {}
    ELSE LET pair == CHOOSE f \in [added -> removed \cup {0}] : \A j \in added :
                 f[j] = Pair(j, {f[i] : i \in {x \in added : x < j}}, old, new, removed, C)
         IN {<<pair[j], j>> : j \in {x \in added : pair[x] # 0}}

ComputeDiff(old, new, C) ==
    LET added == ComputeAdded(old, new, C)
        removed == ComputeRemoved(old, new, C)
        edited == ComputeEdited(old, new, added, removed, C)
    IN [added |-> added \ {p[2] : p \in edited},
        removed |-> removed \ {p[1] : p \in edited},
        edited |-> edited]

\* Reference.  The rows that are neither added nor edited are the rows that are neither
\* removed nor edited, as often; no row is both added and removed, or edited into itself,
\* or paired twice.
Reconciles(old, new, C, d) ==
    LET gone == d.removed \cup {p[1] : p \in d.edited}
        come == d.added \cup {p[2] : p \in d.edited}
    IN /\ \A k \in {Key(old[i], C) : i \in DOMAIN old} \cup {Key(new[i], C) : i \in DOMAIN new} :
            Count(old, DOMAIN old \ gone, k, C) = Count(new, DOMAIN new \ come, k, C)
       /\ {Key(old[i], C) : i \in gone} \cap {Key(new[i], C) : i \in come} = {}
       /\ Cardinality(d.removed) + Cardinality(d.edited) = Cardinality(gone)
       /\ Cardinality(d.added) + Cardinality(d.edited) = Cardinality(come)
=============================================================================
