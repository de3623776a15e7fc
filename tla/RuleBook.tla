------------------------------ MODULE RuleBook ------------------------------
(***************************************************************************)
(* What the registry of detection rules and the rule-to-CSV mapping are    *)
(* for: a set of registered rules and a set of <<rule, CSV>> rows that     *)
(* change only by whole operations, each of which touches only the rule it *)
(* is about.                                                               *)
(***************************************************************************)
CONSTANTS Rules, Csvs

VARIABLES
    rules,      \* rules in the registry
    rows        \* rows of the mapping

Row == Rules \X Csvs
RowsOf(r, map) == {x \in map : x[1] = r}

Init == rules \subseteq Rules /\ rows \subseteq Row

\* A name that is neither registered nor mapped is registered.
Register(r) ==
    /\ r \notin rules /\ RowsOf(r, rows) = {}
    /\ rules' = rules \cup {r}
    /\ UNCHANGED rows

\* A new CSV is attached to a rule; a rule with a CSV needs no registration.
Attach(r, c) ==
    /\ rows' = rows \cup {<<r, c>>}
    /\ UNCHANGED rules

Unregister(r) ==
    /\ RowsOf(r, rows) # {}
    /\ rules' = rules \ {r}
    /\ UNCHANGED rows

\* A rule goes with all its CSVs.
Drop(r) ==
    /\ r \in rules \/ RowsOf(r, rows) # {}
    /\ rules' = rules \ {r}
    /\ rows' = rows \ RowsOf(r, rows)

\* A CSV is detached, and its rule goes with its last one.
Detach(r, c) ==
    /\ <<r, c>> \in rows
    /\ rows' = rows \ {<<r, c>>}
    /\ rules' = IF RowsOf(r, rows) = {<<r, c>>} THEN rules \ {r} ELSE rules

\* A rule comes back from the trash with some CSVs: one into a rule that may
\* have others, or a whole rule that is not there.
ComeBack(r, new) ==
    /\ (\E x \in new : new = {x}) \/ RowsOf(r, rows) = {}
    /\ rows' = rows \cup new
    /\ rules' = rules \cup {r}

Next ==
    \E r \in Rules :
        \/ Register(r)
        \/ Unregister(r)
        \/ Drop(r)
        \/ \E c \in Csvs : Attach(r, c) \/ Detach(r, c)
        \/ \E cs \in SUBSET Csvs : ComeBack(r, {r} \X cs)

vars == <<rules, rows>>

Spec == Init /\ [][Next]_vars
=============================================================================
