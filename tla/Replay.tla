------------------------------- MODULE Replay -------------------------------
(***************************************************************************)
(* The approval of a request that changes a CSV: the change that was asked *)
(* for, on the rows its author saw, is made to the rows there are now.     *)
(*                                                                         *)
(* The queue and its lock are ApprovalQueue's, the file and its lock       *)
(* CsvStore's; here it is about rows and columns.  A request names rows by *)
(* their contents.  Approving it reads the CSV, works out the contents to  *)
(* save, and saves them as an ordinary save that skips the checks of the   *)
(* author's token, but not those of its contents: that save may refuse     *)
(* them, and not every refusal is taken for one.  While the request is     *)
(* pending only the removal of expired rows changes the CSV, also between  *)
(* that read and the save.                                                 *)
(* Every CSV has the metadata columns here, as all have that the app has   *)
(* saved once; so it may lose all others.                                  *)
(***************************************************************************)
EXTENDS RowDiff, Integers

CONSTANTS
    Columns,        \* those a user sees
    Values, Blank,  \* of a cell; Blank is also what a missing cell reads as
    ExpireColumn, Past,     \* a date in it that passes while a request is pending
    Authors,        \* the names of who adds rows, or none
    analyst,        \* the author of the request
    Tables,         \* what the CSV may hold
    Loaded,         \* what it held when the author loaded it
    Imports,        \* contents of an imported file
    MAX_ROWS,
    Unfit,          \* what saves refuse is one of these
    MaxNew,         \* bound on the rows an addition has
    MaxRequests,    \* bound on the requests
    MaxFaults       \* bound on the failures of a lock or a write

Rows == [cell : [Columns -> Values], by : Authors]

\* The cells a row can have in these columns.
Cells(C) == {f \in [Columns -> Values] : \A c \in Columns \ C : f[c] = Blank}

\* Rows have no cells outside the columns of their table.
IsTable(t) ==
    /\ t \in [cols : SUBSET Columns, rows : Seq(Rows)]
    /\ \A i \in DOMAIN t.rows : t.rows[i].cell \in Cells(t.cols)

ASSUME ReplayAssumption ==
    /\ {Blank, Past} \subseteq Values /\ Blank # Past /\ IsFiniteSet(Columns)
    /\ {Blank, analyst} \subseteq Authors
    /\ \A t \in Tables \cup Loaded \cup Imports : IsTable(t)
    /\ \A t \in Tables : Len(t.rows) <= MAX_ROWS
    /\ {MAX_ROWS, MaxNew, MaxRequests, MaxFaults} \subseteq Nat
    /\ Unfit \subseteq [cols : SUBSET SUBSET Columns, names : SUBSET Columns, dates : SUBSET Values,
                        odd : SUBSET (Columns \X Values), long : SUBSET (Columns \X Values)]

VARIABLES
    csv,        \* columns and rows
    request,    \* pending, or that was
    outcome,    \* of the request
    base,       \* the CSV as the approval has read it
    plan,       \* the columns and rows it is to save
    charged,    \* what the save has added to the author's usage counters
    unfit,      \* too many columns or a reserved name, names ill-formed, dates that are none,
                \* cells not in ASCII, cells too long; it never changes
    asked, faults

vars == <<csv, request, outcome, base, plan, charged, unfit, asked, faults>>

Actions == {"bulk_row_removal", "column_removal", "bulk_row_addition",
            "csv_import_replace", "bulk_row_edit", "inline"}
Limits == {"row_removal", "bulk_row_removal", "column_removal", "row_edit",
           "bulk_row_edit", "row_addition", "column_addition"}

Init ==
    /\ csv \in Tables /\ base = csv /\ plan = csv
    /\ request = [action |-> "none"] /\ outcome = "none"
    /\ charged = [x \in Limits |-> 0] /\ unfit \in Unfit /\ asked = 0 /\ faults = 0

\* The rows at the positions in S, in their order.
At(rows, S) == [n \in 1..Cardinality(S) |-> rows[Nth(S, n)]]
Keys(rows, S, C) == LET picked == At(rows, S) IN [i \in DOMAIN picked |-> Key(picked[i], C)]
Named(r, k) == Cardinality({i \in DOMAIN r.keys : r.keys[i] = k})

----------------------------------------------------------------------------
(* Submissions; v is what the author's browser holds.                      *)

Submit(r) ==
    /\ asked < MaxRequests /\ asked' = asked + 1
    /\ outcome \notin {"pending", "approving"} /\ outcome' = "pending"
    /\ request' = r
    /\ UNCHANGED <<csv, base, plan, charged, unfit, faults>>

SubmitRemoval(v, S) ==
    Submit([cols |-> v.cols, action |-> "bulk_row_removal", keys |-> Keys(v.rows, S, v.cols)])

\* Some of the selected rows do not have the value yet.
SubmitBulkEdit(v, S, c, x) ==
    /\ \E i \in S : v.rows[i].cell[c] # x
    /\ Submit([cols |-> v.cols, action |-> "bulk_row_edit", keys |-> Keys(v.rows, S, v.cols),
               col |-> c, val |-> x])

\* Cells edited in several rows; the request has all rows.
SubmitInline(v, new) ==
    LET changed == {i \in DOMAIN v.rows : new[i] # v.rows[i].cell} IN
    /\ Cardinality(changed) >= 2
    /\ Submit([cols |-> v.cols,
               rows |-> [i \in DOMAIN v.rows |-> [v.rows[i] EXCEPT !.cell = new[i]]],
               action |-> "inline", count |-> Cardinality(changed)])

\* New rows, in columns some of which may be new, come after all others.
SubmitAddition(v, C, new) ==
    LET rows == v.rows \o [i \in DOMAIN new |-> [cell |-> new[i], by |-> Blank]]
    IN Submit([cols |-> C, rows |-> rows, action |-> "bulk_row_addition",
               keys |-> Keys(rows, Len(v.rows) + 1..Len(rows), C)])

SubmitColumn(v, c) == Submit([action |-> "column_removal", col |-> c])

SubmitImport(t) == Submit([cols |-> t.cols, rows |-> t.rows, action |-> "csv_import_replace"])

Ask ==
    \/ \E v \in Loaded :
        \/ \E S \in (SUBSET DOMAIN v.rows) \ {{}} :
            \/ SubmitRemoval(v, S)
            \/ \E c \in v.cols, x \in Values : SubmitBulkEdit(v, S, c, x)
        \/ \E new \in [DOMAIN v.rows -> Cells(v.cols)] : SubmitInline(v, new)
        \/ \E C \in SUBSET Columns, n \in 1..MaxNew :
            /\ v.cols \subseteq C
            /\ \E new \in [1..n -> Cells(C)] : SubmitAddition(v, C, new)
        \/ \E c \in v.cols : SubmitColumn(v, c)
    \/ \E t \in Imports : SubmitImport(t)

----------------------------------------------------------------------------
(* Approvals.                                                              *)

\* Faulty: a set of keys, where equal rows are one.
FaultyMatches(t, r) == {i \in DOMAIN t.rows : Named(r, Key(t.rows[i], r.cols)) > 0}

\* Faulty: off by one, the last of equal rows is not taken.
FaultyShort(t, r) ==
    {i \in DOMAIN t.rows : LET k == Key(t.rows[i], r.cols)
                           IN Count(t.rows, 1..i, k, r.cols) < Named(r, k)}

\* The rows of t that the request names: the first of each kind, as many as it names.
Matches(t, r) ==
    {i \in DOMAIN t.rows : LET k == Key(t.rows[i], r.cols)
                           IN Count(t.rows, 1..i, k, r.cols) <= Named(r, k)}

\* The rows of the request that it names as new: the last of each kind.
NewRows(r) ==
    At(r.rows, {i \in DOMAIN r.rows : LET k == Key(r.rows[i], r.cols)
                                      IN Count(r.rows, i..Len(r.rows), k, r.cols) <= Named(r, k)})

\* The CSV has changed in such a way that the request cannot be carried out.
Refused(t, r) ==
    CASE r.action \in {"bulk_row_removal", "bulk_row_edit"} ->
            \/ Cardinality(Matches(t, r)) < Len(r.keys)
            \/ r.action = "bulk_row_edit" /\ r.col \notin t.cols
      [] r.action = "column_removal" -> r.col \notin t.cols
      [] r.action = "bulk_row_addition" ->
            \E i \in DOMAIN NewRows(r) : Times(t.rows, Key(NewRows(r)[i], r.cols), r.cols) > 0
      [] OTHER -> FALSE

\* The contents to save.
Rebuilt(t, r) ==
    CASE r.action = "bulk_row_removal" ->
            [t EXCEPT !.rows = At(@, DOMAIN @ \ Matches(t, r))]
      [] r.action = "bulk_row_edit" ->
            [t EXCEPT !.rows = [i \in DOMAIN @ |-> IF i \in Matches(t, r)
                                                   THEN [@[i] EXCEPT !.cell[r.col] = r.val] ELSE @[i]]]
      [] r.action = "column_removal" -> [t EXCEPT !.cols = @ \ {r.col}]
      [] r.action = "bulk_row_addition" ->
            [cols |-> t.cols \cup r.cols, rows |-> t.rows \o NewRows(r)]
      [] OTHER -> [cols |-> r.cols, rows |-> r.rows]

\* _process_approval_inner up to the call of _save_csv.
Approve ==
    /\ outcome = "pending"
    /\ base' = csv
    /\ IF Refused(csv, request)
       THEN outcome' = "failed" /\ plan' = plan
       ELSE outcome' = "approving" /\ plan' = Rebuilt(csv, request)
    /\ UNCHANGED <<csv, request, charged, unfit, asked, faults>>

Diff == ComputeDiff(csv.rows, plan.rows, csv.cols \cap plan.cols)
Changes(d) == csv.cols # plan.cols \/ d.added # {} \/ d.removed # {} \/ d.edited # {}

\* What a file with these columns gives back for a row.
Stored(row, C) == [row EXCEPT !.cell = [c \in Columns |-> IF c \in C THEN row.cell[c] ELSE Blank]]

\* Faulty: the cells of a removed column stay.
FaultyWritten(d) == [plan EXCEPT !.rows = [i \in DOMAIN @ |->
    IF i \in d.added THEN [@[i] EXCEPT !.by = analyst] ELSE @[i]]]

\* Added rows are stamped with the author's name.
Written(d) == [plan EXCEPT !.rows = [i \in DOMAIN @ |-> Stored(
    IF i \in d.added THEN [@[i] EXCEPT !.by = analyst] ELSE @[i], plan.cols)]]

\* The counters a save adds to, by what its payload says and what its diff shows.
Counted(r, d) ==
    LET removal == IF r.action # "bulk_row_removal" THEN "none"
                   ELSE IF Len(r.keys) >= 2 THEN "bulk_row_removal" ELSE "row_removal"
        edits == Cardinality(d.edited)
        edit == IF edits >= 2 THEN "bulk_row_edit"
                ELSE IF csv.cols = plan.cols THEN "row_edit" ELSE "none"
    IN [x \in Limits |->
         CASE x = removal -> Cardinality(d.removed)
           [] x = "column_removal" /\ r.action = x -> 1
           [] x = edit -> edits
           [] x = "row_addition" -> Cardinality(d.added)
           [] x = "column_addition" -> Cardinality(plan.cols \ csv.cols)
           [] OTHER -> 0]

\* Faulty: the additions stay counted.
FaultyCorrected(r, d) ==
    IF r.action = "inline" /\ d.added # {}
    THEN [Counted(r, d) EXCEPT !["bulk_row_edit"] = @ - Cardinality(d.edited) + r.count]
    ELSE Counted(r, d)

\* After inline edits, what the diff took for additions counts as the edits submitted.
Corrected(r, d) ==
    IF r.action = "inline" /\ d.added # {}
    THEN [Counted(r, d) EXCEPT !["row_addition"] = @ - Cardinality(d.added),
                               !["bulk_row_edit"] = @ - Cardinality(d.edited) + r.count]
    ELSE Counted(r, d)

Odd(t) == \E i \in DOMAIN t.rows, c \in t.cols : <<c, t.rows[i].cell[c]>> \in unfit.odd
Long(t) == \E i \in DOMAIN t.rows, c \in t.cols : <<c, t.rows[i].cell[c]>> \in unfit.long
Undated(t) == ExpireColumn \in t.cols /\ \E i \in DOMAIN t.rows : t.rows[i].cell[ExpireColumn] \in unfit.dates

\* With what status a save refuses contents; of odd and long cells the first one decides.
Refusals(t) ==
    IF Len(t.rows) > MAX_ROWS \/ t.cols \in unfit.cols THEN {400}
    ELSE IF Odd(t) \/ Long(t) THEN {s \in {200, 400} : IF s = 200 THEN Odd(t) ELSE Long(t)}
    ELSE IF Undated(t) \/ t.cols \cap unfit.names # {} THEN {400}
    ELSE {}

\* _save_csv with _from_approval, and what follows it: of an inline request the error that
\* a save answers is looked at, of all others only its status.
Save ==
    /\ outcome = "approving"
    /\ IF Refusals(plan) # {}
       THEN /\ \E status \in Refusals(plan) :
                outcome' = IF status >= 400 \/ request.action = "inline" THEN "failed" ELSE "approved"
            /\ csv' = csv /\ charged' = [x \in Limits |-> 0]
       ELSE /\ outcome' = "approved"
            /\ LET d == Diff IN
               IF Changes(d) THEN csv' = Written(d) /\ charged' = Corrected(request, d)
               ELSE csv' = csv /\ charged' = [x \in Limits |-> 0]
    /\ UNCHANGED <<request, base, plan, unfit, asked, faults>>

\* The file cannot be written, and the request fails; or its lock cannot be had in time,
\* and the request stays pending.
SaveFails ==
    /\ outcome = "approving" /\ faults < MaxFaults /\ faults' = faults + 1
    /\ outcome' \in {"failed", "pending"}
    /\ UNCHANGED <<csv, request, base, plan, charged, unfit, asked>>

\* Rejection, withdrawal, expiry of the request.
Drop ==
    /\ outcome = "pending" /\ outcome' = "dropped"
    /\ UNCHANGED <<csv, request, base, plan, charged, unfit, asked, faults>>

\* A load or the clean-up removes the rows whose date has passed.
Expire ==
    LET past == {i \in DOMAIN csv.rows : csv.rows[i].cell[ExpireColumn] = Past} IN
    /\ outcome \in {"pending", "approving"} /\ past # {}
    /\ csv' = [csv EXCEPT !.rows = At(@, DOMAIN @ \ past)]
    /\ UNCHANGED <<request, outcome, base, plan, charged, unfit, asked, faults>>

Next == Ask \/ Approve \/ Save \/ SaveFails \/ Drop \/ Expire

Spec == Init /\ [][Next]_vars

----------------------------------------------------------------------------
\* The CSV is a table that is not too long, and counters are numbers.
TypeOK ==
    /\ IsTable(csv) /\ plan \in [cols : SUBSET Columns, rows : Seq(Rows)]
    /\ Len(csv.rows) <= MAX_ROWS
    /\ outcome \in {"none", "pending", "approving", "approved", "failed", "dropped"}
    /\ charged \in [Limits -> Int] /\ faults \in Nat

\* What a save records as added, removed and edited accounts for the difference between
\* the file and what replaces it, with duplicates, and whatever has happened to the file
\* since the contents to save were worked out (compute_diff, its audit events and counts).
DiffReconciles ==
    outcome = "approving" =>
        Reconciles(csv.rows, plan.rows, csv.cols \cap plan.cols, Diff)

Saved == outcome = "approving" /\ outcome' = "approved"

\* S are the rows of b that the request names, each as often as it names it.
Names(r, b, S) ==
    /\ Cardinality(S) = Len(r.keys)
    /\ \A i \in S : Count(b.rows, S, Key(b.rows[i], r.cols), r.cols) = Named(r, Key(b.rows[i], r.cols))

\* A row with one cell changed is seen to be an edit only if it has other cells, and there
\* are not too many.
Comparable(r, b) == Cardinality(b.cols) > 1 /\ Len(r.keys) <= MAX_DIFF_ROWS

Bag(rows, C) == [k \in {Key(rows[i], C) : i \in DOMAIN rows} |-> Times(rows, k, C)]

\* What the request r asks to make of the contents b.
Asked(r, b, t) ==
    CASE r.action = "bulk_row_removal" ->
            \E S \in SUBSET DOMAIN b.rows :
                Names(r, b, S) /\ t = [b EXCEPT !.rows = At(@, DOMAIN @ \ S)]
      [] r.action = "bulk_row_edit" ->
            \E S \in SUBSET DOMAIN b.rows :
                /\ Names(r, b, S)
                /\ t.cols = b.cols /\ Len(t.rows) = Len(b.rows)
                /\ \A i \in DOMAIN b.rows :
                    /\ t.rows[i].cell = IF i \in S THEN [b.rows[i].cell EXCEPT ![r.col] = r.val]
                                        ELSE b.rows[i].cell
                    /\ Comparable(r, b) => t.rows[i].by = b.rows[i].by
      [] r.action = "column_removal" ->
            /\ t.cols = b.cols \ {r.col}
            /\ t.rows = [i \in DOMAIN b.rows |-> Stored(b.rows[i], t.cols)]
      [] r.action = "bulk_row_addition" ->
            /\ t.cols = b.cols \cup r.cols
            /\ t.rows = b.rows \o [i \in DOMAIN r.keys |-> Stored(
                  [cell |-> [c \in Columns |-> IF c \in r.cols THEN r.keys[i][c] ELSE Blank],
                   by |-> analyst], t.cols)]
      [] OTHER -> t.cols = r.cols /\ Bag(t.rows, r.cols) = Bag(r.rows, r.cols)

\* The save has refused cells that are not in ASCII with an answer that says so, but has
\* the status of success.
Unnoticed == Odd(plan) /\ request.action # "inline" /\ csv' = csv

\* An approved request changes what its author asked to have changed and nothing else,
\* however the CSV has changed since, in the rows, their order, the columns and the names
\* of who added the rows: rows it names are removed or edited as often as it names them,
\* and what it adds comes last under its author's name.  Except that it changes nothing
\* at all where a cell of the contents to save is not in ASCII.  (When the CSV changes
\* between read and save, what is restored is no part of the request.)
ReplayedAsAsked == [][Saved /\ csv = base => Asked(request, base, csv') \/ Unnoticed]_vars

\* A request fails only if the rows it names are not there as often as it names them, or
\* its column is gone, or what it adds is there already; or a save cannot take the contents
\* (too many rows or columns, a bad name, a cell too long, no date where one is due, and,
\* for inline edits only, a cell not in ASCII); or the file cannot be written.  And then
\* the CSV is left as it is, never changed in part.
FailsForCause ==
    [][outcome # "failed" /\ outcome' = "failed" =>
         /\ csv' = csv
         /\ \/ faults' > faults
            \/ /\ outcome = "approving"
               /\ \/ Len(plan.rows) > MAX_ROWS \/ plan.cols \in unfit.cols
                  \/ Long(plan) \/ Undated(plan) \/ plan.cols \cap unfit.names # {}
                  \/ request.action = "inline" /\ Odd(plan)
            \/ request.action = "bulk_row_addition" /\ \E i \in DOMAIN csv.rows :
                   Named(request, Key(csv.rows[i], request.cols)) > 0
            \/ request.action \in {"bulk_row_edit", "column_removal"} /\ request.col \notin csv.cols
            \/ /\ request.action \in {"bulk_row_removal", "bulk_row_edit"}
               /\ ~\E S \in SUBSET DOMAIN csv.rows : Names(request, csv, S)]_vars

Edits == charged["row_edit"] + charged["bulk_row_edit"]
Removals == charged["row_removal"] + charged["bulk_row_removal"]

\* The author's counters are charged with what was asked, although they are computed from
\* the difference of two files: every row of a removal or an addition once, at most the
\* rows a bulk edit names, and all inline edits where some were taken for additions,
\* never one edit as an addition too; and with nothing if nothing was saved.  What is not
\* so is left out: bulk edits that are not Comparable, and inline edits of which all but
\* one were taken for additions.
ChargedAsAsked ==
    [][Saved /\ csv = base =>
         IF Unnoticed THEN charged' = [x \in Limits |-> 0] ELSE
         CASE request.action = "bulk_row_removal" ->
                Removals' = Len(request.keys) /\ Edits' = 0 /\ charged["row_addition"]' = 0
           [] request.action = "bulk_row_addition" ->
                charged["row_addition"]' = Len(request.keys) /\ Edits' = 0 /\ Removals' = 0
           [] request.action = "bulk_row_edit" /\ Comparable(request, csv) ->
                Edits' <= Len(request.keys) /\ charged["row_addition"]' = 0 /\ Removals' = 0
           [] request.action = "inline" /\ Diff.added # {} /\ Cardinality(Diff.edited) # 1 ->
                Edits' = request.count /\ charged["row_addition"]' = 0 /\ Removals' = 0
           [] OTHER -> TRUE]_vars
=============================================================================
