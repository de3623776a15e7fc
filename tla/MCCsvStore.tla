----------------------------- MODULE MCCsvStore -----------------------------
(* CsvStore for TLC: who does what to one CSV.                              *)
EXTENDS CsvStore, TLC

CONSTANTS ann, bob,     \* two analysts
          cam,          \* an admin; also the clean-up, and a writer of another CSV
          p1, p2,       \* two handler processes
          a, b,         \* an edit by each analyst; b leaves the length as it is
          rq, rp, rv,   \* requests by ann: an addition, an edit, a revert
          blank, torn   \* what no row of a whole file is

MCUsers   == Workers
MCKind    == [r \in Requests |-> "edit"]
MCCsv     == [r \in Requests |-> "csv"]
MCRule    == [r \in Requests |-> "rule"]
MCAnalyst == [r \in Requests |-> ann]
MCProcess == [w \in Workers |-> IF w = bob THEN p2 ELSE p1]
MCEditsOf == [w \in Workers |-> IF w = ann THEN {a} ELSE IF w = bob THEN {b} ELSE {}]
MCLength  == [x \in Contents |-> IF x \in Rows THEN 1 + Cardinality(x \ {b})
                                 ELSE IF x = Blank THEN 0 ELSE 9]

MCAction  == [r \in Requests |-> IF r = rv THEN "revert"
                                 ELSE IF r = rp THEN "replace" ELSE "merge"]

MCNone == {}
MCStale == {b}

Roles(x, y, z) == [w \in Workers |-> IF w = ann THEN x ELSE IF w = bob THEN y ELSE z]

MCDoesAll == Roles({"load", "save", "submit"}, {"load", "save", "revert", "keep"},
                   {"process", "cleanup", "other"})
MCDoesSave == Roles({"load", "save"}, {"load", "save"}, {})

\* What follows an overlap is of no interest to properties that exclude it.
NoOverlap == ~overlap

\* Bound on the requests of a behaviour with a fault: one fewer.
FewerRequests == faults = 0 \/ asked < MaxRequests

MCAllFaults == {"crash", "write", "aftermath"}
=============================================================================
