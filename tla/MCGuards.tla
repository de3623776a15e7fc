------------------------------ MODULE MCGuards ------------------------------
(* Guards for TLC: two super-admins, of whom one also changes admin limits. *)
EXTENDS Guards, TLC

CONSTANTS ann, bob

Everyone == [u \in {ann, bob} |-> IF u = ann THEN Ops ELSE Ops \ {"change"}]

Alike == Permutations(Workers)

\* What follows a race on the record is of no interest to properties that exclude
\* it.
NoRace == ~raced
=============================================================================
