---------------------------- MODULE MCRuleStore ----------------------------
(* RuleStore for TLC: two rules, two CSVs.                                  *)
EXTENDS RuleStore, TLC

CONSTANTS ann, bob,     \* two requests at a time
          r1, r2, c1, c2,
          torn          \* in no registry that can be read

\* r1 has one CSV; r2, with c2, has been deleted.
MCMapped     == {<<r1, c1>>}
MCRegistered == {}
MCLive       == [c \in Csvs |-> IF c = c1 THEN 1 ELSE 0]
MCTrashed    == <<[there |-> TRUE, meta |-> TRUE, kind |-> "rule", name |-> r2,
                   rows |-> {<<r2, c2>>},
                   files |-> [c \in Csvs |-> IF c = c2 THEN 2 ELSE 0]]>>
MCDoesAll    == [w \in Workers |-> Ops]

\* The two requests are alike.
Alike == Permutations(Workers)

\* What follows a race is of no interest to properties that exclude it.
NoRace == ~raced
=============================================================================
