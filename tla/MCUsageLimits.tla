--------------------------- MODULE MCUsageLimits ---------------------------
(* UsageLimits for TLC: one analyst, one admin.                             *)
EXTENDS UsageLimits, TLC

CONSTANTS ann, adm, w1, w2

MCDefaultLimits == [limit |-> 1, resets |-> "monthly"]
MCDefaultAdmin  == [limit |-> 1, resets |-> "daily"]
MCChoices       == {[limit |-> 2, resets |-> "monthly"]}
MCAdminChoices  == {[limit |-> 2, resets |-> "daily"], [limit |-> -1, resets |-> "daily"]}
MCAll           == Counting \cup Settling

\* What the theorem on CapKept assumes holds of this instance.
ASSUME CapAssumption == SteadySchedules /\ EveryoneTracked

\* The two requests are alike.
Alike == Permutations(Workers)

\* What follows a race is of no interest to properties that exclude it.
NoRace == ~raced

\* Bound on the failures: what follows the second is not looked at.
FewFaults == Cardinality(failed) + missed[0] + missed[1] <= 1
=============================================================================
