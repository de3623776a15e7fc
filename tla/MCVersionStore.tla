--------------------------- MODULE MCVersionStore ---------------------------
(* VersionStore for TLC.                                                    *)
EXTENDS VersionStore, TLC

\* The two requests are alike.
Alike == Permutations(Workers)

\* What follows a race is of no interest to properties that exclude it.
NoRace == ~raced
=============================================================================
