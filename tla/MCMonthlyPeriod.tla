--------------------------- MODULE MCMonthlyPeriod ---------------------------
(* Instances of MonthlyPeriod for TLC. *)
EXTENDS MonthlyPeriod, TLC

CONSTANTS employee, hr, c1, c2, c3

CorrectionSymmetry == Permutations(Corrections)

\* One month of one date, two months of one date each.
OneDate == (1 :> 1)
TwoMonths == (1 :> 1) @@ (2 :> 2)
=============================================================================
