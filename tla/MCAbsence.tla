------------------------------ MODULE MCAbsence ------------------------------
(* Instances of Absence for TLC. *)
EXTENDS Absence, TLC

CONSTANTS v1, s1, k1, k2

CancellationSymmetry == Permutations(Cancellations)

\* Dates 1 and 2 are in month 1, all later ones in month 2.
TwoMonths == [d \in Dates |-> IF d <= 2 THEN 1 ELSE 2]
OneMonth == [d \in Dates |-> 1]

\* Ranges that overlap, within one month and across two, and single dates to cancel.
Ranges == {{1, 2}, {2, 3}}
Singles == {{d} : d \in Dates}

\* A vacation of two weeks of which two days are cancelled.
TwoWeeks == {Dates, {1}}
TwoDays == {{1, 2}}
=============================================================================
