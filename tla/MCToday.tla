------------------------------ MODULE MCToday -------------------------------
(* Instances of Today for TLC: a day has three units, a transition moves one. *)
EXTENDS Today

OrdinaryDay == [scheduled |-> 2, holiday |-> FALSE, reduction |-> 0, credit |-> 0,
                adjustment |-> 0, unresolved |-> FALSE]

DayOff == [OrdinaryDay EXCEPT !.scheduled = 0]

\* An approved half-day absence of either kind, with an applied correction.
AbsentDay == [OrdinaryDay EXCEPT !.reduction = 1, !.adjustment = -1]
CreditedDay == [OrdinaryDay EXCEPT !.credit = 1]

\* A reduction on a date that became a holiday: no calculation.
HolidayOfAbsence == [OrdinaryDay EXCEPT !.holiday = TRUE, !.reduction = 1]
OpenDay == [OrdinaryDay EXCEPT !.unresolved = TRUE]
UnplannedDay == [OrdinaryDay EXCEPT !.scheduled = None]

Same(day) == [date \in 0..2 |-> day]
Dates(first, second, third) ==
    [date \in 0..2 |-> CASE date = 0 -> first [] date = 1 -> second [] date = 2 -> third]

Zone(transition, before, after) ==
    [transition |-> transition, before |-> before, after |-> after]

Calendars ==
    {\* no transition
     [zone |-> Zone(0, 0, 0), facts |-> Dates(AbsentDay, HolidayOfAbsence, OpenDay)],
     [zone |-> Zone(0, 1, 1), facts |-> Dates(CreditedDay, UnplannedDay, DayOff)],
     \* the first midnight is skipped, as in Havana
     [zone |-> Zone(3, 0, 1), facts |-> Same(OrdinaryDay)],
     \* an hour of the second date is skipped, as in Berlin
     [zone |-> Zone(4, 0, 1), facts |-> Same(OrdinaryDay)],
     \* the first hour of the second date comes twice, as in Havana
     [zone |-> Zone(3, 1, 0), facts |-> Same(OrdinaryDay)],
     \* the last hour of the first date comes twice, as in Nuuk
     [zone |-> Zone(2, 1, 0), facts |-> Same(OrdinaryDay)]}
\* What the proofs suppose of the zones holds of these.
ASSUME CalendarsAssumption == MidnightsAreKept
=============================================================================
