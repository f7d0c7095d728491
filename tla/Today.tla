------------------------------- MODULE Today --------------------------------
(***************************************************************************)
(* What the Today page is told: the provisional calculation of the current *)
(* local date of the organization, from the punches that matter for it.    *)
(*                                                                         *)
(* A request fixes its instant before its transaction takes a snapshot, so *)
(* that punches may lie between the two.  Instants are minutes: punches    *)
(* and requests round theirs down.  The zone of the organization has at    *)
(* most one transition of its offset.                                      *)
(***************************************************************************)
EXTENDS Integers, FiniteSets, FiniteSetsExt, AttendanceTransition

CONSTANTS
    Day,            \* minutes of an ordinary day
    SourceLimit,    \* TODAY_SOURCE_EVENT_LIMIT
    Scenarios,      \* pairs [zone, facts] to begin with
    MaxTime,        \* bound: the clock reads 0..MaxTime
    MaxEvents,      \* bound: punch events
    MaxDelay        \* bound: from the instant of a punch to its commit

\* What is known of a local date: the minutes of its schedule, whether it is a
\* holiday, the minutes absences take off them or credit, those of applied
\* corrections, and whether a decision is open.
DayFacts == [scheduled : {None} \cup Nat, holiday : BOOLEAN, reduction : Nat, credit : Nat,
             adjustment : Int, unresolved : BOOLEAN]

ASSUME TodayAssumption ==
    /\ Day \in Nat \ {0} /\ SourceLimit \in Nat \ {0}
    /\ MaxTime \in Nat /\ MaxEvents \in Nat /\ MaxDelay \in Nat
    /\ \A s \in Scenarios :
          /\ s.zone \in [transition : Nat, before : Nat, after : Nat]
          /\ \A t \in 0..MaxTime : \A offset \in {s.zone.before, s.zone.after} :
                s.facts[(t + offset) \div Day] \in DayFacts

VARIABLES
    now,
    zone,       \* [transition, before, after]: offsets around the transition
    facts,      \* per local date, what the other modules' records say of it
    head,       \* [state, attendanceRevision]
    events,     \* punch events in the order of their sequence
    request,    \* None or the instant a request has fixed
    answer      \* None or the last answer

vars == <<now, zone, facts, head, events, request, answer>>

Instants == 0..(MaxTime + 2 * Day)

Init ==
    /\ now = 0
    /\ \E s \in Scenarios : zone = s.zone /\ facts = s.facts
    /\ head = [state |-> "OFF_WORK", attendanceRevision |-> 0]
    /\ events = <<>>
    /\ request = None
    /\ answer = None

-----------------------------------------------------------------------------
(* Local time *)

LocalTime(t) == t + IF t < zone.transition THEN zone.before ELSE zone.after

\* localDateAtInstant
LocalDate(t) == LocalTime(t) \div Day

\* startsAt of localDateInstantBounds: the first instant of the date, even when
\* its midnight was skipped.
DayStart(date) == Min({t \in Instants : LocalTime(t) >= date * Day})

\* Variant: a day after this one began.
NextMidnightOfOrdinaryDay(t) == t + Day - (LocalTime(t) % Day)

\* nextLocalMidnight: Temporal's "compatible" choice is the earlier of two
\* instants, and reads a time that was skipped with the offset before the gap.
NextMidnight(t) ==
    LET midnight == (LocalDate(t) + 1) * Day
        possible == {u \in Instants : LocalTime(u) = midnight}
    IN  IF possible # {} THEN Min(possible) ELSE midnight - zone.before

\* No midnight lies strictly between two local times.
NoMidnightBetween(earlier, later) ==
    earlier < later => (later - 1) \div Day <= earlier \div Day

\* A clock that is put forward skips no midnight and one that is put back repeats
\* none, but for the one at which it is put.  (Newfoundland repeated one each year
\* until 2011: there the clock was put back at 00:01.)
MidnightsAreKept ==
    \A s \in Scenarios :
        LET from == s.zone.transition + s.zone.before
            to == s.zone.transition + s.zone.after
        IN  NoMidnightBetween(from, to) /\ NoMidnightBetween(to, from)

-----------------------------------------------------------------------------
(* The events a calculation reads *)

\* From the last CLOCK_IN before the date, or else from the date's beginning, in
\* the order of their sequence: the n-th has n - 1 before it.
SourceEvents(date, asOf) ==
    LET anchors == {i \in DOMAIN events : /\ events[i].type = "CLOCK_IN"
                                          /\ events[i].occurredAt < DayStart(date)}
        rows == {i \in DOMAIN events :
                    /\ IF anchors = {} THEN events[i].occurredAt >= DayStart(date)
                       ELSE events[i].eventSequence >= events[Max(anchors)].eventSequence
                    /\ events[i].occurredAt <= asOf}
    IN  [n \in 1..Cardinality(rows) |->
            events[CHOOSE i \in rows : Cardinality({j \in rows : j < i}) = n - 1]]

\* The newest events only, when there are too many.
NewestSource(source) == SubSeq(source, Max({1, Len(source) - SourceLimit + 1}), Len(source))

-----------------------------------------------------------------------------
(* Intervals and their split at the midnights *)

\* collectIntervals: every event but a CLOCK_OUT opens one; the last one is open
\* and counts until the instant of the calculation.
Intervals(loaded, asOf) ==
    {[nth |-> i, kind |-> StateAfterEvent[loaded[i].type],
      from |-> loaded[i].occurredAt,
      to |-> IF i = Len(loaded) THEN asOf ELSE loaded[i + 1].occurredAt] :
        i \in {j \in DOMAIN loaded : loaded[j].type # "CLOCK_OUT"}}

\* The instants at which the loop of splitAttendanceIntervalAtLocalMidnight
\* begins a segment of an interval that ends at to.
SegmentStarts(interval) ==
    LET from[t \in Instants] ==
            IF NextMidnight(t) \in (t + 1)..(interval.to - 1)
            THEN {t} \cup from[NextMidnight(t)] ELSE {t}
    IN  from[interval.from]

\* ATTENDANCE_INVALID_EVENT_ORDER: the next midnight does not lie ahead.
SplitFails(interval) ==
    /\ interval.from < interval.to
    /\ \E t \in SegmentStarts(interval) : NextMidnight(t) <= t

\* intervalsForDate: a segment belongs to the date it starts on.
Segments(intervals, date) ==
    UNION {{[interval |-> i, from |-> t, to |-> Min({i.to, NextMidnight(t)})] :
                t \in {u \in SegmentStarts(i) : LocalDate(u) = date}} : i \in intervals}

Minutes(segments, kind) ==
    SumFunctionOnSet([s \in segments |-> s.to - s.from],
                     {s \in segments : s.interval.kind = kind})

-----------------------------------------------------------------------------
(* calculateCurrentDayAttendance *)

\* The events explain the state of the head, and none is missing.
SourceComplete(source, loaded) ==
    /\ Reconstructible(loaded, 1)
    /\ ReconstructedState(loaded) = head.state
    /\ Len(source) <= SourceLimit

\* calculateDailyAttendance
Expected(day) == day.scheduled - (IF day.holiday THEN day.scheduled ELSE 0) - day.reduction
Credited(day, worked) == worked + day.credit + day.adjustment

\* remainingExpectedMinutes
Remaining(day, worked) == Max({Expected(day) - Credited(day, worked), 0})

\* Variant: what was worked already is not deducted.
FinishOfWholeExpectation(day, worked, asOf) ==
    IF day.unresolved \/ head.state # "WORKING" \/ Remaining(day, worked) = 0
    THEN None ELSE asOf + Expected(day)

\* estimateFinish: only while working, on a day without open decisions.
EstimatedFinish(day, worked, asOf) ==
    IF day.unresolved \/ head.state # "WORKING" \/ Remaining(day, worked) = 0
    THEN None ELSE asOf + Remaining(day, worked)

\* A date without exactly one schedule, or with more reductions than minutes,
\* has no calculation.
Calculation(asOf) ==
    LET date == LocalDate(asOf)
        day == facts[date]
        source == SourceEvents(date, asOf)
        loaded == NewestSource(source)
        intervals == Intervals(loaded, asOf)
        segments == Segments(intervals, date)
        worked == Minutes(segments, "WORKING")
        available == /\ SourceComplete(source, loaded)
                     /\ \A i \in intervals : ~SplitFails(i)
                     /\ day.scheduled # None
                     /\ Expected(day) >= 0
                     /\ Credited(day, worked) >= 0
    IN  [asOf |-> asOf, date |-> date, available |-> available,
         attendanceRevision |-> head.attendanceRevision, stored |-> Len(events),
         worked |-> IF available THEN worked ELSE None,
         breaks |-> IF available THEN Minutes(segments, "ON_BREAK") ELSE None,
         difference |-> IF available THEN Credited(day, worked) - Expected(day) ELSE None,
         finish |-> IF available THEN EstimatedFinish(day, worked, asOf) ELSE None]

-----------------------------------------------------------------------------
(* Actions *)

Tick ==
    /\ now < MaxTime
    /\ now' = now + 1
    /\ UNCHANGED <<zone, facts, head, events, request, answer>>

\* The commit of an accepted attendance command (Attendance.tla), whose instant
\* was read before and is not earlier than that of the latest event.
Punch(command) ==
    LET types == EventTypesOf(head.state, command)
    IN  /\ TransitionAllowed(head.state, command, TRUE)
        /\ Len(events) + Len(types) <= MaxEvents
        /\ \E t \in {u \in 0..now : now - u <= MaxDelay} :
              /\ \A i \in DOMAIN events : events[i].occurredAt <= t
              /\ events' = events \o [i \in DOMAIN types |->
                     [eventSequence |-> Len(events) + i, type |-> types[i], occurredAt |-> t]]
        /\ head' = [state |-> StateAfterCommand[command],
                    attendanceRevision |-> head.attendanceRevision + 1]
        /\ UNCHANGED <<now, zone, facts, request, answer>>

\* getToday is called with the instant of the request.
CallToday ==
    /\ request = None
    /\ request' = now
    /\ UNCHANGED <<now, zone, facts, head, events, answer>>

\* loadTodayAttendanceForEmployee, on the snapshot of its transaction.
GetToday ==
    /\ request # None
    /\ answer' = Calculation(request)
    /\ request' = None
    /\ UNCHANGED <<now, zone, facts, head, events>>

Next == Tick \/ (\E command \in AttendanceCommands : Punch(command)) \/ CallToday \/ GetToday

Spec == Init /\ [][Next]_vars

-----------------------------------------------------------------------------
(* Properties *)

\* What the first n events say of the minute that begins at t.
StateDuring(t, n) ==
    LET before == {i \in 1..n : events[i].occurredAt <= t}
    IN  IF before = {} THEN "OFF_WORK" ELSE StateAfterEvent[events[Max(before)].type]

\* The minutes of the answer's date before its instant that were spent in a
\* state, by all that was stored when it was computed.
MinutesSpent(state) ==
    Cardinality({t \in Instants : /\ t < answer.asOf
                                  /\ LocalDate(t) = answer.date
                                  /\ StateDuring(t, answer.stored) = state})

\* Invariant: an answer with a calculation counts every minute of its local date
\* that was worked before its instant, and no other, and so for breaks: although
\* only events from an anchor on are read, more may be stored after the instant
\* was fixed, intervals cross midnights, and dates are shorter or longer
\* than a day (loadSource, splitAttendanceIntervalAtLocalMidnight,
\* calculateCurrentDayAttendance).
AnswersCountTheDate ==
    answer # None /\ answer.available =>
        /\ answer.worked = MinutesSpent("WORKING")
        /\ answer.breaks = MinutesSpent("ON_BREAK")

\* Action property: as long as nothing is punched on the same date, the finish
\* told to a working employee stays the same, and goes away only once it is
\* reached (estimateFinish).  An answer that a punch overtook does not count.
EstimatedFinishStands ==
    [][ /\ answer # None /\ answer' # answer
        /\ answer.finish # None
        /\ answer'.date = answer.date
        /\ answer'.attendanceRevision = answer.attendanceRevision
        /\ \A i \in DOMAIN events : events[i].occurredAt <= answer.asOf
        => \/ answer'.finish = answer.finish
           \/ answer'.finish = None /\ answer'.asOf >= answer.finish ]_vars
=============================================================================
