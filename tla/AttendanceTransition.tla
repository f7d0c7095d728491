------------------------ MODULE AttendanceTransition ------------------------
(***************************************************************************)
(* The pure attendance rules of packages/domain: which punch command is    *)
(* legal in which state, the punch events it appends, and what a stored    *)
(* event sequence must look like to be reconstructed.                      *)
(***************************************************************************)
EXTENDS Naturals, Sequences

CONSTANT None  \* absence of a row, lock owner, answer or value

AttendanceStates == {"OFF_WORK", "WORKING", "ON_BREAK"}
AttendanceCommands == {"CLOCK_IN", "START_BREAK", "RESUME", "CLOCK_OUT"}
PunchEventTypes == {"CLOCK_IN", "BREAK_START", "BREAK_END", "CLOCK_OUT"}

\* The cells of attendanceTransitionTable that hold event types.
AcceptedCommands ==
    [OFF_WORK |-> {"CLOCK_IN"},
     WORKING  |-> {"START_BREAK", "CLOCK_OUT"},
     ON_BREAK |-> {"RESUME", "CLOCK_OUT"}]

\* The cell's nextState: it depends on the command alone.
StateAfterCommand ==
    [CLOCK_IN |-> "WORKING", START_BREAK |-> "ON_BREAK",
     RESUME |-> "WORKING", CLOCK_OUT |-> "OFF_WORK"]

\* The cell's eventTypes: clocking out of a break also ends the break.
EventOfCommand ==
    [CLOCK_IN |-> "CLOCK_IN", START_BREAK |-> "BREAK_START",
     RESUME |-> "BREAK_END", CLOCK_OUT |-> "CLOCK_OUT"]

EventTypesOf(state, command) ==
    IF state = "ON_BREAK" /\ command = "CLOCK_OUT"
    THEN <<"BREAK_END", "CLOCK_OUT">>
    ELSE <<EventOfCommand[command]>>

\* The error code of a cell without event types.
RejectionCode(state) ==
    [CLOCK_IN    |-> "ATTENDANCE_ALREADY_WORKING",
     CLOCK_OUT   |-> "ATTENDANCE_ALREADY_OFF_WORK",
     RESUME      |-> "ATTENDANCE_NOT_ON_BREAK",
     START_BREAK |-> IF state = "OFF_WORK" THEN "ATTENDANCE_NOT_WORKING"
                                           ELSE "ATTENDANCE_ALREADY_ON_BREAK"]

ConfirmationMissing(state, command, confirmed) ==
    state = "ON_BREAK" /\ command = "CLOCK_OUT" /\ ~confirmed

\* validateAttendanceTransition succeeds.
TransitionAllowed(state, command, confirmed) ==
    /\ command \in AcceptedCommands[state]
    /\ ~ConfirmationMissing(state, command, confirmed)

\* The code validateAttendanceTransition fails with.
TransitionError(state, command) ==
    IF command \in AcceptedCommands[state]
    THEN "ATTENDANCE_BREAK_CONFIRMATION_REQUIRED"
    ELSE RejectionCode(state)[command]

-----------------------------------------------------------------------------
(* reconstructAttendance: the automaton over stored events.  The state      *)
(* reached depends on the last event only, so no recursion is needed.       *)

StateAfterEvent ==
    [CLOCK_IN |-> "WORKING", BREAK_START |-> "ON_BREAK",
     BREAK_END |-> "WORKING", CLOCK_OUT |-> "OFF_WORK"]

EventTypesAllowedIn ==
    [OFF_WORK |-> {"CLOCK_IN"},
     WORKING  |-> {"BREAK_START", "CLOCK_OUT"},
     ON_BREAK |-> {"BREAK_END"}]

\* The reconstructed state before the i-th event of events.
StateBefore(events, i) ==
    IF i = 1 THEN "OFF_WORK" ELSE StateAfterEvent[events[i - 1].type]

\* The currentState reconstructAttendance returns.
ReconstructedState(events) == StateBefore(events, Len(events) + 1)

\* reconstructAttendance succeeds on the events, in sequence order: sequences
\* grow, instants are minute-aligned and never go back, every event is legal.
Reconstructible(events, ticksPerMinute) ==
    \A i \in 1..Len(events) :
        /\ events[i].eventSequence > 0
        /\ events[i].occurredAt % ticksPerMinute = 0
        /\ events[i].type \in EventTypesAllowedIn[StateBefore(events, i)]
        /\ i > 1 => /\ events[i].eventSequence > events[i - 1].eventSequence
                    /\ events[i].occurredAt >= events[i - 1].occurredAt
=============================================================================
