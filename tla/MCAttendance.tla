---------------------------- MODULE MCAttendance ----------------------------
(* Instances of Attendance for TLC. *)
EXTENDS Attendance, TLC

CONSTANTS r1, r2, r3, k1, k2, k3

Intent(key, command, revision, confirmed) ==
    [idempotencyKey |-> key, command |-> command,
     expectedAttendanceRevision |-> revision, confirmActiveBreak |-> confirmed]

\* A whole day: every state, the confirmed and the unconfirmed clock-out; and
\* races: a second device at the same revision, a key used again for something else.
DayIntents ==
    {Intent(k1, "CLOCK_IN", 0, FALSE), Intent(k2, "CLOCK_IN", 0, FALSE),
     Intent(k2, "CLOCK_OUT", 1, FALSE), Intent(k1, "CLOCK_OUT", 0, FALSE),
     Intent(k2, "START_BREAK", 1, FALSE), Intent(k3, "CLOCK_OUT", 2, TRUE),
     Intent(k3, "CLOCK_OUT", 2, FALSE), Intent(k3, "RESUME", 2, FALSE)}

\* Two devices that clock in at once, one of them twice.
LiveIntents == {Intent(k1, "CLOCK_IN", 0, FALSE), Intent(k2, "CLOCK_IN", 0, FALSE)}

RequestSymmetry == Permutations(Requests)
=============================================================================
