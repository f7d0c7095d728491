------------------------- MODULE MCAttendanceClient -------------------------
(* Instances of AttendanceClient for TLC. *)
EXTENDS AttendanceClient, TLC

CONSTANTS k1, k2, k3, t1

\* Another device may clock in or out, at any revision.
OtherDevice ==
    [idempotencyKey : {k3}, command : {"CLOCK_IN", "CLOCK_OUT"},
     expectedAttendanceRevision : 0..2, confirmActiveBreak : {TRUE}]
=============================================================================
