---------------------------- MODULE Housekeeping ----------------------------
(***************************************************************************)
(* What happens beside the transactions of the domain: the messages that   *)
(* follow a decision, the retention of their delivery attempts, and the    *)
(* exports of an employee's data with their files.                         *)
(*                                                                         *)
(* These procedures are not atomic: they alternate between transactions of *)
(* their own, the mail system and the file system, and nothing resumes     *)
(* them when the process dies.                                             *)
(***************************************************************************)
EXTENDS Integers, FiniteSets

CONSTANTS
    Notifications,  \* identities of notifications
    Exports,        \* identities of exports
    Purgers,        \* purges of expired exports that may run at a time
    Lifetime,       \* of an export, in ticks of the clock
    Retention,      \* of delivery attempts, in ticks of the clock
    MaxTime,        \* bound: the clock reads 0..MaxTime
    None

Outcomes == {"DELIVERED", "FAILED"}
Attempts == [notification : Notifications, attemptNumber : 1..2,
             outcome : Outcomes, attemptedAt : Nat]
NotificationRows == [deliveryRequested : BOOLEAN, occurredAt : Nat,
                     dismissedAt : Nat \cup {None}]
Deliveries == [attemptNumber : 1..2, outcome : Outcomes \cup {None}]
ExportRows == [expiresAt : Nat, generated : BOOLEAN]
Purges == [at : Nat, paths : SUBSET Exports]

ASSUME HousekeepingAssumption ==
    /\ Lifetime \in Nat /\ Retention \in Nat /\ MaxTime \in Nat
    /\ Notifications \cap Exports = {}
    /\ None \notin NotificationRows \cup Deliveries \cup Outcomes \cup ExportRows \cup Purges

VARIABLES
    now,
    notifications,  \* rows: None or [deliveryRequested, occurredAt, dismissedAt]
    attempts,       \* rows [notification, attemptNumber, outcome, attemptedAt]
    deliveries,     \* per notification, None or the attempt its process is at
    exports,        \* rows: None or [expiresAt, generated]
    files,          \* per export, its file: "NONE", "PARTIAL" or "COMPLETE"
    generations,    \* per export, the process that makes it
    purges,         \* per purge, None or [at, paths]: when it began, files to remove
    confirmed,      \* history: notifications whose message was reported sent
    disturbed       \* history: whatever met a fault, came too late or was forgotten

mailVars == <<notifications, attempts, deliveries, confirmed>>
exportVars == <<exports, files, generations, purges>>
vars == <<now, mailVars, exportVars, disturbed>>

TypeOK ==
    /\ now \in Nat
    /\ notifications \in [Notifications -> NotificationRows \cup {None}]
    /\ attempts \subseteq Attempts
    /\ deliveries \in [Notifications -> Deliveries \cup {None}]
    /\ exports \in [Exports -> ExportRows \cup {None}]
    /\ files \in [Exports -> {"NONE", "PARTIAL", "COMPLETE"}]
    /\ generations \in [Exports -> {"NEW", "REQUESTED", "WRITING", "WRITTEN", "DONE", "FAILED"}]
    /\ purges \in [Purgers -> Purges \cup {None}]
    /\ confirmed \subseteq Notifications
    /\ disturbed \subseteq Notifications \cup Exports

Init ==
    /\ now = 0
    /\ notifications = [n \in Notifications |-> None]
    /\ attempts = {}
    /\ deliveries = [n \in Notifications |-> None]
    /\ confirmed = {}
    /\ exports = [x \in Exports |-> None]
    /\ files = [x \in Exports |-> "NONE"]
    /\ generations = [x \in Exports |-> "NEW"]
    /\ purges = [p \in Purgers |-> None]
    /\ disturbed = {}

-----------------------------------------------------------------------------
(* Notifications *)

\* A decision commits with its notification.  A message is requested when the
\* adapter is configured and the employee has an active account; the process
\* that decided then starts to deliver it.
Notify(n) ==
    /\ notifications[n] = None
    /\ \E requested \in BOOLEAN :
          /\ notifications' = [notifications EXCEPT ![n] =
                 [deliveryRequested |-> requested, occurredAt |-> now, dismissedAt |-> None]]
          /\ deliveries' = [deliveries EXCEPT ![n] =
                 IF requested THEN [attemptNumber |-> 1, outcome |-> None] ELSE None]
    /\ UNCHANGED <<now, attempts, confirmed, exportVars, disturbed>>

\* attemptDelivery: an exception of the adapter is a failure, too, although the
\* message may have left.
Deliver(n) ==
    /\ deliveries[n] # None
    /\ deliveries[n].outcome = None
    /\ \E outcome \in Outcomes :
          /\ deliveries' = [deliveries EXCEPT ![n].outcome = outcome]
          /\ confirmed' = IF outcome = "DELIVERED" THEN confirmed \cup {n} ELSE confirmed
    /\ UNCHANGED <<now, notifications, attempts, exportVars, disturbed>>

\* Variant: the loop does not stop at a success.
NextAttemptAnyway(d) ==
    IF d.attemptNumber = 2 THEN None ELSE [attemptNumber |-> 2, outcome |-> None]

\* The loop over two attempts.
NextAttempt(d) ==
    IF d.outcome = "DELIVERED" \/ d.attemptNumber = 2
    THEN None ELSE [attemptNumber |-> 2, outcome |-> None]

\* The attempt is recorded in a transaction of its own, under the instant of the
\* decision; that this fails is only reported to the operator.
RecordAttempt(n) ==
    LET d == deliveries[n]
    IN  /\ d # None
        /\ d.outcome # None
        /\ \/ /\ attempts' = attempts \cup {[notification |-> n,
                                             attemptNumber |-> d.attemptNumber,
                                             outcome |-> d.outcome,
                                             attemptedAt |-> notifications[n].occurredAt]}
              /\ UNCHANGED disturbed
           \/ /\ disturbed' = disturbed \cup {n}
              /\ UNCHANGED attempts
        /\ deliveries' = [deliveries EXCEPT ![n] = NextAttempt(d)]
        /\ UNCHANGED <<now, notifications, confirmed, exportVars>>

\* Only the first dismissal counts.
Dismiss(n) ==
    /\ notifications[n] # None
    /\ notifications[n].dismissedAt = None
    /\ notifications' = [notifications EXCEPT ![n].dismissedAt = now]
    /\ UNCHANGED <<now, attempts, deliveries, confirmed, exportVars, disturbed>>

Old(a) == a.attemptedAt < now - Retention

\* The retention job of the class NOTIFICATIONS.
PurgeAttempts ==
    /\ \E a \in attempts : Old(a)
    /\ attempts' = {a \in attempts : ~Old(a)}
    /\ disturbed' = disturbed \cup {a.notification : a \in {b \in attempts : Old(b)}}
    /\ UNCHANGED <<now, notifications, deliveries, confirmed, exportVars>>

AttemptsOf(n) == {a \in attempts : a.notification = n}

\* What the list of notifications shows: the outcome of the last attempt.
DeliveryStatus(n) ==
    IF ~notifications[n].deliveryRequested THEN "NOT_CONFIGURED"
    ELSE IF AttemptsOf(n) = {} THEN "PENDING"
    ELSE (CHOOSE a \in AttemptsOf(n) :
             \A b \in AttemptsOf(n) : b.attemptNumber <= a.attemptNumber).outcome

-----------------------------------------------------------------------------
(* Exports *)

\* Variant: the last instant of an export is counted as expired.
ExpiredAtLast(row, at) == row.expiresAt <= at

Expired(row, at) == row.expiresAt < at

\* createUserExport in three steps: a row, ...
RequestExport(x) ==
    /\ generations[x] = "NEW"
    /\ exports' = [exports EXCEPT ![x] = [expiresAt |-> now + Lifetime, generated |-> FALSE]]
    /\ generations' = [generations EXCEPT ![x] = "REQUESTED"]
    /\ UNCHANGED <<now, mailVars, files, purges, disturbed>>

\* ... a file that is written while the data are read, ...
WriteFile(x) ==
    /\ \/ /\ generations[x] = "REQUESTED"
          /\ files' = [files EXCEPT ![x] = "PARTIAL"]
          /\ generations' = [generations EXCEPT ![x] = "WRITING"]
       \/ /\ generations[x] = "WRITING"
          /\ files' = [files EXCEPT ![x] = "COMPLETE"]
          /\ generations' = [generations EXCEPT ![x] = "WRITTEN"]
    /\ UNCHANGED <<now, mailVars, exports, purges, disturbed>>

\* ... and its path in the row, if the row is still there.
StoreArtifact(x) ==
    /\ generations[x] = "WRITTEN"
    /\ exports' = [exports EXCEPT ![x] =
           IF @ = None THEN None ELSE [@ EXCEPT !.generated = TRUE]]
    /\ generations' = [generations EXCEPT ![x] = "DONE"]
    /\ disturbed' = IF exports[x] = None \/ Expired(exports[x], now)
                    THEN disturbed \cup {x} ELSE disturbed
    /\ UNCHANGED <<now, mailVars, files, purges>>

Working(x) == generations[x] \in {"REQUESTED", "WRITING", "WRITTEN"}

\* Reading or archiving fails: the error is answered and nothing is undone.
GenerationFails(x) ==
    /\ Working(x)
    /\ generations' = [generations EXCEPT ![x] = "FAILED"]
    /\ disturbed' = disturbed \cup {x}
    /\ UNCHANGED <<now, mailVars, exports, files, purges>>

\* purgeExpiredExports in three steps: the paths of expired exports, ...
FindExpired(p) ==
    /\ purges[p] = None
    /\ \E x \in Exports : exports[x] # None /\ Expired(exports[x], now)
    /\ purges' = [purges EXCEPT ![p] =
           [at |-> now,
            paths |-> {x \in Exports : /\ exports[x] # None
                                       /\ exports[x].generated
                                       /\ Expired(exports[x], now)}]]
    /\ UNCHANGED <<now, mailVars, exports, files, generations, disturbed>>

\* ... their files, one by one and ignoring errors, ...
Unlink(p) ==
    /\ purges[p] # None
    /\ \E x \in purges[p].paths :
          /\ \/ files' = [files EXCEPT ![x] = "NONE"] /\ UNCHANGED disturbed
             \/ disturbed' = disturbed \cup {x} /\ UNCHANGED files
          /\ purges' = [purges EXCEPT ![p].paths = @ \ {x}]
    /\ UNCHANGED <<now, mailVars, exports, generations>>

\* Variant: whatever is expired by now is deleted.
DeleteExpiredNow(p) ==
    /\ purges[p] # None
    /\ purges[p].paths = {}
    /\ exports' = [x \in Exports |->
           IF exports[x] # None /\ Expired(exports[x], now) THEN None ELSE exports[x]]
    /\ purges' = [purges EXCEPT ![p] = None]
    /\ UNCHANGED <<now, mailVars, files, generations, disturbed>>

\* ... and the rows that were expired when the purge began.
DeleteExpired(p) ==
    /\ purges[p] # None
    /\ purges[p].paths = {}
    /\ exports' = [x \in Exports |->
           IF exports[x] # None /\ Expired(exports[x], purges[p].at) THEN None ELSE exports[x]]
    /\ purges' = [purges EXCEPT ![p] = None]
    /\ UNCHANGED <<now, mailVars, files, generations, disturbed>>

-----------------------------------------------------------------------------
\* The process dies with everything it was doing.
Crash ==
    /\ disturbed' = disturbed \cup {n \in Notifications : deliveries[n] # None}
                              \cup {x \in Exports : Working(x)}
    /\ deliveries' = [n \in Notifications |-> None]
    /\ generations' = [x \in Exports |-> IF Working(x) THEN "FAILED" ELSE generations[x]]
    /\ purges' = [p \in Purgers |-> None]
    /\ UNCHANGED <<now, notifications, attempts, confirmed, exports, files>>

Tick == now < MaxTime /\ now' = now + 1 /\ UNCHANGED <<mailVars, exportVars, disturbed>>

Next ==
    \/ \E n \in Notifications : \/ Notify(n)
                                \/ Deliver(n)
                                \/ RecordAttempt(n)
                                \/ Dismiss(n)
    \/ PurgeAttempts
    \/ \E x \in Exports : \/ RequestExport(x)
                          \/ WriteFile(x)
                          \/ StoreArtifact(x)
                          \/ GenerationFails(x)
    \/ \E p \in Purgers : FindExpired(p) \/ Unlink(p) \/ DeleteExpired(p)
    \/ Crash
    \/ Tick

Spec == Init /\ [][Next]_vars

-----------------------------------------------------------------------------
(* Properties *)

\* Once a delivery is over, the list shows DELIVERED exactly when the message
\* was reported sent, in the first attempt or the second, and FAILED exactly
\* when both failed, unless the attempts could not be recorded, were purged or
\* were never made because the process died.
StatusTellsDelivery ==
    \A n \in Notifications \ disturbed :
        notifications[n] # None /\ deliveries[n] = None =>
            DeliveryStatus(n) = IF ~notifications[n].deliveryRequested THEN "NOT_CONFIGURED"
                                ELSE IF n \in confirmed THEN "DELIVERED" ELSE "FAILED"

Downloadable(x) == exports[x] # None /\ exports[x].generated /\ ~(exports[x].expiresAt < now)

\* An export that is offered for download has its complete file, up to its last
\* instant, whatever purges run beside its generation.
DownloadsHaveFiles == \A x \in Exports : Downloadable(x) => files[x] = "COMPLETE"

\* The file of an export never outlives its row, without which no purge finds
\* it again, although both are removed in different steps from what they were
\* found by; except when its generation failed or took longer than its
\* lifetime, or the file could not be removed.
FilesGoWithRows ==
    \A x \in Exports \ disturbed :
        files[x] # "NONE" /\ ~Working(x) => exports[x] # None
=============================================================================
