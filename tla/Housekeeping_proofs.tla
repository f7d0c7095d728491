------------------------ MODULE Housekeeping_proofs -------------------------
(***************************************************************************)
(* Proofs about Housekeeping for every set of notifications, exports and   *)
(* purges, every lifetime and every retention.                             *)
(*                                                                         *)
(* Argument: what a process holds in memory bounds what it may still find  *)
(* stored (MailInv): before the first attempt is recorded there is none,   *)
(* before the second only a failure.  An export that was stored in time    *)
(* carries its path before it can expire, so that a purge that will delete *)
(* its row has found its file (ExportInv).                                 *)
(***************************************************************************)
EXTENDS Housekeeping, TLAPS

\* Only what was requested is delivered.
Typed ==
    /\ TypeOK
    /\ \A n \in Notifications :
          deliveries[n] # None => notifications[n] # None /\ notifications[n].deliveryRequested

\* Of an undisturbed notification: what is stored while its process is at an
\* attempt, and what is stored when it is done.
MailOf(n) ==
    /\ notifications[n] = None => AttemptsOf(n) = {} /\ n \notin confirmed
    /\ deliveries[n] # None =>
          /\ n \in confirmed <=> deliveries[n].outcome = "DELIVERED"
          /\ deliveries[n].attemptNumber = 1 => AttemptsOf(n) = {}
          /\ deliveries[n].attemptNumber = 2 =>
                /\ AttemptsOf(n) # {}
                /\ \A a \in AttemptsOf(n) : a.attemptNumber = 1
    /\ notifications[n] # None /\ notifications[n].deliveryRequested /\ deliveries[n] = None =>
          \E a \in AttemptsOf(n) :
             /\ a.outcome = IF n \in confirmed THEN "DELIVERED" ELSE "FAILED"
             /\ \A b \in AttemptsOf(n) : b # a => b.attemptNumber < a.attemptNumber

MailInv == \A n \in Notifications \ disturbed : MailOf(n)

\* Where a row, its file and the process that makes it stand.
StagesOf(x) ==
    /\ generations[x] = "NEW" => exports[x] = None /\ files[x] = "NONE"
    /\ generations[x] = "WRITTEN" => files[x] = "COMPLETE"
    /\ exports[x] # None /\ exports[x].generated =>
          /\ generations[x] = "DONE"
          /\ files[x] = "COMPLETE" \/ exports[x].expiresAt < now

\* A purge removes only files of exports that were expired when it began.
PurgeOf(p) ==
    purges[p] # None =>
        /\ purges[p].at <= now
        /\ \A x \in purges[p].paths :
              /\ generations[x] = "DONE"
              /\ exports[x] # None => exports[x].expiresAt < purges[p].at

\* Of an undisturbed export that is no longer in the making: its row has its
\* path, and a purge that will delete the row has its file to remove, or none is
\* left.
KeptOf(x) ==
    ~Working(x) =>
        /\ generations[x] # "FAILED"
        /\ files[x] # "NONE" => exports[x] # None
        /\ exports[x] # None =>
              /\ exports[x].generated
              /\ \A p \in Purgers :
                    purges[p] # None /\ exports[x].expiresAt < purges[p].at =>
                        x \in purges[p].paths \/ files[x] = "NONE"

ExportInv ==
    /\ \A x \in Exports : StagesOf(x)
    /\ \A p \in Purgers : PurgeOf(p)
    /\ \A x \in Exports \ disturbed : KeptOf(x)

-----------------------------------------------------------------------------
(* Type correctness *)

\* The initial states are well typed.
LEMMA InitTyped == Init => Typed
    BY HousekeepingAssumption DEF Init, Typed, TypeOK

\* Deliver, RecordAttempt: what a delivery becomes is a delivery or nothing.
LEMMA NextAttemptType ==
    ASSUME NEW d \in Deliveries
    PROVE  NextAttempt(d) \in Deliveries \cup {None}
    BY DEF NextAttempt, Deliveries

\* Every step of the mails keeps the types.
LEMMA MailTyped ==
    ASSUME Typed, NEW n \in Notifications,
           Notify(n) \/ Deliver(n) \/ RecordAttempt(n) \/ Dismiss(n)
    PROVE  Typed'
<1> USE HousekeepingAssumption
<1>1. CASE Notify(n)
    BY <1>1 DEF Typed, TypeOK, Notify, exportVars, NotificationRows, Deliveries
<1>2. CASE Deliver(n)
  <2>1. PICK outcome \in Outcomes :
            /\ deliveries' = [deliveries EXCEPT ![n].outcome = outcome]
            /\ confirmed' = IF outcome = "DELIVERED" THEN confirmed \cup {n} ELSE confirmed
    BY <1>2 DEF Deliver
  <2>2. deliveries' \in [Notifications -> Deliveries \cup {None}]
    BY <1>2, <2>1 DEF Typed, TypeOK, Deliver, Deliveries
  <2> QED
    BY <1>2, <2>1, <2>2 DEF Typed, TypeOK, Deliver, exportVars
<1>3. CASE RecordAttempt(n)
  <2>1. deliveries[n] \in Deliveries /\ deliveries[n].outcome \in Outcomes
    BY <1>3 DEF Typed, TypeOK, RecordAttempt, Deliveries
  <2>2. notifications[n].occurredAt \in Nat
    BY <1>3 DEF Typed, TypeOK, RecordAttempt, NotificationRows
  <2>3. deliveries' \in [Notifications -> Deliveries \cup {None}]
    BY <1>3, <2>1, NextAttemptType DEF Typed, TypeOK, RecordAttempt
  <2>4. attempts' \subseteq Attempts
    BY <1>3, <2>1, <2>2 DEF Typed, TypeOK, RecordAttempt, Attempts, Deliveries
  <2> QED
    BY <1>3, <2>3, <2>4 DEF Typed, TypeOK, RecordAttempt, exportVars
<1>4. CASE Dismiss(n)
  <2>1. notifications' \in [Notifications -> NotificationRows \cup {None}]
    BY <1>4 DEF Typed, TypeOK, Dismiss, NotificationRows
  <2>2. \A k \in Notifications : notifications[k] # None =>
            /\ notifications'[k] # None
            /\ notifications'[k].deliveryRequested = notifications[k].deliveryRequested
    BY <1>4 DEF Typed, TypeOK, Dismiss, NotificationRows
  <2> QED
    BY <1>4, <2>1, <2>2 DEF Typed, TypeOK, Dismiss, exportVars
<1> QED
    BY <1>1, <1>2, <1>3, <1>4

\* Every step of an export keeps the types.
LEMMA ExportTyped ==
    ASSUME Typed, NEW x \in Exports,
           RequestExport(x) \/ WriteFile(x) \/ StoreArtifact(x) \/ GenerationFails(x)
    PROVE  Typed'
<1> USE HousekeepingAssumption
<1>1. CASE RequestExport(x)
    BY <1>1 DEF Typed, TypeOK, RequestExport, mailVars, ExportRows
<1>2. CASE WriteFile(x)
    BY <1>2 DEF Typed, TypeOK, WriteFile, mailVars
<1>3. CASE StoreArtifact(x)
    BY <1>3 DEF Typed, TypeOK, StoreArtifact, mailVars, ExportRows
<1>4. CASE GenerationFails(x)
    BY <1>4 DEF Typed, TypeOK, GenerationFails, mailVars
<1> QED
    BY <1>1, <1>2, <1>3, <1>4

\* Every step of a purge keeps the types.
LEMMA PurgeTyped ==
    ASSUME Typed, NEW p \in Purgers, FindExpired(p) \/ Unlink(p) \/ DeleteExpired(p)
    PROVE  Typed'
<1> USE HousekeepingAssumption
<1>1. CASE FindExpired(p)
    BY <1>1 DEF Typed, TypeOK, FindExpired, mailVars, Purges
<1>2. CASE Unlink(p)
    BY <1>2 DEF Typed, TypeOK, Unlink, mailVars, Purges
<1>3. CASE DeleteExpired(p)
    BY <1>3 DEF Typed, TypeOK, DeleteExpired, mailVars
<1> QED
    BY <1>1, <1>2, <1>3

\* Every step keeps the types.
LEMMA StepTyped == Typed /\ [Next]_vars => Typed'
<1> SUFFICES ASSUME Typed, [Next]_vars PROVE Typed'
    OBVIOUS
<1>1. CASE PurgeAttempts
    BY <1>1 DEF Typed, TypeOK, PurgeAttempts, exportVars, Attempts
<1>2. CASE Crash
    BY <1>2 DEF Typed, TypeOK, Crash
<1>3. CASE Tick
    BY <1>3 DEF Typed, TypeOK, Tick, mailVars, exportVars
<1>4. CASE UNCHANGED vars
    BY <1>4 DEF Typed, TypeOK, vars, mailVars, exportVars
<1> QED
    BY <1>1, <1>2, <1>3, <1>4, MailTyped, ExportTyped, PurgeTyped DEF Next

\* Every variable keeps its type, and only requested messages are delivered.
THEOREM TypeCorrect == Spec => []Typed
    BY InitTyped, StepTyped, PTL DEF Spec

-----------------------------------------------------------------------------
(* The mails *)

\* A notification that no step touches keeps what is known of it.
LEMMA MailUntouched ==
    ASSUME NEW n \in Notifications, MailOf(n),
           notifications'[n] = notifications[n], deliveries'[n] = deliveries[n],
           AttemptsOf(n)' = AttemptsOf(n), n \in confirmed' <=> n \in confirmed
    PROVE  MailOf(n)'
    BY DEF MailOf

\* Every step keeps what is known of the undisturbed notifications.
LEMMA StepMail == Typed /\ MailInv /\ [Next]_vars => MailInv'
<1> SUFFICES ASSUME Typed, MailInv, [Next]_vars,
                    NEW m \in Notifications, m \notin disturbed'
             PROVE  MailOf(m)'
    BY DEF MailInv
<1> USE HousekeepingAssumption
<1>1. ASSUME NEW n \in Notifications, Notify(n) PROVE MailOf(m)'
  <2>1. m \notin disturbed /\ MailOf(m)
    BY <1>1 DEF Notify, MailInv
  <2>2. AttemptsOf(m)' = AttemptsOf(m) /\ confirmed' = confirmed
    BY <1>1 DEF Notify, AttemptsOf
  <2>3. CASE m # n
    BY <1>1, <2>1, <2>2, <2>3, MailUntouched DEF Notify, Typed, TypeOK
  <2>4. CASE m = n
    <3>1. PICK requested \in BOOLEAN :
              /\ notifications'[n] = [deliveryRequested |-> requested, occurredAt |-> now,
                                      dismissedAt |-> None]
              /\ deliveries'[n] =
                    IF requested THEN [attemptNumber |-> 1, outcome |-> None] ELSE None
      BY <1>1 DEF Notify, Typed, TypeOK
    <3>2. [attemptNumber |-> 1, outcome |-> None] \in Deliveries
      BY DEF Deliveries
    <3>3. notifications'[n] \in NotificationRows
      BY <3>1 DEF Typed, TypeOK, NotificationRows
    <3>4. AttemptsOf(n) = {} /\ n \notin confirmed
      BY <1>1, <2>1, <2>4 DEF Notify, MailOf
    <3> QED
      BY <2>2, <2>4, <3>1, <3>2, <3>3, <3>4 DEF MailOf, Outcomes
  <2> QED
    BY <2>3, <2>4
<1>2. ASSUME NEW n \in Notifications, Deliver(n) PROVE MailOf(m)'
  <2>1. m \notin disturbed /\ MailOf(m)
    BY <1>2 DEF Deliver, MailInv
  <2>2. AttemptsOf(m)' = AttemptsOf(m) /\ notifications' = notifications
    BY <1>2 DEF Deliver, AttemptsOf
  <2>3. CASE m # n
    BY <1>2, <2>1, <2>2, <2>3, MailUntouched DEF Deliver, Typed, TypeOK
  <2>4. CASE m = n
    <3>1. PICK outcome \in Outcomes :
              /\ deliveries' = [deliveries EXCEPT ![n].outcome = outcome]
              /\ confirmed' = IF outcome = "DELIVERED" THEN confirmed \cup {n} ELSE confirmed
      BY <1>2 DEF Deliver
    <3>2. deliveries[n] \in Deliveries /\ deliveries[n].outcome = None
      BY <1>2 DEF Deliver, Typed, TypeOK
    <3>3. /\ deliveries'[n] \in Deliveries
          /\ deliveries'[n].outcome = outcome
          /\ deliveries'[n].attemptNumber = deliveries[n].attemptNumber
      BY <3>1, <3>2 DEF Typed, TypeOK, Deliveries
    <3>4. n \notin confirmed
      BY <1>2, <2>1, <2>4, <3>2 DEF Deliver, MailOf, Outcomes
    <3>5. notifications[n] # None
      BY <1>2 DEF Deliver, Typed
    <3> QED
      BY <1>2, <2>1, <2>2, <2>4, <3>1, <3>3, <3>4, <3>5 DEF MailOf, Deliver
  <2> QED
    BY <2>3, <2>4
<1>3. ASSUME NEW n \in Notifications, RecordAttempt(n) PROVE MailOf(m)'
  <2> DEFINE d == deliveries[n]
             row == [notification |-> n, attemptNumber |-> d.attemptNumber,
                     outcome |-> d.outcome, attemptedAt |-> notifications[n].occurredAt]
  <2>1. m \notin disturbed /\ MailOf(m)
    BY <1>3 DEF RecordAttempt, MailInv
  <2>2. notifications' = notifications /\ confirmed' = confirmed
    BY <1>3 DEF RecordAttempt
  <2>3. CASE m # n
    <3>1. AttemptsOf(m)' = AttemptsOf(m)
      BY <1>3, <2>3 DEF RecordAttempt, AttemptsOf
    <3> QED
      BY <1>3, <2>1, <2>2, <2>3, <3>1, MailUntouched DEF RecordAttempt, Typed, TypeOK
  <2>4. CASE m = n
    <3>1. attempts' = attempts \cup {row}
      BY <1>3, <2>4 DEF RecordAttempt
    <3>2. AttemptsOf(n)' = AttemptsOf(n) \cup {row}
      BY <3>1 DEF AttemptsOf
    <3>3. /\ d \in Deliveries /\ d.outcome \in Outcomes /\ d # None
          /\ d.attemptNumber \in {1, 2}
          /\ notifications[n] # None /\ notifications[n].deliveryRequested
      BY <1>3 DEF RecordAttempt, Typed, TypeOK, Deliveries
    <3>4. deliveries'[n] = NextAttempt(d)
      BY <1>3 DEF RecordAttempt, Typed, TypeOK
    <3>5. n \in confirmed <=> d.outcome = "DELIVERED"
      BY <2>1, <2>4, <3>3 DEF MailOf
    <3>6. \A b \in AttemptsOf(n) : d.attemptNumber = 2 /\ b.attemptNumber = 1
      BY <2>1, <2>4, <3>3 DEF MailOf
    <3>7. CASE d.outcome = "DELIVERED" \/ d.attemptNumber = 2
      <4>1. deliveries'[n] = None
        BY <3>4, <3>7 DEF NextAttempt
      <4>2. row.outcome = IF n \in confirmed THEN "DELIVERED" ELSE "FAILED"
        BY <3>3, <3>5 DEF Outcomes
      <4>3. \A b \in AttemptsOf(n)' : b # row => b.attemptNumber < row.attemptNumber
        BY <3>2, <3>6
      <4> QED
        BY <2>2, <2>4, <3>2, <3>3, <4>1, <4>2, <4>3 DEF MailOf
    <3>8. CASE d.outcome # "DELIVERED" /\ d.attemptNumber = 1
      <4>1. deliveries'[n] = [attemptNumber |-> 2, outcome |-> None]
        BY <3>4, <3>8 DEF NextAttempt
      <4>2. [attemptNumber |-> 2, outcome |-> None] # None
        BY DEF Deliveries
      <4>3. AttemptsOf(n)' = {row} /\ row.attemptNumber = 1
        BY <3>2, <3>6, <3>8
      <4> QED
        BY <2>2, <2>4, <3>3, <3>5, <3>8, <4>1, <4>2, <4>3 DEF MailOf, Outcomes
    <3> QED
      BY <3>3, <3>7, <3>8
  <2> QED
    BY <2>3, <2>4
<1>4. ASSUME NEW n \in Notifications, Dismiss(n) PROVE MailOf(m)'
  <2>1. m \notin disturbed /\ MailOf(m)
    BY <1>4 DEF Dismiss, MailInv
  <2>2. AttemptsOf(m)' = AttemptsOf(m) /\ confirmed' = confirmed /\ deliveries' = deliveries
    BY <1>4 DEF Dismiss, AttemptsOf
  <2>3. /\ notifications'[m] = None <=> notifications[m] = None
        /\ notifications[m] # None =>
              notifications'[m].deliveryRequested = notifications[m].deliveryRequested
    BY <1>4 DEF Dismiss, Typed, TypeOK, NotificationRows
  <2> QED
    BY <2>1, <2>2, <2>3 DEF MailOf
<1>5. CASE PurgeAttempts
  <2>1. m \notin disturbed /\ MailOf(m)
    BY <1>5 DEF PurgeAttempts, MailInv
  <2>2. \A a \in AttemptsOf(m) : ~Old(a)
    BY <1>5 DEF PurgeAttempts, AttemptsOf
  <2>3. AttemptsOf(m)' = AttemptsOf(m)
    BY <1>5, <2>2 DEF PurgeAttempts, AttemptsOf
  <2> QED
    BY <1>5, <2>1, <2>3, MailUntouched DEF PurgeAttempts
<1>6. CASE Crash
  <2>1. m \notin disturbed /\ deliveries[m] = None /\ MailOf(m)
    BY <1>6 DEF Crash, MailInv
  <2>2. AttemptsOf(m)' = AttemptsOf(m) /\ deliveries'[m] = None
    BY <1>6 DEF Crash, AttemptsOf
  <2> QED
    BY <1>6, <2>1, <2>2, MailUntouched DEF Crash
<1>7. ASSUME /\ UNCHANGED mailVars
             /\ disturbed \subseteq disturbed'
      PROVE  MailOf(m)'
    BY <1>7, MailUntouched DEF mailVars, AttemptsOf, MailInv
<1>8. CASE \E x \in Exports : RequestExport(x) \/ WriteFile(x) \/ StoreArtifact(x)
                              \/ GenerationFails(x)
    BY <1>7, <1>8 DEF RequestExport, WriteFile, StoreArtifact, GenerationFails
<1>9. CASE \E p \in Purgers : FindExpired(p) \/ Unlink(p) \/ DeleteExpired(p)
    BY <1>7, <1>9 DEF FindExpired, Unlink, DeleteExpired
<1>10. CASE Tick \/ UNCHANGED vars
    BY <1>7, <1>10 DEF Tick, vars
<1> QED
    BY <1>1, <1>2, <1>3, <1>4, <1>5, <1>6, <1>8, <1>9, <1>10 DEF Next

\* What is known of a notification whose delivery is over decides its status.
LEMMA MailDecidesStatus == Typed /\ MailInv => StatusTellsDelivery
<1> SUFFICES ASSUME Typed, MailInv, NEW n \in Notifications \ disturbed,
                    notifications[n] # None, deliveries[n] = None
             PROVE  DeliveryStatus(n) =
                       IF ~notifications[n].deliveryRequested THEN "NOT_CONFIGURED"
                       ELSE IF n \in confirmed THEN "DELIVERED" ELSE "FAILED"
    BY DEF StatusTellsDelivery
<1>1. CASE ~notifications[n].deliveryRequested
    BY <1>1 DEF DeliveryStatus
<1>2. CASE notifications[n].deliveryRequested
  <2> DEFINE newest(a) == \A b \in AttemptsOf(n) : b.attemptNumber <= a.attemptNumber
  <2>1. PICK a \in AttemptsOf(n) :
            /\ a.outcome = IF n \in confirmed THEN "DELIVERED" ELSE "FAILED"
            /\ \A b \in AttemptsOf(n) : b # a => b.attemptNumber < a.attemptNumber
    BY <1>2 DEF MailInv, MailOf
  <2>2. \A b \in AttemptsOf(n) : b.attemptNumber \in Nat
    BY DEF AttemptsOf, Typed, TypeOK, Attempts
  <2>3. newest(a) /\ \A b \in AttemptsOf(n) : newest(b) => b = a
    BY <2>1, <2>2
  <2>4. (CHOOSE b \in AttemptsOf(n) : newest(b)) = a
    BY <2>3
  <2> QED
    BY <1>2, <2>1, <2>4 DEF DeliveryStatus
<1> QED
    BY <1>1, <1>2

\* The list of notifications tells what became of every delivery that no fault
\* disturbed, however often and in whichever order messages are sent, recorded,
\* dismissed and purged (deliverCommittedNotification, list).
THEOREM StatusIsTrue == Spec => []StatusTellsDelivery
<1>1. Init => MailInv
    BY DEF Init, MailInv, MailOf, AttemptsOf
<1> QED
    BY <1>1, TypeCorrect, StepMail, MailDecidesStatus, PTL DEF Spec

-----------------------------------------------------------------------------
(* The exports *)

\* An export whose own variables do not change keeps its stage.
LEMMA StageUntouched ==
    ASSUME Typed, NEW x \in Exports, StagesOf(x), now' \in {now, now + 1},
           exports'[x] = exports[x], files'[x] = files[x], generations'[x] = generations[x]
    PROVE  StagesOf(x)'
<1>1. exports[x] # None => exports[x].expiresAt \in Nat /\ now \in Nat
    BY DEF Typed, TypeOK, ExportRows
<1> QED
    BY <1>1 DEF StagesOf

\* A purge whose limits hold keeps them while only time passes, rows go and
\* generations do not start again.
LEMMA PurgeUntouched ==
    ASSUME Typed, NEW p \in Purgers, PurgeOf(p), now' \in {now, now + 1},
           purges'[p] = purges[p],
           \A x \in Exports : /\ exports'[x] \in {exports[x], None}
                              /\ generations[x] = "DONE" => generations'[x] = "DONE"
    PROVE  PurgeOf(p)'
<1>1. purges[p] # None => purges[p].at \in Nat /\ now \in Nat /\ purges[p].paths \subseteq Exports
    BY DEF Typed, TypeOK, Purges
<1> QED
    BY <1>1 DEF PurgeOf

\* Every step of a generation keeps the stages, the limits and what is kept.
LEMMA StepGeneration ==
    ASSUME Typed, ExportInv, NEW x \in Exports,
           RequestExport(x) \/ WriteFile(x) \/ StoreArtifact(x) \/ GenerationFails(x)
    PROVE  ExportInv'
<1> USE HousekeepingAssumption
<1>0. /\ now' = now /\ purges' = purges /\ disturbed \subseteq disturbed'
      /\ \A y \in Exports \ {x} : /\ exports'[y] = exports[y] /\ files'[y] = files[y]
                                  /\ generations'[y] = generations[y]
    BY DEF RequestExport, WriteFile, StoreArtifact, GenerationFails, Typed, TypeOK
<1>1. \A y \in Exports \ {x} : StagesOf(y)'
    BY <1>0, StageUntouched DEF ExportInv
<1>2. \A y \in Exports \ (disturbed' \cup {x}) : KeptOf(y)'
    BY <1>0 DEF ExportInv, KeptOf, Working
<1>3. \A p \in Purgers : purges[p] # None =>
         /\ purges[p].at \in Nat /\ purges[p].at <= now /\ purges[p].paths \subseteq Exports
         /\ \A y \in purges[p].paths : /\ generations[y] = "DONE"
                                       /\ exports[y] # None => exports[y].expiresAt < purges[p].at
    BY DEF ExportInv, PurgeOf, Typed, TypeOK, Purges
<1>4. generations[x] # "DONE"
    BY DEF RequestExport, WriteFile, StoreArtifact, GenerationFails, Working
<1>5. \A p \in Purgers : PurgeOf(p)'
    BY <1>0, <1>3, <1>4 DEF PurgeOf
<1>6. StagesOf(x)' /\ (x \notin disturbed' => KeptOf(x)')
  <2>1. CASE RequestExport(x)
    <3>1. exports'[x] = [expiresAt |-> now + Lifetime, generated |-> FALSE]
      BY <2>1 DEF RequestExport, Typed, TypeOK
    <3>2. generations'[x] = "REQUESTED"
      BY <2>1 DEF RequestExport, Typed, TypeOK
    <3> QED
      BY <3>1, <3>2 DEF StagesOf, KeptOf, Working
  <2>2. CASE WriteFile(x)
    <3>1. exports' = exports /\ ~(exports[x] # None /\ exports[x].generated)
      BY <2>2 DEF WriteFile, ExportInv, StagesOf
    <3>2. \/ generations'[x] = "WRITING"
          \/ generations'[x] = "WRITTEN" /\ files'[x] = "COMPLETE"
      BY <2>2 DEF WriteFile, Typed, TypeOK
    <3> QED
      BY <3>1, <3>2 DEF StagesOf, KeptOf, Working
  <2>3. CASE StoreArtifact(x)
    <3>1. /\ generations'[x] = "DONE" /\ files' = files /\ files[x] = "COMPLETE"
          /\ exports[x] = None => exports'[x] = None
      BY <2>3 DEF StoreArtifact, Typed, TypeOK, ExportInv, StagesOf
    <3>2. exports[x] # None => /\ exports[x] \in ExportRows
                               /\ exports'[x] \in ExportRows
                               /\ exports'[x].generated
                               /\ exports'[x].expiresAt = exports[x].expiresAt
      BY <2>3 DEF StoreArtifact, Typed, TypeOK, ExportRows
    <3>3. x \notin disturbed' => exports[x] # None /\ ~(exports[x].expiresAt < now)
      BY <2>3 DEF StoreArtifact, Expired
    <3>4. now \in Nat /\ (exports[x] # None => exports[x].expiresAt \in Nat)
      BY DEF Typed, TypeOK, ExportRows
    <3>5. StagesOf(x)'
      BY <3>1, <3>2 DEF StagesOf
    <3>6. x \notin disturbed' => KeptOf(x)'
      BY <1>0, <1>3, <3>1, <3>2, <3>3, <3>4 DEF KeptOf
    <3> QED
      BY <3>5, <3>6
  <2>4. CASE GenerationFails(x)
    <3>1. exports' = exports /\ files' = files /\ generations'[x] = "FAILED" /\ x \in disturbed'
      BY <2>4 DEF GenerationFails, Typed, TypeOK
    <3>2. ~(exports[x] # None /\ exports[x].generated)
      BY <2>4 DEF GenerationFails, Working, ExportInv, StagesOf
    <3> QED
      BY <3>1, <3>2 DEF StagesOf
  <2> QED
    BY <2>1, <2>2, <2>3, <2>4
<1> QED
    BY <1>1, <1>2, <1>5, <1>6 DEF ExportInv

\* Every step of a purge keeps them.
LEMMA StepPurge ==
    ASSUME Typed, ExportInv, NEW p \in Purgers, FindExpired(p) \/ Unlink(p) \/ DeleteExpired(p)
    PROVE  ExportInv'
<1> USE HousekeepingAssumption
<1>0. now' = now /\ generations' = generations /\ disturbed \subseteq disturbed'
    BY DEF FindExpired, Unlink, DeleteExpired
<1>1. \A q \in Purgers \ {p} : purges'[q] = purges[q]
    BY DEF FindExpired, Unlink, DeleteExpired, Typed, TypeOK
<1>2. \A x \in Exports : exports[x] # None => exports[x] \in ExportRows /\ exports[x].expiresAt \in Nat
    BY DEF Typed, TypeOK, ExportRows
<1>3. \A q \in Purgers : purges[q] # None => /\ purges[q] \in Purges /\ purges[q].at \in Nat
                                             /\ purges[q].paths \subseteq Exports
    BY DEF Typed, TypeOK, Purges
<1>4. now \in Nat
    BY DEF Typed, TypeOK
<1>5. CASE FindExpired(p)
  <2> DEFINE found == {x \in Exports : exports[x] # None /\ exports[x].generated
                                       /\ Expired(exports[x], now)}
  <2>1. /\ purges'[p] = [at |-> now, paths |-> found]
        /\ exports' = exports /\ files' = files /\ disturbed' = disturbed
    BY <1>5 DEF FindExpired, Typed, TypeOK
  <2>2. \A x \in Exports : StagesOf(x)'
    BY <1>0, <2>1, StageUntouched DEF ExportInv
  <2>3. \A q \in Purgers \ {p} : PurgeOf(q)'
    BY <1>0, <1>1, <2>1, PurgeUntouched DEF ExportInv
  <2>4. PurgeOf(p)'
    BY <1>0, <1>4, <2>1 DEF PurgeOf, ExportInv, StagesOf, Expired
  <2>5. ASSUME NEW x \in Exports \ disturbed, ~Working(x)
        PROVE  KeptOf(x)'
    <3>1. KeptOf(x)
      BY DEF ExportInv
    <3>2. exports[x] # None /\ exports[x].expiresAt < now => x \in found
      BY <2>5, <3>1 DEF KeptOf, Expired
    <3> QED
      BY <1>0, <1>1, <2>1, <2>5, <3>1, <3>2 DEF KeptOf
  <2>6. \A x \in Exports : Working(x)' <=> Working(x)
    BY <1>0 DEF Working
  <2>7. \A x \in Exports \ disturbed' : KeptOf(x)'
    BY <2>1, <2>5, <2>6 DEF KeptOf
  <2> QED
    BY <2>2, <2>3, <2>4, <2>7 DEF ExportInv
<1>6. CASE Unlink(p)
  <2>0. PICK x \in purges[p].paths :
            /\ \/ files' = [files EXCEPT ![x] = "NONE"] /\ UNCHANGED disturbed
               \/ disturbed' = disturbed \cup {x} /\ UNCHANGED files
            /\ purges' = [purges EXCEPT ![p].paths = @ \ {x}]
    BY <1>6 DEF Unlink
  <2>1. /\ exports' = exports /\ purges[p] # None /\ x \in Exports
        /\ purges'[p] # None
        /\ purges'[p].at = purges[p].at /\ purges'[p].paths = purges[p].paths \ {x}
    BY <1>3, <1>6, <2>0 DEF Unlink, Typed, TypeOK, Purges
  <2>2. /\ generations[x] = "DONE"
        /\ exports[x] # None => exports[x].expiresAt < now
    BY <1>2, <1>3, <1>4, <2>0, <2>1 DEF ExportInv, PurgeOf
  <2>3. \A y \in Exports : y # x => files'[y] = files[y]
    BY <2>0 DEF Typed, TypeOK
  <2>4. \A y \in Exports : StagesOf(y)'
    <3>1. \A y \in Exports : y # x => StagesOf(y)'
      BY <1>0, <2>1, <2>3, StageUntouched DEF ExportInv
    <3>2. StagesOf(x)'
      BY <1>0, <2>1, <2>2 DEF StagesOf
    <3> QED
      BY <3>1, <3>2
  <2>5. \A q \in Purgers \ {p} : PurgeOf(q)'
    BY <1>0, <1>1, <2>1, PurgeUntouched DEF ExportInv
  <2>6. PurgeOf(p)'
    BY <1>0, <2>1 DEF ExportInv, PurgeOf
  <2>7. ASSUME NEW y \in Exports \ disturbed'
        PROVE  KeptOf(y)'
    <3>1. KeptOf(y)
      BY <1>0 DEF ExportInv
    <3>2. y = x => files'[y] = "NONE"
      BY <2>0 DEF Typed, TypeOK
    <3>3. files[y] = "NONE" => files'[y] = "NONE"
      BY <2>3, <3>2
    <3>4. \A q \in Purgers :
             /\ purges'[q] # None <=> purges[q] # None
             /\ purges'[q].at = purges[q].at
             /\ y \in purges[q].paths /\ y # x => y \in purges'[q].paths
      BY <1>1, <2>1
    <3> QED
      BY <1>0, <2>1, <2>3, <3>1, <3>2, <3>3, <3>4 DEF KeptOf, Working
  <2> QED
    BY <2>4, <2>5, <2>6, <2>7 DEF ExportInv
<1>7. CASE DeleteExpired(p)
  <2>1. /\ files' = files /\ disturbed' = disturbed /\ purges'[p] = None
        /\ purges[p] # None /\ purges[p].paths = {}
    BY <1>7 DEF DeleteExpired, Typed, TypeOK
  <2>2. \A x \in Exports :
           exports'[x] = IF exports[x] # None /\ Expired(exports[x], purges[p].at)
                         THEN None ELSE exports[x]
    BY <1>7 DEF DeleteExpired
  <2>3. \A x \in Exports : StagesOf(x)'
    <3>1. \A x \in Exports : generations[x] = "NEW" => exports[x] = None
      BY DEF ExportInv, StagesOf
    <3> QED
      BY <1>0, <2>1, <2>2, <3>1 DEF ExportInv, StagesOf
  <2>4. \A q \in Purgers \ {p} : PurgeOf(q)'
    BY <1>0, <1>1, <2>2, PurgeUntouched DEF ExportInv
  <2>5. PurgeOf(p)'
    BY <2>1 DEF PurgeOf
  <2>6. ASSUME NEW x \in Exports \ disturbed
        PROVE  KeptOf(x)'
    <3>1. KeptOf(x)
      BY DEF ExportInv
    <3>2. ~Working(x) /\ exports[x] # None /\ Expired(exports[x], purges[p].at) => files[x] = "NONE"
      BY <2>1, <3>1 DEF KeptOf, Expired
    <3> QED
      BY <1>0, <1>1, <2>1, <2>2, <3>1, <3>2 DEF KeptOf, Working
  <2> QED
    BY <2>1, <2>3, <2>4, <2>5, <2>6 DEF ExportInv
<1> QED
    BY <1>5, <1>6, <1>7

\* Every step keeps them.
LEMMA StepExport == Typed /\ ExportInv /\ [Next]_vars => ExportInv'
<1> SUFFICES ASSUME Typed, ExportInv, [Next]_vars PROVE ExportInv'
    OBVIOUS
<1>1. ASSUME UNCHANGED exportVars, now' \in {now, now + 1}, disturbed \subseteq disturbed'
      PROVE  ExportInv'
  <2>1. \A x \in Exports : StagesOf(x)'
    BY <1>1, StageUntouched DEF ExportInv, exportVars
  <2>2. \A p \in Purgers : PurgeOf(p)'
    BY <1>1, PurgeUntouched DEF ExportInv, exportVars
  <2>3. \A x \in Exports \ disturbed' : KeptOf(x)'
    BY <1>1 DEF ExportInv, exportVars, KeptOf, Working
  <2> QED
    BY <2>1, <2>2, <2>3 DEF ExportInv
<1>2. CASE \E n \in Notifications : Notify(n) \/ Deliver(n) \/ RecordAttempt(n) \/ Dismiss(n)
    BY <1>1, <1>2 DEF Notify, Deliver, RecordAttempt, Dismiss
<1>3. CASE PurgeAttempts \/ Tick \/ UNCHANGED vars
    BY <1>1, <1>3 DEF PurgeAttempts, Tick, vars
<1>4. CASE Crash
  <2>1. /\ exports' = exports /\ files' = files /\ now' = now
        /\ \A x \in Exports : generations'[x] = IF Working(x) THEN "FAILED" ELSE generations[x]
        /\ \A x \in Exports : Working(x) => x \in disturbed'
        /\ \A p \in Purgers : purges'[p] = None
        /\ disturbed \subseteq disturbed'
    BY <1>4 DEF Crash
  <2>2. \A x \in Exports : StagesOf(x)'
    BY <2>1 DEF ExportInv, StagesOf, Working
  <2>3. \A p \in Purgers : PurgeOf(p)'
    BY <2>1 DEF PurgeOf
  <2>4. \A x \in Exports \ disturbed' : KeptOf(x)'
    BY <2>1 DEF ExportInv, KeptOf, Working
  <2> QED
    BY <2>2, <2>3, <2>4 DEF ExportInv
<1> QED
    BY <1>2, <1>3, <1>4, StepGeneration, StepPurge DEF Next

\* The initial states.
LEMMA InitExport == Init => ExportInv
    BY DEF Init, ExportInv, StagesOf, PurgeOf, KeptOf, Working

\* Whoever downloads an export that is offered gets a complete file, for every
\* number of purges beside its generation (findExportForDownload,
\* purgeExpiredExports).
THEOREM OfferedIsComplete == Spec => []DownloadsHaveFiles
<1>1. Typed /\ ExportInv => DownloadsHaveFiles
    BY DEF ExportInv, StagesOf, DownloadsHaveFiles, Downloadable
<1> QED
    BY <1>1, TypeCorrect, InitExport, StepExport, PTL DEF Spec

\* No file outlives its row, unless a fault or a generation longer than the
\* lifetime disturbed it (createUserExport, purgeExpiredExports).
THEOREM NoFileIsLeft == Spec => []FilesGoWithRows
<1>1. ExportInv => FilesGoWithRows
    BY DEF ExportInv, KeptOf, FilesGoWithRows
<1> QED
    BY <1>1, TypeCorrect, InitExport, StepExport, PTL DEF Spec
=============================================================================
