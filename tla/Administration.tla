--------------------------- MODULE Administration ---------------------------
(***************************************************************************)
(* The administration of an organisation: employees and their employment,  *)
(* effective-dated manager and team assignments, accounts, roles and       *)
(* invitations.                                                            *)
(*                                                                         *)
(* Every command is a serializable transaction that decides from its       *)
(* snapshot and with the date of its request.  Such transactions take      *)
(* effect one after the other: a commit refreshes the snapshots of the     *)
(* open ones, which are rerun, while their date stays what it was.         *)
(*                                                                         *)
(* An employee's account has the employee's identity.  Passwords are left  *)
(* out, and so are sessions: each command ends those of the account it     *)
(* changes, and every request reads roles and activity anew.  One step of  *)
(* the clock is a day, the lifetime of an invitation.                      *)
(***************************************************************************)
EXTENDS Integers, FiniteSets, FiniteSetsExt

CONSTANTS
    Employees,     \* identities of employees and of their accounts
    Technicals,    \* identities of accounts without an employee
    Teams,         \* identities of teams
    Transactions,  \* commands that may be open at a time
    LastDate,      \* bound: dates are 1..LastDate
    MaxIssued,     \* bound: invitations that are issued
    InitialRoles,  \* roles of the accounts at the start
    Scenarios,     \* bound: the accounts at the start, operations and dates of one behaviour
    None

Accounts == Employees \cup Technicals
Roles == {"MANAGER", "HR_ADMINISTRATOR", "SYSTEM_ADMINISTRATOR"}
HR_ROLES == Roles \ {"SYSTEM_ADMINISTRATOR"}

Operations == {"MANAGER", "TEAM", "CREATE", "EMPLOYMENT", "INVITATION", "ROLE", "SYSTEM"}

Dates == 1..LastDate
Forever == LastDate + 1  \* endsOn is null

Assignments(Targets) == [target : Targets, startsOn : Dates, endsOn : Dates \cup {Forever}]
Periods == [startsOn : Dates, endsOn : Dates \cup {Forever}]
Invitations == [account : Accounts, token : Nat, expiresOn : Nat]

ASSUME AdministrationAssumption ==
    /\ Employees \cap Technicals = {}
    /\ LastDate \in Nat \ {0}
    /\ MaxIssued \in Nat
    /\ InitialRoles \in [Accounts -> SUBSET Roles]
    /\ Scenarios \subseteq [accounts : SUBSET Accounts, operations : SUBSET Operations, until : Dates]
    /\ \A s \in Scenarios : \E a \in s.accounts : "SYSTEM_ADMINISTRATOR" \in InitialRoles[a]
    /\ None \notin Accounts \cup Teams

VARIABLES
    today,     \* the organisation's local date
    org,       \* the tables
    snapshot,  \* per open command, the date of its request and the tables it sees
    scenario   \* what this behaviour is about

vars == <<today, org, snapshot, scenario>>

Organizations ==
    [status : [Employees -> {"ABSENT", "ACTIVE", "INACTIVE"}],  \* employees
     periods : [Employees -> SUBSET Periods],                   \* employment_periods
     managers : [Employees -> SUBSET Assignments(Employees)],   \* manager_assignments
     members : [Employees -> SUBSET Assignments(Teams)],        \* team_assignments
     teams : [Teams -> {"ABSENT", "ACTIVE", "INACTIVE"}],       \* teams
     accounts : SUBSET Accounts,                                \* auth_users
     active : [Accounts -> BOOLEAN],                            \* auth_users.active
     roles : [Accounts -> SUBSET Roles],                        \* account_role_assignments
     invitations : SUBSET Invitations,                          \* auth_verifications
     issued : Nat]                                              \* tokens drawn so far

Init ==
    /\ today = 1
    /\ scenario \in Scenarios
    /\ LET present == scenario.accounts
       IN  org = [status |-> [e \in Employees |-> IF e \in present THEN "ACTIVE" ELSE "ABSENT"],
                  periods |-> [e \in Employees |->
                                 IF e \in present THEN {[startsOn |-> 1, endsOn |-> Forever]} ELSE {}],
                  managers |-> [e \in Employees |-> {}],
                  members |-> [e \in Employees |-> {}],
                  teams |-> [t \in Teams |-> "ABSENT"],
                  accounts |-> present,
                  active |-> [a \in Accounts |-> a \in present],
                  roles |-> [a \in Accounts |-> IF a \in present THEN InitialRoles[a] ELSE {}],
                  invitations |-> {},
                  issued |-> 0]
    /\ snapshot = [x \in Transactions |-> None]

-----------------------------------------------------------------------------
(* Transactions *)

Begin(x) ==
    /\ snapshot[x] = None
    /\ snapshot' = [snapshot EXCEPT ![x] = [at |-> today, org |-> org]]
    /\ UNCHANGED <<today, org, scenario>>

\* The command is refused, or its reruns are used up.
Fail(x) ==
    /\ snapshot[x] # None
    /\ snapshot' = [snapshot EXCEPT ![x] = None]
    /\ UNCHANGED <<today, org, scenario>>

\* Variant: nothing is rerun, as at a weaker isolation level.
KeepSnapshots(x, next) == [snapshot EXCEPT ![x] = None]

\* The commands that this commit overtakes are rerun with the date they have.
Rerun(x, next) ==
    [y \in Transactions |->
        IF y = x \/ snapshot[y] = None THEN None ELSE [snapshot[y] EXCEPT !.org = next]]

Commit(x, next) ==
    /\ org' = next
    /\ snapshot' = Rerun(x, next)
    /\ UNCHANGED <<today, scenario>>

\* x runs a command of this kind.
Running(x, operation) == snapshot[x] # None /\ operation \in scenario.operations

\* Some HR administrator may administer this account: another one; None for any.
HrOver(o, a) == \E by \in Accounts \ {a} : o.active[by] /\ "HR_ADMINISTRATOR" \in o.roles[by]

SystemAdministrator(o, a) == o.active[a] /\ "SYSTEM_ADMINISTRATOR" \in o.roles[a]

SystemOver(o, a) == \E by \in Accounts \ {a} : SystemAdministrator(o, by)

-----------------------------------------------------------------------------
(* Effective-dated assignments *)

Contains(range, d) == range.startsOn <= d /\ d < range.endsOn

\* Variant: an assignment may start in the past.
PlannableAnytime(history, at, from, target) ==
    /\ \A a \in history : a.startsOn # from
    /\ IF target = None THEN \E a \in history : Contains(a, from)
                        ELSE \A a \in history : Contains(a, from) => a.target # target

\* planEffectiveAssignmentTransition: not in the past, not on the date another
\* assignment starts, and something changes.
Plannable(history, at, from, target) ==
    /\ from >= at
    /\ \A a \in history : a.startsOn # from
    /\ IF target = None THEN \E a \in history : Contains(a, from)
                        ELSE \A a \in history : Contains(a, from) => a.target # target

\* validSubjectHistory: one assignment at a time.
HistoryValid(history) ==
    \A a \in history :
        /\ a.startsOn < a.endsOn
        /\ \A b \in history \ {a} : a.endsOn <= b.startsOn \/ b.endsOn <= a.startsOn

\* Variant: assignments planned for later are not looked at.
ReplacedForGood(history, from, target) ==
    {IF Contains(a, from) THEN [a EXCEPT !.endsOn = from] ELSE a : a \in history}
        \cup IF target = None THEN {}
             ELSE {[target |-> target, startsOn |-> from, endsOn |-> Forever]}

\* The current assignment is closed; the new one, if any, lasts until the next.
Replaced(history, from, target) ==
    LET later == {a.startsOn : a \in {b \in history : b.startsOn > from}}
        end == IF later = {} THEN Forever ELSE Min(later)
    IN  {IF Contains(a, from) THEN [a EXCEPT !.endsOn = from] ELSE a : a \in history}
            \cup IF target = None THEN {}
                 ELSE {[target |-> target, startsOn |-> from, endsOn |-> end]}

\* Some employees who all report to one another on this date.
Cyclic(managers, d) ==
    \E S \in SUBSET Employees :
        /\ S # {}
        /\ \A e \in S : \E a \in managers[e] : Contains(a, d) /\ a.target \in S

Boundaries(managers) == {a.startsOn : a \in UNION {managers[e] : e \in Employees}}

\* Variant: the graph of the first date of the change only.
GraphValidOn(managers, from) == ~Cyclic(managers, from)

\* validateManagerAssignmentGraph: it looks at the dates something starts on.
GraphValid(managers, from) == \A d \in Boundaries(managers) : ~Cyclic(managers, d)

\* Who may become a manager on a date.
Eligible(o, m, from) ==
    /\ o.status[m] = "ACTIVE"
    /\ \E p \in o.periods[m] : Contains(p, from)
    /\ o.active[m]
    /\ "MANAGER" \in o.roles[m]

ReplaceManager(x, e, from, target) ==
    LET o == snapshot[x].org
        next == Replaced(org.managers[e], from, target)
    IN  /\ Running(x, "MANAGER")
        /\ HrOver(o, e)
        /\ o.status[e] = "ACTIVE"
        /\ Plannable(o.managers[e], snapshot[x].at, from, target)
        /\ target # None => target # e /\ Eligible(o, target, from)
        /\ GraphValid([o.managers EXCEPT ![e] = next], from)
        /\ Commit(x, [org EXCEPT !.managers[e] = next])

ReplaceTeam(x, e, from, target) ==
    LET o == snapshot[x].org
    IN  /\ Running(x, "TEAM")
        /\ HrOver(o, e)
        /\ o.status[e] = "ACTIVE"
        /\ Plannable(o.members[e], snapshot[x].at, from, target)
        /\ target # None => o.teams[target] = "ACTIVE"
        /\ Commit(x, [org EXCEPT !.members[e] = Replaced(@, from, target)])

CreateTeam(x, t) ==
    /\ Running(x, "TEAM")
    /\ HrOver(snapshot[x].org, None)
    /\ snapshot[x].org.teams[t] = "ABSENT"
    /\ Commit(x, [org EXCEPT !.teams[t] = "ACTIVE"])

\* Variant: assignments that end at some time do not count.
ClosableUnlessPermanent(o, t, at) ==
    \A e \in Employees : \A a \in o.members[e] : a.target = t => a.endsOn # Forever

\* A team closes when none of its assignments ends later than today.
Closable(o, t, at) ==
    \A e \in Employees : \A a \in o.members[e] : a.target = t => a.endsOn <= at

SetTeamState(x, t, state) ==
    LET o == snapshot[x].org
    IN  /\ Running(x, "TEAM")
        /\ HrOver(o, None)
        /\ o.teams[t] \in {"ACTIVE", "INACTIVE"} \ {state}
        /\ state = "INACTIVE" => Closable(o, t, snapshot[x].at)
        /\ Commit(x, [org EXCEPT !.teams[t] = state])

-----------------------------------------------------------------------------
(* Employees, accounts and invitations *)

Expired(i, at) == i.expiresOn <= at

\* Invitations of other accounts, and a new one of this account.
Invited(o, kept, a, at) ==
    [o EXCEPT !.issued = @ + 1,
              !.invitations = kept \cup {[account |-> a, token |-> o.issued + 1,
                                          expiresOn |-> at + 1]}]

Uninvited(o, a) == {i \in o.invitations : i.account # a}

\* The invitation is sent after the commit; when that fails it is only logged,
\* and the token is lost.
CreateEmployee(x, e, startsOn, roles) ==
    LET o == snapshot[x].org
    IN  /\ Running(x, "CREATE")
        /\ HrOver(o, None)
        /\ o.status[e] = "ABSENT"
        /\ o.issued < MaxIssued
        /\ Commit(x, [Invited(org, org.invitations, e, snapshot[x].at)
                        EXCEPT !.accounts = @ \cup {e},
                               !.status[e] = "ACTIVE",
                               !.periods[e] = {[startsOn |-> startsOn, endsOn |-> Forever]},
                               !.roles[e] = roles])

\* The exclusion constraint of the employment periods refuses an overlap.
ActivateEmployee(x, e, startsOn) ==
    LET o == snapshot[x].org
    IN  /\ Running(x, "EMPLOYMENT")
        /\ HrOver(o, e)
        /\ o.status[e] = "INACTIVE"
        /\ \A p \in o.periods[e] : p.endsOn <= startsOn
        /\ Commit(x, [org EXCEPT !.status[e] = "ACTIVE",
                                 !.periods[e] = @ \cup {[startsOn |-> startsOn, endsOn |-> Forever]},
                                 !.active[e] = TRUE])

\* Variant: the invitation of a deactivated employee stays open.
DeactivateKeepingInvitation(x, e, endsOn) ==
    /\ Running(x, "EMPLOYMENT")
    /\ HrOver(snapshot[x].org, e)
    /\ snapshot[x].org.status[e] = "ACTIVE"
    /\ \E p \in snapshot[x].org.periods[e] :
          /\ p.endsOn = Forever
          /\ p.startsOn < endsOn
          /\ Commit(x, [org EXCEPT !.status[e] = "INACTIVE",
                                   !.periods[e] = (@ \ {p}) \cup {[p EXCEPT !.endsOn = endsOn]},
                                   !.active[e] = FALSE])

\* Assignments are left as they are, as manager of others too.
DeactivateEmployee(x, e, endsOn) ==
    LET o == snapshot[x].org
    IN  /\ Running(x, "EMPLOYMENT")
        /\ HrOver(o, e)
        /\ o.status[e] = "ACTIVE"
        /\ \E p \in o.periods[e] :
              /\ p.endsOn = Forever
              /\ p.startsOn < endsOn
              /\ Commit(x, [org EXCEPT !.status[e] = "INACTIVE",
                                       !.periods[e] = (@ \ {p}) \cup {[p EXCEPT !.endsOn = endsOn]},
                                       !.active[e] = FALSE,
                                       !.invitations = Uninvited(org, e)])

ReissueInvitation(x, e) ==
    LET o == snapshot[x].org
    IN  /\ Running(x, "INVITATION")
        /\ HrOver(o, e)
        /\ o.status[e] = "ACTIVE"
        /\ ~o.active[e]
        /\ o.issued < MaxIssued
        /\ Commit(x, Invited(org, Uninvited(org, e), e, snapshot[x].at))

\* The invitee opens the link in time and chooses a password.
ActivateInvitation(x, i) ==
    LET o == snapshot[x].org
        a == i.account
    IN  /\ Running(x, "INVITATION")
        /\ i \in o.invitations
        /\ ~Expired(i, snapshot[x].at)
        /\ ~o.active[a]
        /\ IF a \in Employees THEN o.status[a] = "ACTIVE" ELSE o.roles[a] # {}
        /\ Commit(x, [org EXCEPT !.active[a] = TRUE, !.invitations = @ \ {i}])

ReplaceRoles(x, e, roles) ==
    LET o == snapshot[x].org
    IN  /\ Running(x, "ROLE")
        /\ HrOver(o, e)
        /\ o.status[e] # "ABSENT"
        /\ Commit(x, [org EXCEPT !.roles[e] = roles \cup (@ \ HR_ROLES)])

CreateTechnicalAccount(x, a) ==
    LET o == snapshot[x].org
    IN  /\ Running(x, "SYSTEM")
        /\ SystemOver(o, a)
        /\ a \notin o.accounts
        /\ o.issued < MaxIssued
        /\ Commit(x, [Invited(org, org.invitations, a, snapshot[x].at)
                        EXCEPT !.accounts = @ \cup {a}, !.roles[a] = {"SYSTEM_ADMINISTRATOR"}])

Activatable(o, a, at) ==
    /\ \A i \in o.invitations : i.account = a => Expired(i, at)
    /\ a \in Employees => o.status[a] = "ACTIVE"

SetAccountState(x, a, active) ==
    LET o == snapshot[x].org
    IN  /\ Running(x, "SYSTEM")
        /\ SystemOver(o, a)
        /\ a \in o.accounts
        /\ o.active[a] # active
        /\ active => Activatable(o, a, snapshot[x].at)
        /\ Commit(x, [org EXCEPT !.active[a] = active,
                                 !.invitations = IF active THEN @ ELSE Uninvited(org, a)])

SetSystemRole(x, a, enabled) ==
    LET o == snapshot[x].org
    IN  /\ Running(x, "SYSTEM")
        /\ SystemOver(o, a)
        /\ a \in o.accounts
        /\ enabled # ("SYSTEM_ADMINISTRATOR" \in o.roles[a])
        /\ Commit(x, [org EXCEPT !.roles[a] = IF enabled THEN @ \cup {"SYSTEM_ADMINISTRATOR"}
                                              ELSE @ \ {"SYSTEM_ADMINISTRATOR"}])

NextDay ==
    /\ today < scenario.until
    /\ today' = today + 1
    /\ UNCHANGED <<org, snapshot, scenario>>

-----------------------------------------------------------------------------
Next ==
    \/ \E x \in Transactions :
          \/ Begin(x)
          \/ Fail(x)
          \/ \E e \in Employees :
                \/ \E d \in 1..scenario.until :
                      \/ \E m \in Employees \cup {None} : ReplaceManager(x, e, d, m)
                      \/ \E t \in Teams \cup {None} : ReplaceTeam(x, e, d, t)
                      \/ \E roles \in SUBSET HR_ROLES : CreateEmployee(x, e, d, roles)
                      \/ ActivateEmployee(x, e, d)
                      \/ DeactivateEmployee(x, e, d)
                \/ ReissueInvitation(x, e)
                \/ \E roles \in SUBSET HR_ROLES : ReplaceRoles(x, e, roles)
          \/ \E t \in Teams :
                \/ CreateTeam(x, t)
                \/ \E state \in {"ACTIVE", "INACTIVE"} : SetTeamState(x, t, state)
          \/ \E a \in Technicals : CreateTechnicalAccount(x, a)
          \/ \E a \in Accounts, b \in BOOLEAN : SetAccountState(x, a, b) \/ SetSystemRole(x, a, b)
          \/ \E i \in org.invitations : ActivateInvitation(x, i)
    \/ NextDay

Spec == Init /\ [][Next]_vars

-----------------------------------------------------------------------------
(* Properties *)

\* The type invariant; an employee has one manager and one team at a time, and
\* is ACTIVE exactly as long as an employment period is open.
TypeOK ==
    /\ today \in Dates
    /\ org \in Organizations
    /\ \A x \in Transactions : snapshot[x] # None => snapshot[x].at \in 1..today
    /\ scenario \in Scenarios
    /\ \A e \in Employees :
          /\ HistoryValid(org.managers[e]) /\ HistoryValid(org.members[e])
          /\ HistoryValid(org.periods[e])
          /\ org.status[e] = "ACTIVE" <=> \E p \in org.periods[e] : p.endsOn = Forever

\* On no date, past or planned, do employees report to one another in a circle,
\* although each reassignment looks only at dates on which some assignment
\* starts, and may run together with others that are acyclic by themselves.
NoManagementCycles == \A d \in Dates \cup {Forever} : ~Cyclic(org.managers, d)

\* An invitation that can still be used is the only one of its account, and
\* waits for an inactive account of an employee who is there: no older link,
\* and no link to an account that others (de)activated meanwhile, sets a
\* password.
InvitationsAreCurrent ==
    \A i \in org.invitations :
        ~Expired(i, today) =>
            /\ ~org.active[i.account]
            /\ i.account \in Employees => org.status[i.account] = "ACTIVE"
            /\ \A j \in org.invitations : j.account = i.account => j = i

\* Nobody is, or will be, in a team that was closed: a team is closed when it
\* has no later members, and only open teams are joined, now or on a later date.
InactiveTeamsAreEmpty ==
    \A t \in Teams : org.teams[t] = "INACTIVE" =>
        \A e \in Employees : \A a \in org.members[e] : a.target = t => a.endsOn <= today

\* The organisation keeps a system administrator, whatever administrators do
\* to one another at the same time: it can lose the last one only by ending
\* the employment of somebody who still has the role.
AdministratorRemains ==
    \E a \in Accounts :
        /\ "SYSTEM_ADMINISTRATOR" \in org.roles[a]
        /\ org.active[a] \/ (a \in Employees /\ org.status[a] = "INACTIVE")

\* The dates on which two histories differ.
TargetsOn(history, d) == {a.target : a \in {b \in history : Contains(b, d)}}
Changed(before, after) == {d \in Dates : TargetsOn(before, d) # TargetsOn(after, d)}

\* A change of manager or team leaves the dates before the command's own alone,
\* and everything from the start of the next planned assignment on.
Undisturbed(before, after) ==
    \A d1, d2 \in Changed(before, after) :
        /\ \E x \in Transactions :
              snapshot[x] # None /\ snapshot'[x] = None /\ snapshot[x].at <= d1
        /\ \A a \in before : ~(d1 <= a.startsOn /\ a.startsOn <= d2)

\* Who reported to whom, and was in which team, is never rewritten, and a plan
\* for a later date is never disturbed by a change for an earlier one.
PastAndPlansStand ==
    [][\A e \in Employees :
          /\ org'.managers[e] # org.managers[e] => Undisturbed(org.managers[e], org'.managers[e])
          /\ org'.members[e] # org.members[e] => Undisturbed(org.members[e], org'.members[e])]_vars
=============================================================================
