----------------------- MODULE Administration_proofs ------------------------
(***************************************************************************)
(* Proofs about Administration for every set of employees, accounts, teams *)
(* and transactions, and every calendar.                                   *)
(*                                                                         *)
(* Argument: a commit refreshes the snapshots of the open transactions     *)
(* (Snap), so that each command decides from the tables it changes, with   *)
(* a date that is not later than today.  Each change then keeps the        *)
(* histories free of overlaps (HistoriesInv), the graph of managers free   *)
(* of circles on the dates it can change on (GraphInv), and accounts in    *)
(* step with employees and invitations (AccountInv).                       *)
(*                                                                         *)
(* The past and the plans: a change of assignment differs from what it     *)
(* replaces between its own start and the start of the next assignment     *)
(* (ReplacedChanges), and starts no earlier than the date of its command.  *)
(***************************************************************************)
EXTENDS Administration, WellFoundedInduction, TLAPS

\* Every open transaction sees the tables as they are.
Snap ==
    /\ snapshot = [x \in Transactions |-> snapshot[x]]
    /\ \A x \in Transactions : snapshot[x] # None =>
           /\ snapshot[x] = [at |-> snapshot[x].at, org |-> org]
           /\ snapshot[x].at \in 1..today

Typed ==
    /\ today \in Dates
    /\ org \in Organizations
    /\ scenario \in Scenarios
    /\ Snap

\* An employee has one manager, one team and one employment period at a time,
\* and is ACTIVE exactly as long as a period is open.
HistoriesInv ==
    \A e \in Employees :
        /\ HistoryValid(org.managers[e]) /\ HistoryValid(org.members[e])
        /\ HistoryValid(org.periods[e])
        /\ org.status[e] = "ACTIVE" <=> \E p \in org.periods[e] : p.endsOn = Forever

\* Nobody reports in a circle on a date on which an assignment starts.
GraphInv == \A d \in Boundaries(org.managers) : ~Cyclic(org.managers, d)

\* Who is active, employed or invited has an account.
AccountInv ==
    /\ \A a \in Accounts : org.active[a] => a \in org.accounts
    /\ \A e \in Employees : org.status[e] # "ABSENT" <=> e \in org.accounts
    /\ \A i \in org.invitations : i.account \in org.accounts

IInv ==
    /\ Typed
    /\ HistoriesInv
    /\ GraphInv
    /\ AccountInv
    /\ InvitationsAreCurrent
    /\ InactiveTeamsAreEmpty
    /\ AdministratorRemains

-----------------------------------------------------------------------------
(* Lemmas about numbers, histories and graphs *)

\* A set of natural numbers has a least element.
LEMMA LeastOfNat ==
    ASSUME NEW S, S \subseteq Nat, S # {}
    PROVE  \E n \in S : \A k \in S : n <= k
<1>1. PICK n \in S : \A k \in S : ~(<<k, n>> \in OpToRel(<, Nat))
    BY NatLessThanWellFounded, WFMin
<1>2. \A k \in S : ~(k < n)
    BY <1>1 DEF OpToRel
<1> QED
    BY <1>2

\* Min is the least element of a set of natural numbers.
LEMMA MinIsLeast ==
    ASSUME NEW S, S \subseteq Nat, S # {}
    PROVE  Min(S) \in S /\ \A k \in S : Min(S) <= k
<1>1. \E n \in S : \A k \in S : n <= k
    BY LeastOfNat
<1> QED
    BY <1>1 DEF Min

\* Replacing an assignment on a date on which none starts keeps one assignment
\* at a time.
LEMMA ReplacedIsHistory ==
    ASSUME NEW Targets, NEW h \in SUBSET Assignments(Targets), HistoryValid(h),
           NEW from \in Dates, NEW target, target = None \/ target \in Targets,
           \A a \in h : a.startsOn # from
    PROVE  /\ Replaced(h, from, target) \in SUBSET Assignments(Targets)
           /\ HistoryValid(Replaced(h, from, target))
<1> USE AdministrationAssumption DEF Dates, Forever
<1> DEFINE later == {a.startsOn : a \in {b \in h : b.startsOn > from}}
           end == IF later = {} THEN Forever ELSE Min(later)
           cut(a) == IF Contains(a, from) THEN [a EXCEPT !.endsOn = from] ELSE a
           new == [target |-> target, startsOn |-> from, endsOn |-> end]
<1>1. /\ end \in Dates \cup {Forever}
      /\ end > from
      /\ \A a \in h : a.startsOn > from => end <= a.startsOn
  <2>1. later \subseteq Dates
    BY DEF Assignments
  <2>2. CASE later = {}
    <3>1. ASSUME NEW a \in h, a.startsOn > from PROVE FALSE
      <4>1. a.startsOn \in later
        BY <3>1
      <4> QED
        BY <4>1, <2>2
    <3>2. end = Forever
      BY <2>2
    <3> QED
      BY <3>1, <3>2
  <2>3. CASE later # {}
    <3>1. later \subseteq Nat
      BY <2>1
    <3>2. Min(later) \in later /\ \A k \in later : Min(later) <= k
      <4> HIDE DEF later
      <4> QED
        BY <2>3, <3>1, MinIsLeast
    <3> QED
      BY <2>1, <2>3, <3>2
  <2> QED
    BY <2>2, <2>3
<1>2. ASSUME NEW a \in h
      PROVE  /\ cut(a) \in Assignments(Targets)
             /\ cut(a).startsOn = a.startsOn
             /\ cut(a).endsOn <= a.endsOn
             /\ cut(a).startsOn < cut(a).endsOn
             /\ cut(a).endsOn <= from \/ end <= cut(a).startsOn
  <2>1. /\ a \in Assignments(Targets) /\ a.startsOn \in Dates /\ a.endsOn \in Dates \cup {Forever}
        /\ a.startsOn < a.endsOn /\ a.startsOn # from
    BY DEF HistoryValid, Assignments
  <2>2. CASE Contains(a, from)
    <3>1. /\ cut(a) \in Assignments(Targets)
          /\ cut(a).startsOn = a.startsOn /\ cut(a).endsOn = from
      BY <2>2 DEF Assignments
    <3> QED
      BY <2>1, <2>2, <3>1 DEF Contains
  <2>3. CASE ~Contains(a, from)
    BY <1>1, <2>1, <2>3 DEF Contains
  <2> QED
    BY <2>2, <2>3
<1>3. target # None => new \in Assignments(Targets)
    BY <1>1 DEF Assignments
<1>4. Replaced(h, from, target) =
         {cut(a) : a \in h} \cup IF target = None THEN {} ELSE {new}
    BY DEF Replaced
<1> HIDE DEF cut, end
<1>5. \A a, b \in h : cut(a) # cut(b) =>
         cut(a).endsOn <= cut(b).startsOn \/ cut(b).endsOn <= cut(a).startsOn
  <2> SUFFICES ASSUME NEW a \in h, NEW b \in h, cut(a) # cut(b)
               PROVE  cut(a).endsOn <= cut(b).startsOn \/ cut(b).endsOn <= cut(a).startsOn
    OBVIOUS
  <2>1. a.endsOn <= b.startsOn \/ b.endsOn <= a.startsOn
    BY DEF HistoryValid
  <2>2. /\ a.startsOn \in Int /\ a.endsOn \in Int /\ b.startsOn \in Int /\ b.endsOn \in Int
        /\ cut(a).endsOn \in Int /\ cut(b).endsOn \in Int
    BY <1>2 DEF Assignments
  <2> QED
    BY <1>2, <2>1, <2>2
<1>6. Replaced(h, from, target) \in SUBSET Assignments(Targets)
    BY <1>2, <1>3, <1>4
<1>7. HistoryValid(Replaced(h, from, target))
  <2>1. new.startsOn = from /\ new.endsOn = end
    OBVIOUS
  <2> HIDE DEF new
  <2>2. \A a \in h : new.endsOn <= cut(a).startsOn \/ cut(a).endsOn <= new.startsOn
    BY <1>2, <2>1
  <2>3. new.startsOn < new.endsOn
    BY <1>1, <2>1
  <2> QED
    BY <1>2, <1>4, <1>5, <2>2, <2>3 DEF HistoryValid
<1> QED
    BY <1>6, <1>7

\* Replacing an assignment lengthens none.
LEMMA ReplacedShortens ==
    ASSUME NEW Targets, NEW h \in SUBSET Assignments(Targets), NEW from \in Dates, NEW target
    PROVE  \A b \in Replaced(h, from, target) :
               \/ b.target = target /\ target # None
               \/ \E a \in h : a.target = b.target /\ b.endsOn <= a.endsOn
<1> DEFINE cut(a) == IF Contains(a, from) THEN [a EXCEPT !.endsOn = from] ELSE a
<1>1. ASSUME NEW a \in h
      PROVE  cut(a).target = a.target /\ cut(a).endsOn <= a.endsOn
    BY AdministrationAssumption DEF Assignments, Contains, Dates, Forever
<1>2. ASSUME NEW b \in Replaced(h, from, target)
      PROVE  (target # None /\ b.target = target) \/ \E a \in h : b = cut(a)
    BY DEF Replaced
<1> QED
    BY <1>1, <1>2

\* A circle on a date is one on the latest date, up to it, on which an
\* assignment of the circle starts.
LEMMA AcyclicOnBoundaries ==
    ASSUME NEW managers \in [Employees -> SUBSET Assignments(Employees)],
           \A d \in Boundaries(managers) : ~Cyclic(managers, d),
           NEW d \in Dates \cup {Forever}
    PROVE  ~Cyclic(managers, d)
<1> USE AdministrationAssumption DEF Dates, Forever
<1> SUFFICES ASSUME Cyclic(managers, d) PROVE FALSE
    OBVIOUS
<1>1. PICK S \in SUBSET Employees :
         /\ S # {}
         /\ \A e \in S : \E a \in managers[e] : Contains(a, d) /\ a.target \in S
    BY DEF Cyclic
<1> DEFINE edges == {a \in UNION {managers[e] : e \in S} : Contains(a, d)}
           ages == {d - a.startsOn : a \in edges}
<1>2. \A a \in edges : /\ a \in Assignments(Employees) /\ a.startsOn \in Dates
                       /\ a.endsOn \in Dates \cup {Forever}
                       /\ a.startsOn <= d /\ d < a.endsOn
    BY DEF Assignments, Contains
<1>3. ages \subseteq Nat
    BY <1>2
<1>4. ages # {}
  <2>1. edges # {}
    BY <1>1
  <2> QED
    BY <2>1
<1>5. PICK age \in ages : \A k \in ages : age <= k
    BY <1>3, <1>4, LeastOfNat
<1>6. PICK latest \in edges : age = d - latest.startsOn
    BY <1>5
<1>7. ASSUME NEW a \in edges PROVE Contains(a, latest.startsOn)
  <2>1. d - latest.startsOn <= d - a.startsOn
    BY <1>5, <1>6
  <2> QED
    BY <1>2, <1>6, <2>1 DEF Contains
<1>8. Cyclic(managers, latest.startsOn)
  <2>1. \A e \in S : \E a \in managers[e] : Contains(a, latest.startsOn) /\ a.target \in S
    BY <1>1, <1>7
  <2> QED
    BY <1>1, <2>1 DEF Cyclic
<1>9. latest.startsOn \in Boundaries(managers)
  <2>1. latest \in UNION {managers[e] : e \in Employees}
    BY <1>6
  <2> QED
    BY <2>1 DEF Boundaries
<1> QED
    BY <1>8, <1>9

-----------------------------------------------------------------------------
(* Lemmas about transactions *)

\* A running command sees the tables as they are and has a date up to today.
LEMMA RunningSees ==
    ASSUME Typed, NEW x \in Transactions, NEW operation, Running(x, operation)
    PROVE  snapshot[x].org = org /\ snapshot[x].at \in 1..today
<1>1. /\ snapshot[x] = [at |-> snapshot[x].at, org |-> org]
      /\ snapshot[x].at \in 1..today
    BY DEF Typed, Snap, Running
<1> QED
    BY <1>1

\* A commit replaces the tables and keeps the types.
LEMMA CommitTyped ==
    ASSUME Typed, NEW x \in Transactions, NEW next \in Organizations, Commit(x, next)
    PROVE  Typed' /\ org' = next /\ today' = today
<1>1. org' = next /\ today' = today /\ scenario' = scenario
    BY DEF Commit
<1>2. \A y \in Transactions :
         snapshot'[y] = IF y = x \/ snapshot[y] = None THEN None
                        ELSE [snapshot[y] EXCEPT !.org = next]
    BY DEF Commit, Rerun
<1>3. ASSUME NEW y \in Transactions, snapshot'[y] # None
      PROVE  /\ snapshot'[y] = [at |-> snapshot'[y].at, org |-> next]
             /\ snapshot'[y].at \in 1..today
  <2>1. snapshot[y] = [at |-> snapshot[y].at, org |-> org] /\ snapshot[y].at \in 1..today
    BY <1>2, <1>3 DEF Typed, Snap
  <2>2. snapshot'[y] = [snapshot[y] EXCEPT !.org = next]
    BY <1>2, <1>3
  <2>3. snapshot'[y] = [at |-> snapshot[y].at, org |-> next]
    BY <2>1, <2>2
  <2> QED
    BY <2>1, <2>3
<1>4. snapshot' = [y \in Transactions |-> snapshot'[y]]
    BY DEF Commit, Rerun
<1> QED
    BY <1>1, <1>3, <1>4 DEF Typed, Snap

\* What a step leaves alone keeps what is known of it.
LEMMA Untouched ==
    ASSUME IInv, today' = today
    PROVE  /\ org'.managers = org.managers => GraphInv'
           /\ UNCHANGED <<org.managers, org.members, org.periods, org.status>> => HistoriesInv'
           /\ UNCHANGED <<org.active, org.accounts, org.status, org.invitations>> =>
                 AccountInv' /\ InvitationsAreCurrent'
           /\ UNCHANGED <<org.teams, org.members>> => InactiveTeamsAreEmpty'
           /\ UNCHANGED <<org.roles, org.active, org.status>> => AdministratorRemains'
<1>1. org'.managers = org.managers => GraphInv'
    BY DEF IInv, GraphInv
<1>2. UNCHANGED <<org.managers, org.members, org.periods, org.status>> => HistoriesInv'
    BY DEF IInv, HistoriesInv
<1>3. UNCHANGED <<org.active, org.accounts, org.status, org.invitations>> =>
         AccountInv' /\ InvitationsAreCurrent'
    BY DEF IInv, AccountInv, InvitationsAreCurrent, Expired
<1>4. UNCHANGED <<org.teams, org.members>> => InactiveTeamsAreEmpty'
    BY DEF IInv, InactiveTeamsAreEmpty
<1>5. UNCHANGED <<org.roles, org.active, org.status>> => AdministratorRemains'
    BY DEF IInv, AdministratorRemains
<1> QED
    BY <1>1, <1>2, <1>3, <1>4, <1>5

-----------------------------------------------------------------------------
(* Each command keeps the invariant *)

\* A change of manager is checked for circles on every date something starts on.
LEMMA ReplaceManagerKeeps ==
    ASSUME IInv, NEW x \in Transactions, NEW e \in Employees, NEW from \in Dates,
           NEW target \in Employees \cup {None}, ReplaceManager(x, e, from, target)
    PROVE  IInv'
<1> DEFINE history == Replaced(org.managers[e], from, target)
           next == [org EXCEPT !.managers[e] = history]
<1>1. /\ snapshot[x].org = org
      /\ Commit(x, next)
      /\ \A a \in org.managers[e] : a.startsOn # from
      /\ GraphValid([org.managers EXCEPT ![e] = history], from)
    BY RunningSees DEF IInv, ReplaceManager, Plannable
<1>2. history \in SUBSET Assignments(Employees) /\ HistoryValid(history)
  <2>1. org.managers[e] \in SUBSET Assignments(Employees) /\ HistoryValid(org.managers[e])
    BY DEF IInv, Typed, Organizations, HistoriesInv
  <2> QED
    BY <1>1, <2>1, ReplacedIsHistory
<1> HIDE DEF history
<1>3. /\ next \in Organizations
      /\ next.managers = [org.managers EXCEPT ![e] = history]
      /\ next.members = org.members /\ next.periods = org.periods /\ next.status = org.status
      /\ next.active = org.active /\ next.accounts = org.accounts
      /\ next.invitations = org.invitations
      /\ next.teams = org.teams /\ next.roles = org.roles
    BY <1>2 DEF IInv, Typed, Organizations
<1> HIDE DEF next
<1>4. Typed' /\ org' = next /\ today' = today
    BY <1>1, <1>3, CommitTyped DEF IInv
<1>5. HistoriesInv'
    BY <1>2, <1>3, <1>4 DEF IInv, HistoriesInv, Typed, Organizations
<1>6. GraphInv'
    BY <1>1, <1>3, <1>4 DEF GraphInv, GraphValid
<1> QED
    BY <1>3, <1>4, <1>5, <1>6, Untouched DEF IInv

\* Only open teams are joined, and nobody stays longer in the one before.
LEMMA ReplaceTeamKeeps ==
    ASSUME IInv, NEW x \in Transactions, NEW e \in Employees, NEW from \in Dates,
           NEW target \in Teams \cup {None}, ReplaceTeam(x, e, from, target)
    PROVE  IInv'
<1> DEFINE history == Replaced(org.members[e], from, target)
           next == [org EXCEPT !.members[e] = history]
<1>1. /\ snapshot[x].org = org
      /\ Commit(x, next)
      /\ \A a \in org.members[e] : a.startsOn # from
      /\ target # None => org.teams[target] = "ACTIVE"
    BY RunningSees DEF IInv, ReplaceTeam, Plannable
<1>2. /\ history \in SUBSET Assignments(Teams) /\ HistoryValid(history)
      /\ org.members[e] \in SUBSET Assignments(Teams)
  <2>1. org.members[e] \in SUBSET Assignments(Teams) /\ HistoryValid(org.members[e])
    BY DEF IInv, Typed, Organizations, HistoriesInv
  <2> QED
    BY <1>1, <2>1, ReplacedIsHistory
<1>3. \A b \in history : \/ b.target = target /\ target # None
                         \/ \E a \in org.members[e] : a.target = b.target /\ b.endsOn <= a.endsOn
    BY <1>2, ReplacedShortens
<1> HIDE DEF history
<1>4. /\ next \in Organizations
      /\ next.members = [org.members EXCEPT ![e] = history]
      /\ next.managers = org.managers /\ next.periods = org.periods /\ next.status = org.status
      /\ next.active = org.active /\ next.accounts = org.accounts
      /\ next.invitations = org.invitations
      /\ next.teams = org.teams /\ next.roles = org.roles
    BY <1>2 DEF IInv, Typed, Organizations
<1> HIDE DEF next
<1>5. Typed' /\ org' = next /\ today' = today
    BY <1>1, <1>4, CommitTyped DEF IInv
<1>6. HistoriesInv'
    BY <1>2, <1>4, <1>5 DEF IInv, HistoriesInv, Typed, Organizations
<1>7. InactiveTeamsAreEmpty'
  <2> SUFFICES ASSUME NEW t \in Teams, org.teams[t] = "INACTIVE",
                      NEW e2 \in Employees, NEW b \in next.members[e2], b.target = t
               PROVE  b.endsOn <= today
    BY <1>4, <1>5 DEF InactiveTeamsAreEmpty
  <2>1. \A e3 \in Employees : \A a \in org.members[e3] : a.target = t => a.endsOn <= today
    BY DEF IInv, InactiveTeamsAreEmpty
  <2>2. CASE e2 # e
    BY <1>4, <2>1, <2>2 DEF IInv, Typed, Organizations
  <2>3. CASE e2 = e
    <3>1. b \in history
      BY <1>4, <2>3 DEF IInv, Typed, Organizations
    <3>2. PICK a \in org.members[e] : a.target = t /\ b.endsOn <= a.endsOn
      BY <1>1, <1>3, <3>1
    <3>3. a.endsOn \in Int /\ b.endsOn \in Int /\ today \in Int
      <4>1. a \in Assignments(Teams) /\ b \in Assignments(Teams) /\ today \in Dates
        BY <1>2, <3>1, <3>2 DEF IInv, Typed
      <4> QED
        BY <4>1, AdministrationAssumption DEF Assignments, Dates, Forever
    <3> QED
      BY <2>1, <3>2, <3>3
  <2> QED
    BY <2>2, <2>3
<1> QED
    BY <1>4, <1>5, <1>6, <1>7, Untouched DEF IInv

\* A team that is created has no closed predecessor.
LEMMA CreateTeamKeeps ==
    ASSUME IInv, NEW x \in Transactions, NEW t \in Teams, CreateTeam(x, t)
    PROVE  IInv'
<1> DEFINE next == [org EXCEPT !.teams[t] = "ACTIVE"]
<1>1. Commit(x, next)
    BY DEF CreateTeam
<1>2. /\ next \in Organizations
      /\ next.teams = [org.teams EXCEPT ![t] = "ACTIVE"]
      /\ next.managers = org.managers /\ next.periods = org.periods /\ next.status = org.status
      /\ next.active = org.active /\ next.accounts = org.accounts
      /\ next.invitations = org.invitations
      /\ next.members = org.members /\ next.roles = org.roles
    BY DEF IInv, Typed, Organizations
<1> HIDE DEF next
<1>3. Typed' /\ org' = next /\ today' = today
    BY <1>1, <1>2, CommitTyped DEF IInv
<1>4. InactiveTeamsAreEmpty'
    BY <1>2, <1>3 DEF IInv, Typed, Organizations, InactiveTeamsAreEmpty
<1> QED
    BY <1>2, <1>3, <1>4, Untouched DEF IInv

\* A team is closed only when nobody stays in it after today.
LEMMA SetTeamStateKeeps ==
    ASSUME IInv, NEW x \in Transactions, NEW t \in Teams, NEW state \in {"ACTIVE", "INACTIVE"},
           SetTeamState(x, t, state)
    PROVE  IInv'
<1> DEFINE next == [org EXCEPT !.teams[t] = state]
<1>1. /\ snapshot[x].org = org /\ snapshot[x].at \in 1..today
      /\ Commit(x, next)
      /\ state = "INACTIVE" => Closable(org, t, snapshot[x].at)
    BY RunningSees DEF IInv, SetTeamState
<1>2. /\ next \in Organizations
      /\ next.teams = [org.teams EXCEPT ![t] = state]
      /\ next.managers = org.managers /\ next.periods = org.periods /\ next.status = org.status
      /\ next.active = org.active /\ next.accounts = org.accounts
      /\ next.invitations = org.invitations
      /\ next.members = org.members /\ next.roles = org.roles
    BY DEF IInv, Typed, Organizations
<1> HIDE DEF next
<1>3. Typed' /\ org' = next /\ today' = today
    BY <1>1, <1>2, CommitTyped DEF IInv
<1>4. InactiveTeamsAreEmpty'
  <2> SUFFICES ASSUME NEW t2 \in Teams, next.teams[t2] = "INACTIVE",
                      NEW e \in Employees, NEW a \in org.members[e], a.target = t2
               PROVE  a.endsOn <= today
    BY <1>2, <1>3 DEF InactiveTeamsAreEmpty
  <2>1. CASE t2 # t
    BY <1>2, <2>1 DEF IInv, Typed, Organizations, InactiveTeamsAreEmpty
  <2>2. CASE t2 = t
    <3>1. Closable(org, t, snapshot[x].at)
      BY <1>1, <1>2, <2>2 DEF IInv, Typed, Organizations
    <3>2. a.endsOn <= snapshot[x].at
      BY <2>2, <3>1 DEF Closable
    <3>3. a.endsOn \in Int /\ today \in Int
      <4>1. a \in Assignments(Teams) /\ today \in Dates
        BY DEF IInv, Typed, Organizations
      <4> QED
        BY <4>1, AdministrationAssumption DEF Assignments, Dates, Forever
    <3> QED
      BY <1>1, <3>2, <3>3
  <2> QED
    BY <2>1, <2>2
<1> QED
    BY <1>2, <1>3, <1>4, Untouched DEF IInv

\* What an invitation in the tables is.
LEMMA InvitationTyped ==
    ASSUME Typed, NEW i \in org.invitations
    PROVE  i.account \in Accounts /\ i.token \in Nat /\ i.expiresOn \in Nat
    BY DEF Typed, Organizations, Invitations

\* Roles change, but not who is a system administrator.
LEMMA ReplaceRolesKeeps ==
    ASSUME IInv, NEW x \in Transactions, NEW e \in Employees, NEW roles \in SUBSET HR_ROLES,
           ReplaceRoles(x, e, roles)
    PROVE  IInv'
<1> DEFINE now == roles \cup (org.roles[e] \ HR_ROLES)
           next == [org EXCEPT !.roles[e] = now]
<1>1. Commit(x, next)
    BY DEF ReplaceRoles
<1>2. /\ now \in SUBSET Roles
      /\ "SYSTEM_ADMINISTRATOR" \in org.roles[e] => "SYSTEM_ADMINISTRATOR" \in now
    BY DEF IInv, Typed, Organizations, HR_ROLES, Roles, Accounts
<1> HIDE DEF now
<1>3. /\ next \in Organizations
      /\ next.roles = [org.roles EXCEPT ![e] = now]
      /\ next.managers = org.managers /\ next.periods = org.periods /\ next.status = org.status
      /\ next.active = org.active /\ next.accounts = org.accounts
      /\ next.invitations = org.invitations
      /\ next.members = org.members /\ next.teams = org.teams
    BY <1>2 DEF IInv, Typed, Organizations, Accounts
<1> HIDE DEF next
<1>4. Typed' /\ org' = next /\ today' = today
    BY <1>1, <1>3, CommitTyped DEF IInv
<1>5. AdministratorRemains'
    BY <1>2, <1>3, <1>4 DEF IInv, Typed, Organizations, AdministratorRemains
<1> QED
    BY <1>3, <1>4, <1>5, Untouched DEF IInv

\* Who gives or takes the system role is an administrator and stays one.
LEMMA SetSystemRoleKeeps ==
    ASSUME IInv, NEW x \in Transactions, NEW a \in Accounts, NEW enabled \in BOOLEAN,
           SetSystemRole(x, a, enabled)
    PROVE  IInv'
<1> DEFINE now == IF enabled THEN org.roles[a] \cup {"SYSTEM_ADMINISTRATOR"}
                  ELSE org.roles[a] \ {"SYSTEM_ADMINISTRATOR"}
           next == [org EXCEPT !.roles[a] = now]
<1>1. /\ snapshot[x].org = org
      /\ Commit(x, next)
      /\ SystemOver(org, a)
    BY RunningSees DEF IInv, SetSystemRole
<1>2. now \in SUBSET Roles
    BY DEF IInv, Typed, Organizations, Roles
<1> HIDE DEF now
<1>3. /\ next \in Organizations
      /\ next.roles = [org.roles EXCEPT ![a] = now]
      /\ next.managers = org.managers /\ next.periods = org.periods /\ next.status = org.status
      /\ next.active = org.active /\ next.accounts = org.accounts
      /\ next.invitations = org.invitations
      /\ next.members = org.members /\ next.teams = org.teams
    BY <1>2 DEF IInv, Typed, Organizations
<1> HIDE DEF next
<1>4. Typed' /\ org' = next /\ today' = today
    BY <1>1, <1>3, CommitTyped DEF IInv
<1>5. AdministratorRemains'
    BY <1>1, <1>3, <1>4 DEF IInv, Typed, Organizations, AdministratorRemains,
       SystemOver, SystemAdministrator
<1> QED
    BY <1>3, <1>4, <1>5, Untouched DEF IInv

\* Inviting adds one invitation and changes nothing else.
LEMMA InvitedAdds ==
    ASSUME Typed, NEW a \in Accounts, NEW kept \in SUBSET org.invitations, NEW at \in 1..today
    PROVE  LET next == Invited(org, kept, a, at)
           IN  /\ next \in Organizations
               /\ \E i \in Invitations : i.account = a /\ next.invitations = kept \cup {i}
               /\ next.managers = org.managers /\ next.members = org.members
               /\ next.periods = org.periods /\ next.status = org.status
               /\ next.active = org.active /\ next.accounts = org.accounts
               /\ next.teams = org.teams /\ next.roles = org.roles
<1> DEFINE i == [account |-> a, token |-> org.issued + 1, expiresOn |-> at + 1]
           next == [org EXCEPT !.issued = org.issued + 1, !.invitations = kept \cup {i}]
<1>1. i \in Invitations /\ i.account = a
  <2>1. org.issued + 1 \in Nat /\ at + 1 \in Nat
    BY AdministrationAssumption DEF Typed, Organizations, Dates
  <2> QED
    BY <2>1 DEF Invitations
<1> HIDE DEF i
<1>2. kept \cup {i} \in SUBSET Invitations /\ org.issued + 1 \in Nat
    BY <1>1 DEF Typed, Organizations
<1>3. /\ next \in Organizations
      /\ next.invitations = kept \cup {i}
      /\ next.managers = org.managers /\ next.members = org.members
      /\ next.periods = org.periods /\ next.status = org.status
      /\ next.active = org.active /\ next.accounts = org.accounts
      /\ next.teams = org.teams /\ next.roles = org.roles
    BY <1>2 DEF Typed, Organizations
<1>4. Invited(org, kept, a, at) = next
    BY DEF Invited, i
<1> QED
    BY <1>1, <1>3, <1>4

\* The invitation that is reissued replaces those before it.
LEMMA ReissueInvitationKeeps ==
    ASSUME IInv, NEW x \in Transactions, NEW e \in Employees, ReissueInvitation(x, e)
    PROVE  IInv'
<1> DEFINE kept == Uninvited(org, e)
           next == Invited(org, kept, e, snapshot[x].at)
<1>1. /\ snapshot[x].org = org /\ snapshot[x].at \in 1..today
      /\ Commit(x, next)
      /\ org.status[e] = "ACTIVE" /\ ~org.active[e]
    BY RunningSees DEF IInv, ReissueInvitation
<1>2. /\ e \in Accounts
      /\ kept \in SUBSET org.invitations
      /\ \A j \in kept : j.account # e
    BY DEF Accounts, Uninvited
<1> HIDE DEF kept
<1>3. PICK i \in Invitations :
         /\ next \in Organizations
         /\ i.account = e /\ next.invitations = kept \cup {i}
         /\ next.managers = org.managers /\ next.members = org.members
         /\ next.periods = org.periods /\ next.status = org.status
         /\ next.active = org.active /\ next.accounts = org.accounts
         /\ next.teams = org.teams /\ next.roles = org.roles
    BY <1>1, <1>2, InvitedAdds DEF IInv
<1> HIDE DEF next
<1>4. Typed' /\ org' = next /\ today' = today
    BY <1>1, <1>3, CommitTyped DEF IInv
<1>5. AccountInv'
    BY <1>1, <1>2, <1>3, <1>4 DEF IInv, AccountInv
<1>6. InvitationsAreCurrent'
    BY <1>1, <1>2, <1>3, <1>4 DEF IInv, InvitationsAreCurrent, Expired
<1> QED
    BY <1>3, <1>4, <1>5, <1>6, Untouched DEF IInv

\* A new account has no invitation yet.
LEMMA CreateTechnicalAccountKeeps ==
    ASSUME IInv, NEW x \in Transactions, NEW a \in Technicals, CreateTechnicalAccount(x, a)
    PROVE  IInv'
<1> DEFINE invited == Invited(org, org.invitations, a, snapshot[x].at)
           next == [invited EXCEPT !.accounts = invited.accounts \cup {a},
                                   !.roles[a] = {"SYSTEM_ADMINISTRATOR"}]
<1>1. /\ snapshot[x].org = org /\ snapshot[x].at \in 1..today
      /\ Commit(x, next)
      /\ a \notin org.accounts
    BY RunningSees DEF IInv, CreateTechnicalAccount
<1>2. a \in Accounts /\ a \notin Employees
    BY AdministrationAssumption DEF Accounts
<1>3. PICK i \in Invitations :
         /\ invited \in Organizations
         /\ i.account = a /\ invited.invitations = org.invitations \cup {i}
         /\ invited.managers = org.managers /\ invited.members = org.members
         /\ invited.periods = org.periods /\ invited.status = org.status
         /\ invited.active = org.active /\ invited.accounts = org.accounts
         /\ invited.teams = org.teams /\ invited.roles = org.roles
    BY <1>1, <1>2, InvitedAdds DEF IInv
<1> HIDE DEF invited
<1>4. /\ next \in Organizations
      /\ next.accounts = org.accounts \cup {a}
      /\ next.roles = [org.roles EXCEPT ![a] = {"SYSTEM_ADMINISTRATOR"}]
      /\ next.invitations = org.invitations \cup {i}
      /\ next.managers = org.managers /\ next.members = org.members
      /\ next.periods = org.periods /\ next.status = org.status
      /\ next.active = org.active /\ next.teams = org.teams
    BY <1>2, <1>3 DEF Organizations, Roles
<1> HIDE DEF next
<1>5. Typed' /\ org' = next /\ today' = today
    BY <1>1, <1>4, CommitTyped DEF IInv
<1>6. AccountInv'
    BY <1>1, <1>2, <1>3, <1>4, <1>5 DEF IInv, AccountInv
<1>7. InvitationsAreCurrent'
    BY <1>1, <1>2, <1>3, <1>4, <1>5
    DEF IInv, AccountInv, InvitationsAreCurrent, Expired
<1>8. AdministratorRemains'
    BY <1>1, <1>2, <1>4, <1>5 DEF IInv, AccountInv, Typed, Organizations, AdministratorRemains
<1> QED
    BY <1>4, <1>5, <1>6, <1>7, <1>8, Untouched DEF IInv

\* A new employee has no account, so no invitation yet.
LEMMA CreateEmployeeKeeps ==
    ASSUME IInv, NEW x \in Transactions, NEW e \in Employees, NEW startsOn \in Dates,
           NEW roles \in SUBSET HR_ROLES, CreateEmployee(x, e, startsOn, roles)
    PROVE  IInv'
<1> DEFINE period == [startsOn |-> startsOn, endsOn |-> Forever]
           invited == Invited(org, org.invitations, e, snapshot[x].at)
           half == [invited EXCEPT !.accounts = invited.accounts \cup {e},
                                   !.status[e] = "ACTIVE"]
           next == [half EXCEPT !.periods[e] = {period}, !.roles[e] = roles]
<1>1. /\ snapshot[x].org = org /\ snapshot[x].at \in 1..today
      /\ Commit(x, next)
      /\ org.status[e] = "ABSENT"
    BY RunningSees DEF IInv, CreateEmployee
<1>2. e \in Accounts /\ e \notin org.accounts /\ ~org.active[e]
    BY <1>1 DEF Accounts, IInv, AccountInv
<1>3. PICK i \in Invitations :
         /\ invited \in Organizations
         /\ i.account = e /\ invited.invitations = org.invitations \cup {i}
         /\ invited.managers = org.managers /\ invited.members = org.members
         /\ invited.periods = org.periods /\ invited.status = org.status
         /\ invited.active = org.active /\ invited.accounts = org.accounts
         /\ invited.teams = org.teams /\ invited.roles = org.roles
    BY <1>1, <1>2, InvitedAdds DEF IInv
<1> HIDE DEF invited
<1>4. /\ half \in Organizations
      /\ half.accounts = org.accounts \cup {e}
      /\ half.status = [org.status EXCEPT ![e] = "ACTIVE"]
      /\ half.invitations = org.invitations \cup {i}
      /\ half.managers = org.managers /\ half.members = org.members
      /\ half.periods = org.periods /\ half.roles = org.roles
      /\ half.active = org.active /\ half.teams = org.teams
    BY <1>2, <1>3 DEF Organizations
<1> HIDE DEF half
<1>5. /\ period \in Periods /\ HistoryValid({period}) /\ roles \in SUBSET Roles
      /\ period.endsOn = Forever
  <2>1. /\ startsOn \in Dates /\ Forever \in Dates \cup {Forever} /\ startsOn < Forever
    BY AdministrationAssumption DEF Dates, Forever
  <2>2. period \in Periods
    BY <2>1 DEF Periods
  <2>3. period.startsOn = startsOn /\ period.endsOn = Forever
    OBVIOUS
  <2>4. HistoryValid({period})
    BY <2>1, <2>3 DEF HistoryValid
  <2> QED
    BY <2>2, <2>3, <2>4 DEF HR_ROLES
<1> HIDE DEF period
<1>6. /\ next \in Organizations
      /\ next.periods = [org.periods EXCEPT ![e] = {period}]
      /\ next.roles = [org.roles EXCEPT ![e] = roles]
      /\ next.accounts = org.accounts \cup {e}
      /\ next.status = [org.status EXCEPT ![e] = "ACTIVE"]
      /\ next.invitations = org.invitations \cup {i}
      /\ next.managers = org.managers /\ next.members = org.members
      /\ next.active = org.active /\ next.teams = org.teams
    BY <1>2, <1>4, <1>5 DEF Organizations
<1> HIDE DEF next
<1>7. Typed' /\ org' = next /\ today' = today
    BY <1>1, <1>6, CommitTyped DEF IInv
<1>8. HistoriesInv'
  <2> SUFFICES ASSUME NEW f \in Employees
               PROVE  /\ HistoryValid(org.managers[f]) /\ HistoryValid(org.members[f])
                      /\ HistoryValid(next.periods[f])
                      /\ next.status[f] = "ACTIVE" <=> \E p \in next.periods[f] : p.endsOn = Forever
    BY <1>6, <1>7 DEF HistoriesInv
  <2>1. CASE f = e
    <3>1. next.periods[f] = {period} /\ next.status[f] = "ACTIVE"
      BY <1>6, <2>1 DEF IInv, Typed, Organizations
    <3> QED
      BY <1>5, <3>1 DEF IInv, HistoriesInv
  <2>2. CASE f # e
    <3>1. next.periods[f] = org.periods[f] /\ next.status[f] = org.status[f]
      BY <1>6, <2>2 DEF IInv, Typed, Organizations
    <3> QED
      BY <3>1 DEF IInv, HistoriesInv
  <2> QED
    BY <2>1, <2>2
<1>9. AccountInv'
    BY <1>2, <1>3, <1>6, <1>7 DEF IInv, AccountInv, Typed, Organizations
<1>10. InvitationsAreCurrent'
    BY <1>2, <1>3, <1>6, <1>7
    DEF IInv, AccountInv, InvitationsAreCurrent, Expired, Typed, Organizations
<1>11. AdministratorRemains'
    BY <1>1, <1>2, <1>6, <1>7 DEF IInv, Typed, Organizations, AdministratorRemains
<1> QED
    BY <1>6, <1>7, <1>8, <1>9, <1>10, <1>11, Untouched DEF IInv

\* An invitation is used up by the account that becomes active.
LEMMA ActivateInvitationKeeps ==
    ASSUME IInv, NEW x \in Transactions, NEW i \in org.invitations, ActivateInvitation(x, i)
    PROVE  IInv'
<1> DEFINE a == i.account
           next == [org EXCEPT !.active[a] = TRUE, !.invitations = org.invitations \ {i}]
<1>1. /\ snapshot[x].org = org /\ snapshot[x].at \in 1..today
      /\ Commit(x, next)
      /\ ~Expired(i, snapshot[x].at)
      /\ a \in Employees => org.status[a] = "ACTIVE"
      /\ a \notin Employees => org.roles[a] # {}
    BY RunningSees DEF IInv, ActivateInvitation
<1>2. a \in Accounts /\ a \in org.accounts
    BY InvitationTyped DEF IInv, AccountInv
<1>3. /\ next \in Organizations
      /\ next.active = [org.active EXCEPT ![a] = TRUE]
      /\ next.invitations = org.invitations \ {i}
      /\ next.managers = org.managers /\ next.members = org.members
      /\ next.periods = org.periods /\ next.status = org.status
      /\ next.accounts = org.accounts /\ next.teams = org.teams /\ next.roles = org.roles
    BY <1>2 DEF IInv, Typed, Organizations
<1> HIDE DEF next
<1>4. Typed' /\ org' = next /\ today' = today
    BY <1>1, <1>3, CommitTyped DEF IInv
<1>5. AccountInv'
    BY <1>2, <1>3, <1>4 DEF IInv, AccountInv, Typed, Organizations
<1>6. InvitationsAreCurrent'
  <2> SUFFICES ASSUME NEW j \in next.invitations, ~Expired(j, today)
               PROVE  /\ ~next.active[j.account]
                      /\ j.account \in Employees => org.status[j.account] = "ACTIVE"
                      /\ \A k \in next.invitations : k.account = j.account => k = j
    BY <1>3, <1>4 DEF InvitationsAreCurrent, Expired
  <2>1. /\ j \in org.invitations /\ j # i
        /\ ~org.active[j.account]
        /\ j.account \in Employees => org.status[j.account] = "ACTIVE"
        /\ \A k \in org.invitations : k.account = j.account => k = j
    BY <1>3 DEF IInv, InvitationsAreCurrent
  <2>2. j.account # a /\ j.account \in Accounts
    BY <2>1, InvitationTyped DEF IInv
  <2>3. next.active[j.account] = org.active[j.account]
    BY <1>3, <2>2 DEF IInv, Typed, Organizations
  <2> QED
    BY <1>3, <2>1, <2>3
<1>7. AdministratorRemains'
    BY <1>2, <1>3, <1>4 DEF IInv, Typed, Organizations, AdministratorRemains
<1> QED
    BY <1>3, <1>4, <1>5, <1>6, <1>7, Untouched DEF IInv

\* An account is opened when its invitations have expired, and closed without them.
LEMMA SetAccountStateKeeps ==
    ASSUME IInv, NEW x \in Transactions, NEW a \in Accounts, NEW active \in BOOLEAN,
           SetAccountState(x, a, active)
    PROVE  IInv'
<1> DEFINE kept == IF active THEN org.invitations ELSE Uninvited(org, a)
           next == [org EXCEPT !.active[a] = active, !.invitations = kept]
<1>1. /\ snapshot[x].org = org /\ snapshot[x].at \in 1..today
      /\ Commit(x, next)
      /\ SystemOver(org, a)
      /\ a \in org.accounts
      /\ active => \A i \in org.invitations : i.account = a => Expired(i, snapshot[x].at)
    BY RunningSees DEF IInv, SetAccountState, Activatable
<1>2. /\ kept \in SUBSET org.invitations
      /\ \A i \in kept : i.account = a => Expired(i, snapshot[x].at)
    BY <1>1 DEF Uninvited
<1> HIDE DEF kept
<1>3. /\ next \in Organizations
      /\ next.active = [org.active EXCEPT ![a] = active]
      /\ next.invitations = kept
      /\ next.managers = org.managers /\ next.members = org.members
      /\ next.periods = org.periods /\ next.status = org.status
      /\ next.accounts = org.accounts /\ next.teams = org.teams /\ next.roles = org.roles
    BY <1>2 DEF IInv, Typed, Organizations
<1> HIDE DEF next
<1>4. Typed' /\ org' = next /\ today' = today
    BY <1>1, <1>3, CommitTyped DEF IInv
<1>5. AccountInv'
    BY <1>1, <1>2, <1>3, <1>4 DEF IInv, AccountInv, Typed, Organizations
<1>6. InvitationsAreCurrent'
  <2> SUFFICES ASSUME NEW j \in kept, ~Expired(j, today)
               PROVE  /\ ~next.active[j.account]
                      /\ j.account \in Employees => org.status[j.account] = "ACTIVE"
                      /\ \A k \in kept : k.account = j.account => k = j
    BY <1>3, <1>4 DEF InvitationsAreCurrent, Expired
  <2>1. j.account \in Accounts /\ j.expiresOn \in Nat /\ today \in Nat
    BY <1>2, InvitationTyped, AdministrationAssumption DEF IInv, Typed, Dates
  <2>2. j.account # a
    BY <1>1, <1>2, <2>1 DEF Expired
  <2>3. next.active[j.account] = org.active[j.account]
    BY <1>3, <2>1, <2>2 DEF IInv, Typed, Organizations
  <2> QED
    BY <1>2, <2>3 DEF IInv, InvitationsAreCurrent
<1>7. AdministratorRemains'
  <2>1. PICK by \in Accounts \ {a} : SystemAdministrator(org, by)
    BY <1>1 DEF SystemOver
  <2>2. next.active[by] = org.active[by]
    BY <1>3, <2>1 DEF IInv, Typed, Organizations
  <2> QED
    BY <1>3, <1>4, <2>1, <2>2 DEF AdministratorRemains, SystemAdministrator
<1> QED
    BY <1>3, <1>4, <1>5, <1>6, <1>7, Untouched DEF IInv

\* A new employment period starts when the others have ended.
LEMMA ActivateEmployeeKeeps ==
    ASSUME IInv, NEW x \in Transactions, NEW e \in Employees, NEW startsOn \in Dates,
           ActivateEmployee(x, e, startsOn)
    PROVE  IInv'
<1> DEFINE period == [startsOn |-> startsOn, endsOn |-> Forever]
           all == org.periods[e] \cup {period}
           next == [org EXCEPT !.status[e] = "ACTIVE", !.periods[e] = all, !.active[e] = TRUE]
<1>1. /\ snapshot[x].org = org
      /\ Commit(x, next)
      /\ org.status[e] = "INACTIVE"
      /\ \A p \in org.periods[e] : p.endsOn <= startsOn
    BY RunningSees DEF IInv, ActivateEmployee
<1>2. /\ period.startsOn = startsOn /\ period.endsOn = Forever
      /\ period \in Periods
    BY DEF Periods
<1> HIDE DEF period
<1>3. all \in SUBSET Periods /\ HistoryValid(all)
  <2>1. org.periods[e] \in SUBSET Periods /\ HistoryValid(org.periods[e])
    BY DEF IInv, Typed, Organizations, HistoriesInv
  <2>2. period.startsOn < period.endsOn
    BY <1>2, AdministrationAssumption DEF Dates, Forever
  <2> QED
    BY <1>1, <1>2, <2>1, <2>2 DEF HistoryValid
<1>4. \E p \in all : p.endsOn = Forever
    BY <1>2
<1> HIDE DEF all
<1>5. e \in Accounts /\ e \in org.accounts
    BY <1>1 DEF Accounts, IInv, AccountInv
<1>6. /\ next \in Organizations
      /\ next.status = [org.status EXCEPT ![e] = "ACTIVE"]
      /\ next.periods = [org.periods EXCEPT ![e] = all]
      /\ next.active = [org.active EXCEPT ![e] = TRUE]
      /\ next.managers = org.managers /\ next.members = org.members
      /\ next.invitations = org.invitations
      /\ next.accounts = org.accounts /\ next.teams = org.teams /\ next.roles = org.roles
    BY <1>3, <1>5 DEF IInv, Typed, Organizations
<1> HIDE DEF next
<1>7. Typed' /\ org' = next /\ today' = today
    BY <1>1, <1>6, CommitTyped DEF IInv
<1>8. HistoriesInv'
  <2> SUFFICES ASSUME NEW f \in Employees
               PROVE  /\ HistoryValid(org.managers[f]) /\ HistoryValid(org.members[f])
                      /\ HistoryValid(next.periods[f])
                      /\ next.status[f] = "ACTIVE" <=> \E p \in next.periods[f] : p.endsOn = Forever
    BY <1>6, <1>7 DEF HistoriesInv
  <2>1. CASE f = e
    <3>1. next.periods[f] = all /\ next.status[f] = "ACTIVE"
      BY <1>6, <2>1 DEF IInv, Typed, Organizations
    <3> QED
      BY <1>3, <1>4, <3>1 DEF IInv, HistoriesInv
  <2>2. CASE f # e
    <3>1. next.periods[f] = org.periods[f] /\ next.status[f] = org.status[f]
      BY <1>6, <2>2 DEF IInv, Typed, Organizations
    <3> QED
      BY <3>1 DEF IInv, HistoriesInv
  <2> QED
    BY <2>1, <2>2
<1>9. AccountInv'
    BY <1>5, <1>6, <1>7 DEF IInv, AccountInv, Typed, Organizations
<1>10. InvitationsAreCurrent'
  <2> SUFFICES ASSUME NEW j \in org.invitations, ~Expired(j, today)
               PROVE  /\ ~next.active[j.account]
                      /\ j.account \in Employees => next.status[j.account] = "ACTIVE"
                      /\ \A k \in org.invitations : k.account = j.account => k = j
    BY <1>6, <1>7 DEF InvitationsAreCurrent, Expired
  <2>1. /\ ~org.active[j.account]
        /\ j.account \in Employees => org.status[j.account] = "ACTIVE"
        /\ \A k \in org.invitations : k.account = j.account => k = j
    BY DEF IInv, InvitationsAreCurrent
  <2>2. j.account # e /\ j.account \in Accounts
    BY <1>1, <2>1, InvitationTyped DEF IInv
  <2>3. /\ next.active[j.account] = org.active[j.account]
        /\ j.account \in Employees => next.status[j.account] = org.status[j.account]
    BY <1>6, <2>2 DEF IInv, Typed, Organizations
  <2> QED
    BY <2>1, <2>3
<1>11. AdministratorRemains'
    BY <1>5, <1>6, <1>7 DEF IInv, Typed, Organizations, AdministratorRemains
<1> QED
    BY <1>6, <1>7, <1>8, <1>9, <1>10, <1>11, Untouched DEF IInv

\* The open employment period, which is the last, is closed, with the account.
LEMMA DeactivateEmployeeKeeps ==
    ASSUME IInv, NEW x \in Transactions, NEW e \in Employees, NEW endsOn \in Dates,
           DeactivateEmployee(x, e, endsOn)
    PROVE  IInv'
<1>1. snapshot[x].org = org /\ org.status[e] = "ACTIVE"
    BY RunningSees DEF IInv, DeactivateEmployee
<1>2. PICK p \in org.periods[e] :
         /\ p.endsOn = Forever
         /\ p.startsOn < endsOn
         /\ Commit(x, [org EXCEPT !.status[e] = "INACTIVE",
                                  !.periods[e] = (org.periods[e] \ {p}) \cup {[p EXCEPT !.endsOn = endsOn]},
                                  !.active[e] = FALSE,
                                  !.invitations = Uninvited(org, e)])
    BY <1>1 DEF DeactivateEmployee
<1> DEFINE closed == [p EXCEPT !.endsOn = endsOn]
           all == (org.periods[e] \ {p}) \cup {closed}
           kept == Uninvited(org, e)
           half == [org EXCEPT !.status[e] = "INACTIVE", !.periods[e] = all]
           next == [half EXCEPT !.active[e] = FALSE, !.invitations = kept]
<1>3. Commit(x, next)
    BY <1>2
<1>4. org.periods[e] \in SUBSET Periods /\ HistoryValid(org.periods[e])
    BY DEF IInv, Typed, Organizations, HistoriesInv
<1>5. /\ p \in Periods /\ closed \in Periods
      /\ closed.startsOn = p.startsOn /\ closed.endsOn = endsOn
    BY <1>4 DEF Periods
<1> HIDE DEF closed
<1>6. /\ endsOn < p.endsOn
      /\ \A q \in org.periods[e] : q.startsOn \in Int /\ q.endsOn \in Int /\ q.startsOn < q.endsOn
      /\ endsOn \in Int
  <2>1. \A q \in org.periods[e] : q.startsOn \in Dates /\ q.endsOn \in Dates \cup {Forever}
    BY <1>4 DEF Periods
  <2> QED
    BY <1>2, <1>4, <2>1, AdministrationAssumption DEF HistoryValid, Dates, Forever
<1>7. \A q \in org.periods[e] \ {p} : q.endsOn <= p.startsOn
  <2> SUFFICES ASSUME NEW q \in org.periods[e] \ {p}
               PROVE  q.endsOn <= p.startsOn
    OBVIOUS
  <2>1. q.endsOn <= p.startsOn \/ p.endsOn <= q.startsOn
    BY <1>4 DEF HistoryValid
  <2>2. q.endsOn <= Forever
    BY <1>4, AdministrationAssumption DEF Periods, Dates, Forever
  <2> QED
    BY <1>2, <1>6, <2>1, <2>2
<1>8. all \in SUBSET Periods /\ HistoryValid(all)
  <2>1. closed.startsOn < closed.endsOn
    BY <1>2, <1>5
  <2> QED
    BY <1>4, <1>5, <1>7, <2>1 DEF HistoryValid
<1>9. ~\E q \in all : q.endsOn = Forever
  <2>1. closed.endsOn # Forever
    BY <1>2, <1>5, <1>6
  <2>2. \A q \in org.periods[e] \ {p} : q.endsOn # Forever
    BY <1>2, <1>6, <1>7
  <2> QED
    BY <2>1, <2>2
<1> HIDE DEF all
<1>10. /\ kept \in SUBSET org.invitations
       /\ \A i \in kept : i.account # e
    BY DEF Uninvited
<1> HIDE DEF kept
<1>11. e \in Accounts /\ e \in org.accounts
    BY <1>1 DEF Accounts, IInv, AccountInv
<1>12. /\ half \in Organizations
       /\ half.status = [org.status EXCEPT ![e] = "INACTIVE"]
       /\ half.periods = [org.periods EXCEPT ![e] = all]
       /\ half.active = org.active
       /\ half.managers = org.managers /\ half.members = org.members
       /\ half.invitations = org.invitations
       /\ half.accounts = org.accounts /\ half.teams = org.teams /\ half.roles = org.roles
    BY <1>8 DEF IInv, Typed, Organizations
<1> HIDE DEF half
<1>13. /\ next \in Organizations
       /\ next.status = [org.status EXCEPT ![e] = "INACTIVE"]
       /\ next.periods = [org.periods EXCEPT ![e] = all]
       /\ next.active = [org.active EXCEPT ![e] = FALSE]
       /\ next.invitations = kept
       /\ next.managers = org.managers /\ next.members = org.members
       /\ next.accounts = org.accounts /\ next.teams = org.teams /\ next.roles = org.roles
  <2>1. kept \in SUBSET Invitations
    BY <1>10 DEF IInv, Typed, Organizations
  <2> QED
    BY <1>11, <1>12, <2>1 DEF Organizations
<1> HIDE DEF next
<1>14. Typed' /\ org' = next /\ today' = today
    BY <1>3, <1>13, CommitTyped DEF IInv
<1>15. HistoriesInv'
  <2> SUFFICES ASSUME NEW f \in Employees
               PROVE  /\ HistoryValid(org.managers[f]) /\ HistoryValid(org.members[f])
                      /\ HistoryValid(next.periods[f])
                      /\ next.status[f] = "ACTIVE" <=> \E q \in next.periods[f] : q.endsOn = Forever
    BY <1>13, <1>14 DEF HistoriesInv
  <2>1. CASE f = e
    <3>1. next.periods[f] = all /\ next.status[f] = "INACTIVE"
      BY <1>13, <2>1 DEF IInv, Typed, Organizations
    <3> QED
      BY <1>8, <1>9, <3>1 DEF IInv, HistoriesInv
  <2>2. CASE f # e
    <3>1. next.periods[f] = org.periods[f] /\ next.status[f] = org.status[f]
      BY <1>13, <2>2 DEF IInv, Typed, Organizations
    <3> QED
      BY <3>1 DEF IInv, HistoriesInv
  <2> QED
    BY <2>1, <2>2
<1>16. AccountInv'
    BY <1>10, <1>11, <1>13, <1>14 DEF IInv, AccountInv, Typed, Organizations
<1>17. InvitationsAreCurrent'
  <2> SUFFICES ASSUME NEW j \in kept, ~Expired(j, today)
               PROVE  /\ ~next.active[j.account]
                      /\ j.account \in Employees => next.status[j.account] = "ACTIVE"
                      /\ \A k \in kept : k.account = j.account => k = j
    BY <1>13, <1>14 DEF InvitationsAreCurrent, Expired
  <2>1. /\ ~org.active[j.account]
        /\ j.account \in Employees => org.status[j.account] = "ACTIVE"
        /\ \A k \in kept : k.account = j.account => k = j
    BY <1>10 DEF IInv, InvitationsAreCurrent
  <2>2. j.account # e /\ j.account \in Accounts
    BY <1>10, InvitationTyped DEF IInv
  <2>3. /\ next.active[j.account] = org.active[j.account]
        /\ j.account \in Employees => next.status[j.account] = org.status[j.account]
    BY <1>13, <2>2 DEF IInv, Typed, Organizations
  <2> QED
    BY <2>1, <2>3
<1>18. AdministratorRemains'
    BY <1>11, <1>13, <1>14 DEF IInv, Typed, Organizations, AdministratorRemains
<1> QED
    BY <1>13, <1>14, <1>15, <1>16, <1>17, <1>18, Untouched DEF IInv

\* Steps that change no table.
LEMMA BeginKeeps ==
    ASSUME IInv, NEW x \in Transactions, Begin(x) \/ Fail(x)
    PROVE  IInv'
<1>1. org' = org /\ today' = today /\ scenario' = scenario
    BY DEF Begin, Fail
<1>2. Snap'
  <2>1. snapshot = [y \in Transactions |-> snapshot[y]]
    BY DEF IInv, Typed, Snap
  <2>2. snapshot' = [y \in Transactions |-> snapshot'[y]]
    BY <2>1 DEF Begin, Fail
  <2>3. \A y \in Transactions : \/ snapshot'[y] = snapshot[y]
                               \/ snapshot'[y] = None
                               \/ snapshot'[y] = [at |-> today, org |-> org]
    BY <2>1 DEF Begin, Fail
  <2>4. today \in 1..today
    BY AdministrationAssumption DEF IInv, Typed, Dates
  <2> QED
    BY <1>1, <2>2, <2>3, <2>4 DEF IInv, Typed, Snap
<1>3. Typed'
    BY <1>1, <1>2 DEF IInv, Typed
<1> QED
    BY <1>1, <1>3, Untouched DEF IInv

\* The passing of a day only ends invitations and assignments.
LEMMA NextDayKeeps ==
    ASSUME IInv, NextDay
    PROVE  IInv'
<1>1. org' = org /\ snapshot' = snapshot /\ scenario' = scenario /\ today' = today + 1
    BY DEF NextDay
<1>2. today \in Nat /\ today' \in Dates
  <2>1. scenario.until \in Dates
    BY AdministrationAssumption DEF IInv, Typed
  <2> QED
    BY <2>1, AdministrationAssumption DEF NextDay, IInv, Typed, Dates
<1>3. Snap'
    BY <1>1, <1>2 DEF IInv, Typed, Snap
<1>4. HistoriesInv' /\ GraphInv' /\ AccountInv' /\ AdministratorRemains'
    BY <1>1 DEF IInv, HistoriesInv, GraphInv, AccountInv, AdministratorRemains
<1>5. InvitationsAreCurrent'
  <2>1. \A i \in org.invitations : ~Expired(i, today + 1) => ~Expired(i, today)
    BY <1>2, InvitationTyped DEF Expired, IInv
  <2> QED
    BY <1>1, <2>1 DEF IInv, InvitationsAreCurrent, Expired
<1>6. InactiveTeamsAreEmpty'
  <2>1. \A e \in Employees : \A a \in org.members[e] : a.endsOn \in Int
    BY AdministrationAssumption DEF IInv, Typed, Organizations, Assignments, Dates, Forever
  <2>2. \A e \in Employees : \A a \in org.members[e] : a.endsOn <= today => a.endsOn <= today + 1
    BY <1>2, <2>1
  <2> QED
    BY <1>1, <2>2 DEF IInv, InactiveTeamsAreEmpty
<1> QED
    BY <1>1, <1>2, <1>3, <1>4, <1>5, <1>6 DEF IInv, Typed

\* The organisation starts with the invariant.
LEMMA InitKeeps == Init => IInv
<1> SUFFICES ASSUME Init PROVE IInv
    OBVIOUS
<1> USE AdministrationAssumption
<1> DEFINE present == scenario.accounts
<1>1. /\ scenario \in Scenarios /\ present \in SUBSET Accounts
      /\ today = 1 /\ today \in Dates
      /\ snapshot = [x \in Transactions |-> None]
      /\ \E a \in present : "SYSTEM_ADMINISTRATOR" \in InitialRoles[a]
    BY DEF Init, Dates
<1>2. /\ org.status = [e \in Employees |-> IF e \in present THEN "ACTIVE" ELSE "ABSENT"]
      /\ org.periods = [e \in Employees |->
                           IF e \in present THEN {[startsOn |-> 1, endsOn |-> Forever]} ELSE {}]
      /\ org.managers = [e \in Employees |-> {}]
      /\ org.members = [e \in Employees |-> {}]
      /\ org.teams = [t \in Teams |-> "ABSENT"]
      /\ org.accounts = present
      /\ org.active = [a \in Accounts |-> a \in present]
      /\ org.roles = [a \in Accounts |-> IF a \in present THEN InitialRoles[a] ELSE {}]
      /\ org.invitations = {}
    BY DEF Init
<1>3. /\ 1 \in Dates /\ 1 < Forever
      /\ [startsOn |-> 1, endsOn |-> Forever] \in Periods
    BY DEF Dates, Forever, Periods
<1>4. org \in Organizations
  <2>1. /\ org.status \in [Employees -> {"ABSENT", "ACTIVE", "INACTIVE"}]
        /\ org.periods \in [Employees -> SUBSET Periods]
        /\ org.active \in [Accounts -> BOOLEAN]
        /\ org.roles \in [Accounts -> SUBSET Roles]
    BY <1>1, <1>2, <1>3
  <2>2. /\ org.managers \in [Employees -> SUBSET Assignments(Employees)]
        /\ org.members \in [Employees -> SUBSET Assignments(Teams)]
        /\ org.teams \in [Teams -> {"ABSENT", "ACTIVE", "INACTIVE"}]
        /\ org.accounts \in SUBSET Accounts
        /\ org.invitations \in SUBSET Invitations
    BY <1>1, <1>2
  <2>3. org = [status |-> org.status, periods |-> org.periods, managers |-> org.managers,
               members |-> org.members, teams |-> org.teams, accounts |-> org.accounts,
               active |-> org.active, roles |-> org.roles, invitations |-> org.invitations,
               issued |-> 0]
    BY DEF Init
  <2> QED
    BY <2>1, <2>2, <2>3 DEF Organizations
<1>5. Typed
    BY <1>1, <1>4 DEF Typed, Snap
<1>6. HistoriesInv
  <2> DEFINE open == [startsOn |-> 1, endsOn |-> Forever]
  <2>1. HistoryValid({}) /\ HistoryValid({open}) /\ open.endsOn = Forever
    BY <1>3 DEF HistoryValid
  <2>2. org.periods = [e \in Employees |-> IF e \in present THEN {open} ELSE {}]
    BY <1>2
  <2> HIDE DEF open, present
  <2> SUFFICES ASSUME NEW e \in Employees
               PROVE  /\ HistoryValid(org.managers[e]) /\ HistoryValid(org.members[e])
                      /\ HistoryValid(org.periods[e])
                      /\ org.status[e] = "ACTIVE" <=> \E p \in org.periods[e] : p.endsOn = Forever
    BY DEF HistoriesInv
  <2>3. org.managers[e] = {} /\ org.members[e] = {}
    BY <1>2
  <2>4. CASE e \in present
    <3>1. org.status[e] = "ACTIVE" /\ org.periods[e] = {open}
      BY <1>2, <2>2, <2>4
    <3> QED
      BY <2>1, <2>3, <3>1
  <2>5. CASE e \notin present
    <3>1. org.status[e] = "ABSENT" /\ org.periods[e] = {}
      BY <1>2, <2>2, <2>5
    <3> QED
      BY <2>1, <2>3, <3>1
  <2> QED
    BY <2>4, <2>5
<1>7. GraphInv
  <2>1. Boundaries(org.managers) = {}
    BY <1>2 DEF Boundaries
  <2> QED
    BY <2>1 DEF GraphInv
<1>8. AccountInv
  <2> HIDE DEF present
  <2>1. \A a \in Accounts : org.active[a] => a \in present
    BY <1>2
  <2>2. \A e \in Employees : org.status[e] = IF e \in present THEN "ACTIVE" ELSE "ABSENT"
    BY <1>2
  <2> QED
    BY <1>2, <2>1, <2>2 DEF AccountInv
<1>9. AdministratorRemains
    BY <1>1, <1>2 DEF AdministratorRemains
<1>10. InvitationsAreCurrent /\ InactiveTeamsAreEmpty
    BY <1>2 DEF InvitationsAreCurrent, InactiveTeamsAreEmpty
<1> QED
    BY <1>5, <1>6, <1>7, <1>8, <1>9, <1>10 DEF IInv

\* Every step keeps the invariant.
LEMMA NextKeeps == IInv /\ [Next]_vars => IInv'
<1> SUFFICES ASSUME IInv, [Next]_vars PROVE IInv'
    OBVIOUS
<1>1. 1..scenario.until \subseteq Dates
  <2>1. scenario.until \in Dates
    BY AdministrationAssumption DEF IInv, Typed
  <2> QED
    BY <2>1, AdministrationAssumption DEF Dates
<1>2. ASSUME NEW x \in Transactions, Begin(x) \/ Fail(x) PROVE IInv'
    BY <1>2, BeginKeeps
<1>3. ASSUME NEW x \in Transactions, NEW e \in Employees, NEW d \in 1..scenario.until,
             \/ \E m \in Employees \cup {None} : ReplaceManager(x, e, d, m)
             \/ \E t \in Teams \cup {None} : ReplaceTeam(x, e, d, t)
             \/ \E roles \in SUBSET HR_ROLES : CreateEmployee(x, e, d, roles)
             \/ ActivateEmployee(x, e, d)
             \/ DeactivateEmployee(x, e, d)
      PROVE  IInv'
  <2>1. d \in Dates
    BY <1>1
  <2> QED
    BY <1>3, <2>1, ReplaceManagerKeeps, ReplaceTeamKeeps, CreateEmployeeKeeps,
       ActivateEmployeeKeeps, DeactivateEmployeeKeeps
<1>4. ASSUME NEW x \in Transactions, NEW e \in Employees,
             \/ ReissueInvitation(x, e)
             \/ \E roles \in SUBSET HR_ROLES : ReplaceRoles(x, e, roles)
      PROVE  IInv'
    BY <1>4, ReissueInvitationKeeps, ReplaceRolesKeeps
<1>5. ASSUME NEW x \in Transactions, NEW t \in Teams,
             \/ CreateTeam(x, t)
             \/ \E state \in {"ACTIVE", "INACTIVE"} : SetTeamState(x, t, state)
      PROVE  IInv'
    BY <1>5, CreateTeamKeeps, SetTeamStateKeeps
<1>6. ASSUME NEW x \in Transactions, NEW a \in Technicals, CreateTechnicalAccount(x, a)
      PROVE  IInv'
    BY <1>6, CreateTechnicalAccountKeeps
<1>7. ASSUME NEW x \in Transactions, NEW a \in Accounts, NEW b \in BOOLEAN,
             SetAccountState(x, a, b) \/ SetSystemRole(x, a, b)
      PROVE  IInv'
    BY <1>7, SetAccountStateKeeps, SetSystemRoleKeeps
<1>8. ASSUME NEW x \in Transactions, NEW i \in org.invitations, ActivateInvitation(x, i)
      PROVE  IInv'
    BY <1>8, ActivateInvitationKeeps
<1>9. ASSUME UNCHANGED vars PROVE IInv'
  <2>1. today' = today /\ org' = org /\ snapshot' = snapshot /\ scenario' = scenario
    BY <1>9 DEF vars
  <2>2. Typed'
    BY <2>1 DEF IInv, Typed, Snap
  <2> QED
    BY <2>1, <2>2, Untouched DEF IInv
<1> QED
    BY <1>2, <1>3, <1>4, <1>5, <1>6, <1>7, <1>8, <1>9, NextDayKeeps DEF Next

-----------------------------------------------------------------------------
(* Theorems *)

\* The inductive invariant: what is known of the tables in every state, whatever
\* the commands and however their transactions overlap.
THEOREM Invariance == Spec => []IInv
<1>1. Init => IInv
    BY InitKeeps
<1>2. IInv /\ [Next]_vars => IInv'
    BY NextKeeps
<1> QED
    BY <1>1, <1>2, PTL DEF Spec

\* Types; one manager, one team and one employment period at a time
\* (planEffectiveAssignmentTransition and the employment commands); employees
\* are ACTIVE exactly while a period is open.
THEOREM TypeCorrect == Spec => []TypeOK
<1>1. IInv => TypeOK
    BY DEF IInv, Typed, Snap, HistoriesInv, TypeOK
<1> QED
    BY <1>1, Invariance, PTL

\* Employees never report to one another in a circle, on any date: it is enough
\* that validateManagerAssignmentGraph looks at the dates on which an assignment
\* starts, and that the transactions are serializable.
THEOREM ManagersAreAcyclic == Spec => []NoManagementCycles
<1>1. IInv => NoManagementCycles
  <2> SUFFICES ASSUME IInv, NEW d \in Dates \cup {Forever}
               PROVE  ~Cyclic(org.managers, d)
    BY DEF NoManagementCycles
  <2> QED
    BY AcyclicOnBoundaries DEF IInv, Typed, Organizations, GraphInv
<1> QED
    BY <1>1, Invariance, PTL

\* An invitation that can be used is the only one of an account that waits for
\* it (the commands of the accounts and activateInvitation).
THEOREM InvitationsStayCurrent == Spec => []InvitationsAreCurrent
<1>1. IInv => InvitationsAreCurrent
    BY DEF IInv
<1> QED
    BY <1>1, Invariance, PTL

\* Nobody is or will be in a closed team (replaceTeam and setTeamState).
THEOREM ClosedTeamsAreEmpty == Spec => []InactiveTeamsAreEmpty
<1>1. IInv => InactiveTeamsAreEmpty
    BY DEF IInv
<1> QED
    BY <1>1, Invariance, PTL

\* Some system administrator remains, unless the employment of the last one
\* was ended (the commands on accounts and roles).
THEOREM AnAdministratorRemains == Spec => []AdministratorRemains
<1>1. IInv => AdministratorRemains
    BY DEF IInv
<1> QED
    BY <1>1, Invariance, PTL


-----------------------------------------------------------------------------
(* What was and what is planned *)

\* Replacing an assignment changes dates from its start on, up to where the next
\* assignment starts.
LEMMA ReplacedChanges ==
    ASSUME NEW Targets, NEW h \in SUBSET Assignments(Targets), HistoryValid(h),
           NEW from \in Dates, NEW target,
           \A a \in h : a.startsOn # from,
           NEW d \in Changed(h, Replaced(h, from, target))
    PROVE  /\ from <= d
           /\ \A a \in h : from < a.startsOn => d < a.startsOn
<1> USE AdministrationAssumption DEF Dates, Forever
<1> DEFINE later == {a.startsOn : a \in {b \in h : b.startsOn > from}}
           end == IF later = {} THEN Forever ELSE Min(later)
           cut(a) == IF Contains(a, from) THEN [a EXCEPT !.endsOn = from] ELSE a
           new == [target |-> target, startsOn |-> from, endsOn |-> end]
<1>1. /\ d \in Dates /\ d \in Int /\ from \in Int
      /\ TargetsOn(h, d) # TargetsOn(Replaced(h, from, target), d)
    BY DEF Changed
<1>2. \A a \in h : /\ a.startsOn \in Int /\ a.endsOn \in Int /\ a.startsOn < a.endsOn
                   /\ a.startsOn # from
    BY DEF Assignments, HistoryValid
<1>0. end \in Int
  <2>1. later \subseteq Nat
    BY DEF Assignments
  <2>2. later # {} => Min(later) \in later
    <3> HIDE DEF later
    <3> QED
      BY <2>1, MinIsLeast
  <2> QED
    BY <2>1, <2>2
<1>3. ASSUME NEW a \in h, a.startsOn > from PROVE end <= a.startsOn
  <2>1. a.startsOn \in later
    BY <1>3
  <2>2. later \subseteq Nat
    BY DEF Assignments
  <2>3. Min(later) <= a.startsOn
    <3> HIDE DEF later
    <3> QED
      BY <2>1, <2>2, MinIsLeast
  <2> QED
    BY <2>1, <2>3
<1>4. Replaced(h, from, target) =
         {cut(a) : a \in h} \cup IF target = None THEN {} ELSE {new}
    BY DEF Replaced
<1>5. ASSUME NEW a \in h
      PROVE  /\ cut(a).target = a.target
             /\ Contains(a, from) => ~(Contains(cut(a), d) /\ from <= d)
             /\ (Contains(a, from) /\ d < from) => (Contains(cut(a), d) <=> Contains(a, d))
             /\ ~Contains(a, from) => cut(a) = a
  <2>1. CASE Contains(a, from)
    <3>1. cut(a).target = a.target /\ cut(a).startsOn = a.startsOn /\ cut(a).endsOn = from
      BY <2>1 DEF Assignments
    <3> QED
      BY <1>1, <1>2, <2>1, <3>1 DEF Contains
  <2> QED
    BY <2>1
<1>6. new.startsOn = from /\ new.endsOn = end
    OBVIOUS
<1> HIDE DEF cut, new, end, later
<1>7. ASSUME \A a \in h : Contains(cut(a), d) <=> Contains(a, d),
             ~Contains(new, d)
      PROVE  FALSE
  <2>1. TargetsOn(h, d) \subseteq TargetsOn(Replaced(h, from, target), d)
    BY <1>4, <1>5, <1>7 DEF TargetsOn
  <2>2. TargetsOn(Replaced(h, from, target), d) \subseteq TargetsOn(h, d)
    BY <1>4, <1>5, <1>7 DEF TargetsOn
  <2> QED
    BY <1>1, <2>1, <2>2
<1>8. from <= d
  <2> SUFFICES ASSUME d < from PROVE FALSE
    BY <1>1
  <2>1. ~Contains(new, d)
    BY <1>1, <1>6 DEF Contains
  <2>2. \A a \in h : Contains(cut(a), d) <=> Contains(a, d)
    BY <1>5
  <2> QED
    BY <1>7, <2>1, <2>2
<1>9. ASSUME NEW b \in h, from < b.startsOn, b.startsOn <= d
      PROVE  FALSE
  <2>1. end <= b.startsOn
    BY <1>3, <1>9
  <2>2. ~Contains(new, d)
    BY <1>1, <1>2, <1>6, <1>9, <2>1, <1>0 DEF Contains
  <2>3. ASSUME NEW a \in h PROVE Contains(cut(a), d) <=> Contains(a, d)
    <3>1. CASE Contains(a, from)
      <4>1. a # b
        BY <1>2, <1>9, <3>1 DEF Contains
      <4>2. a.endsOn <= b.startsOn \/ b.endsOn <= a.startsOn
        BY <4>1 DEF HistoryValid
      <4>3. ~Contains(a, d)
        BY <1>1, <1>2, <1>9, <3>1, <4>2 DEF Contains
      <4> QED
        BY <1>5, <1>8, <3>1, <4>3
    <3> QED
      BY <1>5, <3>1
  <2> QED
    BY <1>7, <2>2, <2>3
<1> QED
    BY <1>1, <1>2, <1>8, <1>9

\* A planned change disturbs neither the past nor later plans.
LEMMA ReplacedUndisturbs ==
    ASSUME Typed, NEW x \in Transactions, snapshot[x] # None, snapshot'[x] = None,
           NEW Targets, NEW h \in SUBSET Assignments(Targets), HistoryValid(h),
           NEW from \in Dates, NEW target, Plannable(h, snapshot[x].at, from, target)
    PROVE  Undisturbed(h, Replaced(h, from, target))
<1> SUFFICES ASSUME NEW d1 \in Changed(h, Replaced(h, from, target)),
                    NEW d2 \in Changed(h, Replaced(h, from, target))
             PROVE  /\ snapshot[x].at <= d1
                    /\ \A a \in h : ~(d1 <= a.startsOn /\ a.startsOn <= d2)
    BY DEF Undisturbed
<1>1. snapshot[x].at <= from /\ \A a \in h : a.startsOn # from
    BY DEF Plannable
<1>2. /\ from <= d1
      /\ \A a \in h : from < a.startsOn => d2 < a.startsOn
    BY <1>1, ReplacedChanges
<1>3. /\ d1 \in Int /\ d2 \in Int /\ from \in Int /\ snapshot[x].at \in Int
      /\ \A a \in h : a.startsOn \in Int
    BY AdministrationAssumption DEF Typed, Snap, Changed, Assignments, Dates
<1> QED
    BY <1>1, <1>2, <1>3

HistoriesStand ==
    \A e \in Employees :
        /\ org'.managers[e] # org.managers[e] => Undisturbed(org.managers[e], org'.managers[e])
        /\ org'.members[e] # org.members[e] => Undisturbed(org.members[e], org'.members[e])

\* Whatever else changes, assignments do not.
AssignmentsStand == org'.managers = org.managers /\ org'.members = org.members

LEMMA ReplaceManagerStands ==
    ASSUME IInv, NEW x \in Transactions, NEW e \in Employees, NEW from \in Dates,
           NEW target \in Employees \cup {None}, ReplaceManager(x, e, from, target)
    PROVE  HistoriesStand
<1> DEFINE history == Replaced(org.managers[e], from, target)
<1>1. /\ snapshot[x].org = org /\ snapshot[x] # None
      /\ Commit(x, [org EXCEPT !.managers[e] = history])
      /\ Plannable(org.managers[e], snapshot[x].at, from, target)
    BY RunningSees DEF IInv, ReplaceManager, Running
<1>2. snapshot'[x] = None /\ org' = [org EXCEPT !.managers[e] = history]
    BY <1>1 DEF Commit, Rerun
<1>3. org.managers[e] \in SUBSET Assignments(Employees) /\ HistoryValid(org.managers[e])
    BY DEF IInv, Typed, Organizations, HistoriesInv
<1>4. Undisturbed(org.managers[e], history)
    BY <1>1, <1>2, <1>3, ReplacedUndisturbs DEF IInv
<1> HIDE DEF history
<1>5. org'.managers = [org.managers EXCEPT ![e] = history] /\ org'.members = org.members
    BY <1>2 DEF IInv, Typed, Organizations
<1>6. /\ org'.managers[e] = history
      /\ \A s \in Employees \ {e} : org'.managers[s] = org.managers[s]
    BY <1>5 DEF IInv, Typed, Organizations
<1> QED
    BY <1>4, <1>5, <1>6 DEF HistoriesStand

LEMMA ReplaceTeamStands ==
    ASSUME IInv, NEW x \in Transactions, NEW e \in Employees, NEW from \in Dates,
           NEW target \in Teams \cup {None}, ReplaceTeam(x, e, from, target)
    PROVE  HistoriesStand
<1> DEFINE history == Replaced(org.members[e], from, target)
<1>1. /\ snapshot[x].org = org /\ snapshot[x] # None
      /\ Commit(x, [org EXCEPT !.members[e] = history])
      /\ Plannable(org.members[e], snapshot[x].at, from, target)
    BY RunningSees DEF IInv, ReplaceTeam, Running
<1>2. snapshot'[x] = None /\ org' = [org EXCEPT !.members[e] = history]
    BY <1>1 DEF Commit, Rerun
<1>3. org.members[e] \in SUBSET Assignments(Teams) /\ HistoryValid(org.members[e])
    BY DEF IInv, Typed, Organizations, HistoriesInv
<1>4. Undisturbed(org.members[e], history)
    BY <1>1, <1>2, <1>3, ReplacedUndisturbs DEF IInv
<1> HIDE DEF history
<1>5. org'.members = [org.members EXCEPT ![e] = history] /\ org'.managers = org.managers
    BY <1>2 DEF IInv, Typed, Organizations
<1>6. /\ org'.members[e] = history
      /\ \A s \in Employees \ {e} : org'.members[s] = org.members[s]
    BY <1>5 DEF IInv, Typed, Organizations
<1> QED
    BY <1>4, <1>5, <1>6 DEF HistoriesStand

\* No other command writes an assignment.
LEMMA OthersStand ==
    ASSUME IInv, NEW x \in Transactions
    PROVE  /\ Begin(x) \/ Fail(x) => AssignmentsStand
           /\ \A e \in Employees, d \in Dates :
                 /\ \A roles \in SUBSET HR_ROLES : CreateEmployee(x, e, d, roles) => AssignmentsStand
                 /\ ActivateEmployee(x, e, d) \/ DeactivateEmployee(x, e, d) => AssignmentsStand
           /\ \A e \in Employees :
                 /\ ReissueInvitation(x, e) => AssignmentsStand
                 /\ \A roles \in SUBSET HR_ROLES : ReplaceRoles(x, e, roles) => AssignmentsStand
           /\ \A t \in Teams :
                 /\ CreateTeam(x, t) => AssignmentsStand
                 /\ \A state \in {"ACTIVE", "INACTIVE"} : SetTeamState(x, t, state) => AssignmentsStand
           /\ \A a \in Technicals : CreateTechnicalAccount(x, a) => AssignmentsStand
           /\ \A a \in Accounts, b \in BOOLEAN :
                 SetAccountState(x, a, b) \/ SetSystemRole(x, a, b) => AssignmentsStand
           /\ \A i \in org.invitations : ActivateInvitation(x, i) => AssignmentsStand
<1>1. \A next : Commit(x, next) /\ next.managers = org.managers /\ next.members = org.members =>
          AssignmentsStand
    BY DEF Commit, AssignmentsStand
<1>2. DOMAIN org = {"status", "periods", "managers", "members", "teams", "accounts", "active",
                    "roles", "invitations", "issued"}
    BY DEF IInv, Typed, Organizations
<1>3. Begin(x) \/ Fail(x) => AssignmentsStand
    BY DEF Begin, Fail, AssignmentsStand
<1>4. ASSUME NEW e \in Employees, NEW d \in Dates, NEW roles \in SUBSET HR_ROLES,
             CreateEmployee(x, e, d, roles)
      PROVE  AssignmentsStand
    BY <1>1, <1>2, <1>4 DEF CreateEmployee, Invited
<1>5. ASSUME NEW e \in Employees, NEW d \in Dates,
             ActivateEmployee(x, e, d) \/ DeactivateEmployee(x, e, d)
      PROVE  AssignmentsStand
    BY <1>1, <1>2, <1>5 DEF ActivateEmployee, DeactivateEmployee
<1>6. ASSUME NEW e \in Employees, ReissueInvitation(x, e) PROVE AssignmentsStand
    BY <1>1, <1>2, <1>6 DEF ReissueInvitation, Invited
<1>7. ASSUME NEW e \in Employees, NEW roles \in SUBSET HR_ROLES, ReplaceRoles(x, e, roles)
      PROVE  AssignmentsStand
    BY <1>1, <1>2, <1>7 DEF ReplaceRoles
<1>8. ASSUME NEW t \in Teams, NEW state \in {"ACTIVE", "INACTIVE"},
             CreateTeam(x, t) \/ SetTeamState(x, t, state)
      PROVE  AssignmentsStand
    BY <1>1, <1>2, <1>8 DEF CreateTeam, SetTeamState
<1>9. ASSUME NEW a \in Technicals, CreateTechnicalAccount(x, a) PROVE AssignmentsStand
    BY <1>1, <1>2, <1>9 DEF CreateTechnicalAccount, Invited
<1>10. ASSUME NEW a \in Accounts, NEW b \in BOOLEAN, SetAccountState(x, a, b) \/ SetSystemRole(x, a, b)
       PROVE  AssignmentsStand
    BY <1>1, <1>2, <1>10 DEF SetAccountState, SetSystemRole
<1>11. ASSUME NEW i \in org.invitations, ActivateInvitation(x, i) PROVE AssignmentsStand
    BY <1>1, <1>2, <1>11 DEF ActivateInvitation
<1> QED
    BY <1>3, <1>4, <1>5, <1>6, <1>7, <1>8, <1>9, <1>10, <1>11

LEMMA NextStands == IInv /\ Next => HistoriesStand
<1> SUFFICES ASSUME IInv, Next PROVE HistoriesStand
    OBVIOUS
<1>1. AssignmentsStand => HistoriesStand
    BY DEF AssignmentsStand, HistoriesStand
<1>2. 1..scenario.until \subseteq Dates
  <2>1. scenario.until \in Dates
    BY AdministrationAssumption DEF IInv, Typed
  <2> QED
    BY <2>1, AdministrationAssumption DEF Dates
<1>3. NextDay => AssignmentsStand
    BY DEF NextDay, AssignmentsStand
<1>4. ASSUME NEW x \in Transactions, NEW e \in Employees, NEW d \in 1..scenario.until,
             \/ \E m \in Employees \cup {None} : ReplaceManager(x, e, d, m)
             \/ \E t \in Teams \cup {None} : ReplaceTeam(x, e, d, t)
      PROVE  HistoriesStand
  <2>1. d \in Dates
    BY <1>2
  <2> QED
    BY <1>4, <2>1, ReplaceManagerStands, ReplaceTeamStands
<1>5. ASSUME NEW x \in Transactions, NEW e \in Employees, NEW d \in 1..scenario.until,
             \/ \E roles \in SUBSET HR_ROLES : CreateEmployee(x, e, d, roles)
             \/ ActivateEmployee(x, e, d)
             \/ DeactivateEmployee(x, e, d)
      PROVE  HistoriesStand
  <2>1. d \in Dates
    BY <1>2
  <2> QED
    BY <1>1, <1>5, <2>1, OthersStand
<1>6. ASSUME NEW x \in Transactions,
             \/ Begin(x) \/ Fail(x)
             \/ \E e \in Employees :
                   \/ ReissueInvitation(x, e)
                   \/ \E roles \in SUBSET HR_ROLES : ReplaceRoles(x, e, roles)
             \/ \E t \in Teams :
                   \/ CreateTeam(x, t)
                   \/ \E state \in {"ACTIVE", "INACTIVE"} : SetTeamState(x, t, state)
             \/ \E a \in Technicals : CreateTechnicalAccount(x, a)
             \/ \E a \in Accounts, b \in BOOLEAN : SetAccountState(x, a, b) \/ SetSystemRole(x, a, b)
             \/ \E i \in org.invitations : ActivateInvitation(x, i)
      PROVE  HistoriesStand
    BY <1>1, <1>6, OthersStand
<1> QED
    BY <1>1, <1>3, <1>4, <1>5, <1>6 DEF Next

\* For every calendar and any number of overlapping commands: who reported to
\* whom and who was in which team is never rewritten, and a change leaves what is
\* planned from the next assignment on (planEffectiveAssignmentTransition).
THEOREM PastAndPlansDoStand == Spec => PastAndPlansStand
<1>1. IInv /\ [Next]_vars => [HistoriesStand]_vars
    BY NextStands
<1>2. Spec => [][HistoriesStand]_vars
    BY <1>1, Invariance, PTL DEF Spec
<1> QED
    BY <1>2 DEF PastAndPlansStand, HistoriesStand
=============================================================================
