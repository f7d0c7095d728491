--------------------------- MODULE MCAdministration --------------------------
(* Instances of Administration for TLC. *)
EXTENDS Administration, TLC

CONSTANTS e1, e2, e3, t1, x1, x2

\* The first employee may administer everything; all may be managers.
Founders == [a \in Accounts |->
    CASE a = e1 -> Roles
      [] a = e2 -> Roles
      [] OTHER -> {"MANAGER"}]

Questions ==
    {\* who reports to whom, on which dates
     [accounts |-> {e1, e2, e3}, operations |-> {"MANAGER"}, until |-> 3],
     \* managers whose employment ends
     [accounts |-> {e1, e2}, operations |-> {"MANAGER", "EMPLOYMENT"}, until |-> 2],
     \* teams that open and close
     [accounts |-> {e1, e2}, operations |-> {"TEAM"}, until |-> 3],
     \* accounts from their invitation on
     [accounts |-> {e1}, operations |-> {"CREATE", "INVITATION", "SYSTEM"}, until |-> 2],
     \* accounts of employees who leave and return
     [accounts |-> {e1, e2}, operations |-> {"EMPLOYMENT", "INVITATION", "SYSTEM"}, until |-> 2],
     \* administrators who change each other's roles
     [accounts |-> {e1, e2}, operations |-> {"EMPLOYMENT", "ROLE", "SYSTEM"}, until |-> 2]}

TransactionSymmetry == Permutations(Transactions)
=============================================================================
