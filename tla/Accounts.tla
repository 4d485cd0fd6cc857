------------------------------ MODULE Accounts ------------------------------
(***************************************************************************)
(* Accounts of the portal.  The web server answers every request in a      *)
(* thread of its own; each database call of a handler is a transaction of  *)
(* its own, and other handlers run between any two of them.                *)
(***************************************************************************)
EXTENDS Naturals, FiniteSets

CONSTANTS
  Ids,    \* bound: accounts
  Threads \* bound: requests answered at a time

ASSUME AccountBounds == IsFiniteSet(Ids) /\ Ids # {}

VARIABLES
  users,  \* users table
  req,    \* local variables of the handlers
  setups  \* history: accounts that first-run setup has created

accountVars == <<users, req, setups>>

Absent == [admin |-> FALSE, active |-> FALSE, exists |-> FALSE]
Account(admin, active) == [admin |-> admin, active |-> active, exists |-> TRUE]
Idle == [pc |-> "idle"]

\* The fields a request sets, and what it sets them to.
Changes ==
  UNION {[fields -> BOOLEAN] : fields \in (SUBSET {"admin", "active"}) \ {{}}}

\* What a handler keeps, by where it is.
Requests ==
  [pc : {"idle", "setup", "create"}]
    \cup [pc : {"update", "count", "write"}, target : Ids, changes : Changes]

AccountsTypeOK ==
  /\ users \in [Ids -> [admin : BOOLEAN, active : BOOLEAN, exists : BOOLEAN]]
  /\ req \in [Threads -> Requests]
  /\ setups \in Nat

AccountsInit ==
  /\ users = [u \in Ids |-> Absent]
  /\ req = [t \in Threads |-> Idle]
  /\ setups = 0

HasUsers == \E u \in Ids : users[u].exists
ActiveAdmin(u) == users[u].admin /\ users[u].active
CountActiveAdmins == Cardinality({u \in Ids : ActiveAdmin(u)})

Answer(t) == req' = [req EXCEPT ![t] = Idle]

\* POST /api/setup passes its first look, and takes long to hash the password.
BeginSetup(t) ==
  /\ req[t] = Idle
  /\ ~HasUsers
  /\ req' = [req EXCEPT ![t] = [pc |-> "setup"]]
  /\ UNCHANGED <<users, setups>>

Insert(u, account) == ~users[u].exists /\ users' = [users EXCEPT ![u] = account]

\* Mutant of CreateInitialAdmin: the first look is trusted.
CreateInitialAdminUnchecked(t) ==
  /\ req[t].pc = "setup"
  /\ \E u \in Ids : Insert(u, Account(TRUE, TRUE))
  /\ setups' = setups + 1
  /\ Answer(t)

\* It looks again in the transaction that inserts.
CreateInitialAdmin(t) ==
  /\ req[t].pc = "setup"
  /\ IF HasUsers
     THEN UNCHANGED <<users, setups>>
     ELSE /\ \E u \in Ids : Insert(u, Account(TRUE, TRUE))
          /\ setups' = setups + 1
  /\ Answer(t)

\* _require_user(admin=True), for a request to create an account or to update
\* one.
Authorize(t) ==
  /\ req[t] = Idle
  /\ \E actor \in Ids : ActiveAdmin(actor)
  /\ \/ req' = [req EXCEPT ![t] = [pc |-> "create"]]
     \/ \E u \in Ids, changes \in Changes :
          req' = [req EXCEPT ![t] =
                    [pc |-> "update", target |-> u, changes |-> changes]]
  /\ UNCHANGED <<users, setups>>

\* The name may be taken.
CreateUser(t) ==
  /\ req[t].pc = "create"
  /\ \/ \E u \in Ids, admin, active \in BOOLEAN : Insert(u, Account(admin, active))
     \/ UNCHANGED users
  /\ Answer(t)
  /\ UNCHANGED setups

RemovesAdmin(current, changes) ==
  /\ current.admin /\ current.active
  /\ \E field \in DOMAIN changes : ~changes[field]

\* update_user reads the row; only one that takes an administrator away goes
\* on to count them.
ReadCurrent(t) ==
  /\ req[t].pc = "update"
  /\ IF users[req[t].target].exists
     THEN req' = [req EXCEPT ![t].pc =
            IF RemovesAdmin(users[req[t].target], req[t].changes)
            THEN "count" ELSE "write"]
     ELSE Answer(t)
  /\ UNCHANGED <<users, setups>>

\* "At least one active administrator is required".
CountAdmins(t) ==
  /\ req[t].pc = "count"
  /\ IF CountActiveAdmins <= 1
     THEN Answer(t)
     ELSE req' = [req EXCEPT ![t].pc = "write"]
  /\ UNCHANGED <<users, setups>>

\* The UPDATE sets the fields of the request on whatever the row is by now.
Update(t) ==
  /\ req[t].pc = "write"
  /\ LET changes == req[t].changes
         row == users[req[t].target]
     IN  users' = [users EXCEPT ![req[t].target] =
           [f \in DOMAIN row |-> IF f \in DOMAIN changes THEN changes[f] ELSE row[f]]]
  /\ Answer(t)
  /\ UNCHANGED setups

AccountsNext == \E t \in Threads :
  \/ BeginSetup(t) \/ CreateInitialAdmin(t)
  \/ Authorize(t) \/ CreateUser(t)
  \/ ReadCurrent(t) \/ CountAdmins(t) \/ Update(t)

AccountsSpec == AccountsInit /\ [][AccountsNext]_accountVars
-----------------------------------------------------------------------------
(***************************************************************************)
(* Properties                                                              *)
(***************************************************************************)

\* First-run setup creates the first account of all and nothing else, however
\* many visitors fill in the form at the same time; the docstring of
\* create_initial_admin: "the only account allowed during first-run setup".
SetupIsFirst == [][setups' # setups => ~HasUsers]_accountVars

\* update_user refuses what would leave the portal without an administrator.
SomeAdmin == HasUsers => CountActiveAdmins >= 1
=============================================================================
