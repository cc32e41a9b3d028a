------------------------------ MODULE Accounts ------------------------------
(***************************************************************************)
(* The register page (src/cgisrc/register.c), beside the login pages and   *)
(* the server's login_thread of module Login: both pages work on the table *)
(* Iot of the database, without a transaction.  The page looks whether the *)
(* name is there and inserts it in a second statement; a login page goes   *)
(* on if its name and password are there (login.c:55-66).  A name stands   *)
(* for itself and its password.                                            *)
(***************************************************************************)
EXTENDS Login

CONSTANTS
  Registrars,  \* register page processes
  Names        \* the names they register

ASSUME AccountsAssumption == Names \subseteq Users

VARIABLES
  rows,    \* rows of the table Iot for each name
  name,    \* the name in each register page's form
  at,      \* where each register page is
  met      \* two pages were between their two statements at one time

accountVars == <<rows, name, at, met>>
-----------------------------------------------------------------------------
(* Empty fields, two different passwords, a database that fails: the page  *)
(* ends.  Otherwise it goes on if the name is free.                        *)
Refuse(r) ==
  /\ at[r] \in {"new", "insert"}
  /\ at' = [at EXCEPT ![r] = "refused"]
  /\ UNCHANGED <<rows, name, met>>

(* Mutation: the number of rows is not looked at. *)
SelectBlind(r) ==
  /\ at[r] = "new"
  /\ at' = [at EXCEPT ![r] = "insert"]
  /\ met' = (met \/ \E s \in Registrars : at[s] = "insert")
  /\ UNCHANGED <<rows, name>>

Select(r) ==
  /\ at[r] = "new"
  /\ rows[name[r]] = 0
  /\ at' = [at EXCEPT ![r] = "insert"]
  /\ met' = (met \/ \E s \in Registrars : at[s] = "insert")
  /\ UNCHANGED <<rows, name>>

Insert(r) ==
  /\ at[r] = "insert"
  /\ rows' = [rows EXCEPT ![name[r]] = @ + 1]
  /\ at' = [at EXCEPT ![r] = "registered"]
  /\ UNCHANGED <<name, met>>

RegisterStep(r) == (Refuse(r) \/ Select(r) \/ Insert(r)) /\ UNCHANGED vars

(* Login's steps: only a name that is in the table gets past the query. *)
LoginStep ==
  /\ Next
  /\ \A p \in Pages : pc[p] = "new" /\ pc'[p] = "send" => rows[user[p]] > 0
  /\ UNCHANGED accountVars
-----------------------------------------------------------------------------
AccountsInit ==
  /\ Init
  /\ rows \in [Users -> {0, 1}] /\ rows[Admin] = 1
  /\ name \in [Registrars -> Names]
  /\ at = [r \in Registrars |-> "new"]
  /\ met = FALSE

AccountsNext == LoginStep \/ \E r \in Registrars : RegisterStep(r)

allVars == <<vars, accountVars>>

AccountsSpec == AccountsInit /\ [][AccountsNext]_allVars /\ Fairness
-----------------------------------------------------------------------------
(* A page that is past the query of its name and password is a user's; a   *)
(* name has one row, or as many as pages inserted it after they met        *)
(* between the two statements (register.c:42-56); a page that says the     *)
(* user is registered has made a row of its own.                           *)
OneAccountPerName ==
  /\ met \/ \A u \in Users : rows[u] <= 1
  /\ \A u \in Users :
       rows[u] >= Cardinality({r \in Registrars : name[r] = u /\ at[r] = "registered"})
  /\ \A p \in Pages : pc[p] \notin {"new", "done"} => rows[user[p]] > 0
=============================================================================
