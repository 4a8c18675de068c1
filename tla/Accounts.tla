------------------------------ MODULE Accounts ------------------------------
(***************************************************************************)
(* The accounts and the public requests for one: RegistrationsService      *)
(* (create, review) and UsersService (create, update, remove).  Each       *)
(* handler checks what it has read and writes later, without repeating the *)
(* check; the database only keeps usernames unique and refuses to delete   *)
(* the account of a document's creator.  A review writes the account and   *)
(* the registration in one transaction.  Names, passwords and changes of   *)
(* username are left out.                                                  *)
(***************************************************************************)
EXTENDS Naturals, FiniteSets

CONSTANTS
  Username,
  Registration,  \* account_registration_requests rows
  Clerk,         \* how many handlers can run at once
  Root           \* the administrator that the seed creates

ASSUME AccountAssumption == Root \in Username /\ "none" \notin Registration

VARIABLES
  accounts,       \* the kind of role of the account with a username, or "none"
  authors,        \* the accounts with document history
  registrations,  \* the rows; opened: how many accounts their review created
  calls,          \* the handlers in flight
  rushed          \* which handlers ever overlapped one of their kind

uvars == <<accounts, authors, registrations, calls, rushed>>

Admin == {u \in Username : accounts[u] = "admin"}

NoRegistration == [status |-> "NONE", username |-> Root, opened |-> 0]

Ready == [op |-> "ready", username |-> Root, row |-> "none"]

Others(s, o, u) == \E t \in Clerk \ {s} : calls[t].op \in o /\ calls[t].username = u

Rush(kind, overlap) == rushed' = IF overlap THEN rushed \cup {kind} ELSE rushed

StartCall(s, o, u, r) ==
  /\ calls[s] = Ready
  /\ calls' = [calls EXCEPT ![s] = [op |-> o, username |-> u, row |-> r]]

EndCall(s) == calls' = [calls EXCEPT ![s] = Ready]

-----------------------------------------------------------------------------
(* RegistrationsService.create *)

MayRegister(u) ==
  /\ accounts[u] = "none"
  /\ \A r \in Registration : registrations[r].username = u => registrations[r].status # "PENDING"

BeginRegistration(s, u, r) ==
  /\ registrations[r] = NoRegistration /\ \A t \in Clerk : calls[t].row # r
  /\ MayRegister(u)
  /\ StartCall(s, "register", u, r)
  /\ Rush("registration", Others(s, {"register"}, u))
  /\ UNCHANGED <<accounts, authors, registrations>>

CommitRegistration(s) ==
  /\ calls[s].op = "register"
  /\ registrations' = [registrations EXCEPT ![calls[s].row] =
       [status |-> "PENDING", username |-> calls[s].username, opened |-> 0]]
  /\ EndCall(s)
  /\ UNCHANGED <<accounts, authors, rushed>>

-----------------------------------------------------------------------------
(* RegistrationsService.review *)

\* Mutant: a registration may be reviewed again
Reviewable_Again(r) == registrations[r].status # "NONE"

Reviewable(r) == registrations[r].status = "PENDING"

BeginReviewing(s, r, o) ==
  LET u == registrations[r].username IN
  /\ Reviewable(r)
  /\ o = "approve" => accounts[u] = "none"
  /\ StartCall(s, o, u, r)
  /\ Rush("review", \E t \in Clerk : calls[t].op \in {"approve", "reject"} /\ calls[t].row = r)
  /\ UNCHANGED <<accounts, authors, registrations>>

CommitApproval(s) ==
  LET u == calls[s].username
      r == calls[s].row IN
  /\ calls[s].op = "approve"
  /\ IF accounts[u] = "none"
     THEN /\ accounts' = [accounts EXCEPT ![u] = "staff"]
          /\ registrations' = [registrations EXCEPT ![r].status = "APPROVED", ![r].opened = @ + 1]
     ELSE UNCHANGED <<accounts, registrations>>  \* P2002: all is rolled back
  /\ EndCall(s)
  /\ UNCHANGED <<authors, rushed>>

CommitRejection(s) ==
  /\ calls[s].op = "reject"
  /\ registrations' = [registrations EXCEPT ![calls[s].row].status = "REJECTED"]
  /\ EndCall(s)
  /\ UNCHANGED <<accounts, authors, rushed>>

-----------------------------------------------------------------------------
(* UsersService, by an administrator *)

CreateUser(u, role) ==
  /\ accounts[u] = "none"
  /\ accounts' = [accounts EXCEPT ![u] = role]
  /\ UNCHANGED <<authors, registrations, calls, rushed>>

\* Nothing keeps the last administrator from being given another role
UpdateUser(u, role) ==
  /\ accounts[u] # "none"
  /\ accounts' = [accounts EXCEPT ![u] = role]
  /\ Rush("demotion", u \in Admin /\ role # "admin")
  /\ UNCHANGED <<authors, registrations, calls>>

\* Mutant: one administrator is enough
Removable_Last(u) == u \in Admin => Cardinality(Admin) > 0

Removable(u) == u \in Admin => Cardinality(Admin) > 1

BeginRemoval(s, u) ==
  /\ accounts[u] # "none" /\ u \notin authors
  /\ Removable(u)
  /\ StartCall(s, "remove", u, "none")
  /\ Rush("removal", \E t \in Clerk : calls[t].op = "remove")
  /\ UNCHANGED <<accounts, authors, registrations>>

\* Handlers that meant to remove the same account find it gone
CommitRemoval(s) ==
  LET u == calls[s].username IN
  /\ calls[s].op = "remove"
  /\ IF u \in authors THEN UNCHANGED accounts
     ELSE accounts' = [accounts EXCEPT ![u] = "none"]
  /\ calls' = [t \in Clerk |-> IF calls[t].op = "remove" /\ calls[t].username = u
                               THEN Ready ELSE calls[t]]
  /\ UNCHANGED <<authors, registrations, rushed>>

\* A document is created
Author(u) ==
  /\ accounts[u] # "none"
  /\ authors' = authors \cup {u}
  /\ UNCHANGED <<accounts, registrations, calls, rushed>>

-----------------------------------------------------------------------------

AccountsInit ==
  /\ accounts = [u \in Username |-> IF u = Root THEN "admin" ELSE "none"]
  /\ authors = {}
  /\ registrations = [r \in Registration |-> NoRegistration]
  /\ calls = [s \in Clerk |-> Ready]
  /\ rushed = {}

AccountsNext ==
  \/ \E u \in Username :
       \/ \E role \in {"staff", "admin"} : CreateUser(u, role) \/ UpdateUser(u, role)
       \/ Author(u)
  \/ \E s \in Clerk :
       \/ \E u \in Username : BeginRemoval(s, u) \/ \E r \in Registration : BeginRegistration(s, u, r)
       \/ \E r \in Registration, o \in {"approve", "reject"} : BeginReviewing(s, r, o)
       \/ CommitRegistration(s) \/ CommitApproval(s) \/ CommitRejection(s) \/ CommitRemoval(s)

AccountsSpec == AccountsInit /\ [][AccountsNext]_uvars

-----------------------------------------------------------------------------
(* Properties *)

\* No administrator is left only after two removals overlapped, or after one was
\* given another role.
AdministratorLeft == Admin = {} => {"removal", "demotion"} \cap rushed # {}

\* Two registrations for a username are pending only after two were being submitted
\* at once.
OnePendingRegistration ==
  "registration" \notin rushed =>
    \A q, r \in Registration :
      registrations[q].status = "PENDING" /\ registrations[r].status = "PENDING" /\ q # r =>
        registrations[q].username # registrations[r].username

\* A registration opens an account when it is approved, at most one even if that is
\* deleted, and none if it is rejected, unless two of its reviews overlapped; one that
\* says APPROVED has opened an account however they did.
OneOutcome ==
  \A r \in Registration : LET row == registrations[r] IN
    /\ row.status = "APPROVED" => row.opened > 0
    /\ "review" \notin rushed => row.opened = (IF row.status = "APPROVED" THEN 1 ELSE 0)

\* Both: a registration asks once, and says what came of it.
RegistrationsSettled == OnePendingRegistration /\ OneOutcome

=============================================================================
