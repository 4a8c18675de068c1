-------------------------- MODULE OperationsProofs --------------------------
(***************************************************************************)
(* What keeps the system running: theorems about accounts, the permissions *)
(* of roles, automatic backups, and backups and restores, for any number   *)
(* of accounts, registrations, backups, files and overlapping handlers.    *)
(***************************************************************************)
EXTENDS Accounts, BackupAutomation, RolePermissions, BackupRestore,
        FiniteSetTheorems, TLAPS

-----------------------------------------------------------------------------
(* Accounts *)

Call == [op : {"ready", "register", "approve", "reject", "remove"},
         username : Username, row : Registration \cup {"none"}]

AccountsTypeOK ==
  /\ accounts \in [Username -> {"none", "staff", "admin"}]
  /\ registrations \in [Registration -> [status : {"NONE", "PENDING", "APPROVED", "REJECTED"},
                                         username : Username, opened : Nat]]
  /\ calls \in [Clerk -> Call]
  /\ \A s \in Clerk : calls[s].op \in {"register", "approve", "reject"} => calls[s].row \in Registration

\* A removal in flight leaves another administrator
RemovalsOK ==
  {"removal", "demotion"} \cap rushed = {} =>
    /\ Admin # {}
    /\ \A s, t \in Clerk : calls[s].op = "remove" /\ calls[t].op = "remove" => s = t
    /\ \A s \in Clerk : calls[s].op = "remove" => Admin \ {calls[s].username} # {}

\* A registration in flight is the only one for its username
RegistrationsOK ==
  "registration" \notin rushed =>
    \A s \in Clerk : calls[s].op = "register" =>
      /\ \A r \in Registration : registrations[r].username = calls[s].username =>
                                   registrations[r].status # "PENDING"
      /\ \A t \in Clerk : calls[t].op = "register" /\ calls[t].username = calls[s].username => t = s

\* A review in flight is the only one of its registration
ReviewsOK ==
  "review" \notin rushed =>
    \A s \in Clerk : calls[s].op \in {"approve", "reject"} =>
      /\ registrations[calls[s].row].status = "PENDING"
      /\ \A t \in Clerk : calls[t].op \in {"approve", "reject"} /\ calls[t].row = calls[s].row => t = s

AccountsInv ==
  AccountsTypeOK /\ RemovalsOK /\ RegistrationsOK /\ ReviewsOK /\ OnePendingRegistration /\ OneOutcome

LEMMA NoAdministrators == ASSUME NEW u, Cardinality(Admin) > 1 PROVE Admin \ {u} # {}
<1> SUFFICES ASSUME Admin \ {u} = {} PROVE FALSE
  OBVIOUS
<1>1. Admin = {} \/ Admin = {u}
  OBVIOUS
<1> QED BY <1>1, FS_EmptySet, FS_Singleton

\* A call begins: the rows stay
LEMMA CallStarts ==
  ASSUME AccountsInv, NEW s \in Clerk, NEW o \in {"register", "approve", "reject", "remove"},
         NEW u \in Username, NEW r \in Registration \cup {"none"}, StartCall(s, o, u, r),
         UNCHANGED <<accounts, registrations>>, rushed \subseteq rushed',
         o # "remove" => r \in Registration,
         o = "remove" /\ "removal" \notin rushed' =>
           /\ \A t \in Clerk : calls[t].op # "remove"
           /\ u \in Admin => Cardinality(Admin) > 1,
         o = "register" /\ "registration" \notin rushed' =>
           /\ MayRegister(u) /\ ~Others(s, {"register"}, u),
         o \in {"approve", "reject"} /\ "review" \notin rushed' =>
           /\ registrations[r].status = "PENDING"
           /\ \A t \in Clerk : ~(calls[t].op \in {"approve", "reject"} /\ calls[t].row = r)
  PROVE  AccountsInv'
<1> DEFINE c == [op |-> o, username |-> u, row |-> r]
<1>1. /\ calls' = [calls EXCEPT ![s] = c] /\ c \in Call /\ c.op = o /\ c.username = u /\ c.row = r
  BY DEF StartCall, Call
<1> HIDE DEF c
<1>2. /\ calls'[s] = c /\ \A t \in Clerk \ {s} : calls'[t] = calls[t]
      /\ Admin' = Admin
  BY <1>1 DEF AccountsInv, AccountsTypeOK, Admin
<1>3. AccountsTypeOK'
  BY <1>1, <1>2 DEF AccountsInv, AccountsTypeOK
<1>4. RemovalsOK'
  <2>1. {"removal", "demotion"} \cap rushed' = {} =>
          {"removal", "demotion"} \cap rushed = {} /\ "removal" \notin rushed'
    OBVIOUS
  <2>2. {"removal", "demotion"} \cap rushed = {} => Admin # {}
    BY DEF AccountsInv, RemovalsOK
  <2>3. {"removal", "demotion"} \cap rushed' = {} /\ o = "remove" => Admin \ {u} # {}
    BY <2>1, <2>2, NoAdministrators
  <2> QED BY <1>1, <1>2, <2>1, <2>3 DEF AccountsInv, RemovalsOK
<1>5. RegistrationsOK'
  BY <1>1, <1>2 DEF AccountsInv, RegistrationsOK, MayRegister, Others
<1>6. ReviewsOK'
  BY <1>1, <1>2 DEF AccountsInv, ReviewsOK
<1>7. OnePendingRegistration' /\ OneOutcome'
  BY DEF AccountsInv, OnePendingRegistration, OneOutcome
<1> QED BY <1>3, <1>4, <1>5, <1>6, <1>7 DEF AccountsInv

LEMMA CallEnds ==
  ASSUME AccountsInv, NEW s \in Clerk, EndCall(s)
  PROVE  /\ calls' \in [Clerk -> Call] /\ calls'[s].op = "ready"
         /\ \A t \in Clerk \ {s} : calls'[t] = calls[t]
<1>1. Ready \in Call /\ Ready.op = "ready"
  BY AccountAssumption DEF Ready, Call
<1> QED BY <1>1 DEF EndCall, AccountsInv, AccountsTypeOK

LEMMA RegistrationCommits ==
  ASSUME AccountsInv, NEW s \in Clerk, CommitRegistration(s) PROVE AccountsInv'
<1> DEFINE x == [status |-> "PENDING", username |-> calls[s].username, opened |-> 0]
           r == calls[s].row
<1>1. /\ calls[s].op = "register" /\ r \in Registration /\ calls[s].username \in Username
      /\ registrations' = [registrations EXCEPT ![r] = x] /\ EndCall(s)
      /\ UNCHANGED <<accounts, rushed>>
  BY DEF CommitRegistration, AccountsInv, AccountsTypeOK, Call
<1>2. x.status = "PENDING" /\ x.username = calls[s].username /\ x.opened = 0
  OBVIOUS
<1>3. x \in [status : {"NONE", "PENDING", "APPROVED", "REJECTED"}, username : Username, opened : Nat]
  BY <1>1
<1> HIDE DEF x, r
<1>4. registrations'[r] = x /\ \A q \in Registration \ {r} : registrations'[q] = registrations[q]
  BY <1>1 DEF AccountsInv, AccountsTypeOK
<1>5. AccountsTypeOK'
  BY <1>1, <1>3, CallEnds DEF AccountsInv, AccountsTypeOK
<1>6. RemovalsOK'
  BY <1>1, CallEnds DEF AccountsInv, RemovalsOK, Admin
<1>7. RegistrationsOK' /\ OnePendingRegistration'
  BY <1>1, <1>2, <1>4, CallEnds DEF AccountsInv, RegistrationsOK, OnePendingRegistration
<1>8. ReviewsOK'
  BY <1>1, <1>2, <1>4, CallEnds DEF AccountsInv, AccountsTypeOK, ReviewsOK
<1>9. OneOutcome'
  BY <1>1, <1>2, <1>4 DEF AccountsInv, OneOutcome
<1> QED BY <1>5, <1>6, <1>7, <1>8, <1>9 DEF AccountsInv

\* A review writes its registration
LEMMA ReviewCommits ==
  ASSUME AccountsInv, NEW s \in Clerk, CommitApproval(s) \/ CommitRejection(s) PROVE AccountsInv'
<1> DEFINE r == calls[s].row
<1>1. /\ calls[s].op \in {"approve", "reject"} /\ r \in Registration /\ calls[s].username \in Username
      /\ EndCall(s) /\ rushed' = rushed
  BY DEF CommitApproval, CommitRejection, AccountsInv, AccountsTypeOK, Call
<1>a. \/ UNCHANGED registrations
      \/ registrations' = [registrations EXCEPT ![r].status = "APPROVED", ![r].opened = @ + 1]
      \/ registrations' = [registrations EXCEPT ![r].status = "REJECTED"]
  BY DEF CommitApproval, CommitRejection
<1>b. \/ UNCHANGED accounts
      \/ /\ accounts[calls[s].username] = "none"
         /\ accounts' = [accounts EXCEPT ![calls[s].username] = "staff"]
  BY DEF CommitApproval, CommitRejection
<1>2. accounts' \in [Username -> {"none", "staff", "admin"}] /\ Admin' = Admin
  BY <1>1, <1>b DEF AccountsInv, AccountsTypeOK, Admin
<1>3. /\ registrations' \in [Registration -> [status : {"NONE", "PENDING", "APPROVED", "REJECTED"},
                                              username : Username, opened : Nat]]
      /\ \A q \in Registration \ {r} : registrations'[q] = registrations[q]
      /\ \A q \in Registration : registrations'[q].username = registrations[q].username
      /\ \/ registrations' = registrations
         \/ /\ registrations'[r].status = "APPROVED"
            /\ registrations'[r].opened = registrations[r].opened + 1
         \/ /\ registrations'[r].status = "REJECTED"
            /\ registrations'[r].opened = registrations[r].opened
  <2> DEFINE row == registrations[r]
  <2>1. /\ registrations \in [Registration -> [status : {"NONE", "PENDING", "APPROVED", "REJECTED"},
                                               username : Username, opened : Nat]]
        /\ row = [status |-> row.status, username |-> row.username, opened |-> row.opened]
        /\ row.username \in Username /\ row.opened \in Nat
    BY <1>1 DEF AccountsInv, AccountsTypeOK
  <2>2. registrations' = [registrations EXCEPT ![r].status = "APPROVED", ![r].opened = @ + 1] =>
          registrations' = [registrations EXCEPT ![r] =
            [status |-> "APPROVED", username |-> row.username, opened |-> row.opened + 1]]
    BY <1>1, <2>1
  <2>3. registrations' = [registrations EXCEPT ![r].status = "REJECTED"] =>
          registrations' = [registrations EXCEPT ![r] =
            [status |-> "REJECTED", username |-> row.username, opened |-> row.opened]]
    BY <1>1, <2>1
  <2>4. CASE registrations' = registrations
    BY <2>1, <2>4
  <2>5. ASSUME NEW st \in {"APPROVED", "REJECTED"}, NEW n \in Nat,
               registrations' = [registrations EXCEPT ![r] =
                 [status |-> st, username |-> row.username, opened |-> n]]
        PROVE  /\ registrations' \in [Registration ->
                    [status : {"NONE", "PENDING", "APPROVED", "REJECTED"},
                     username : Username, opened : Nat]]
               /\ \A q \in Registration \ {r} : registrations'[q] = registrations[q]
               /\ registrations'[r] = [status |-> st, username |-> row.username, opened |-> n]
    BY <1>1, <2>1, <2>5
  <2> HIDE DEF row
  <2>6. registrations' = registrations \/
        \E st \in {"APPROVED", "REJECTED"}, n \in Nat :
          /\ registrations' = [registrations EXCEPT ![r] =
                [status |-> st, username |-> row.username, opened |-> n]]
          /\ n = IF st = "APPROVED" THEN row.opened + 1 ELSE row.opened
    BY <1>a, <2>1, <2>2, <2>3
  <2>7. CASE registrations' # registrations
    <3>1. PICK st \in {"APPROVED", "REJECTED"}, n \in Nat :
          /\ registrations' = [registrations EXCEPT ![r] =
                [status |-> st, username |-> row.username, opened |-> n]]
          /\ n = IF st = "APPROVED" THEN row.opened + 1 ELSE row.opened
      BY <2>6, <2>7
    <3> DEFINE x == [status |-> st, username |-> row.username, opened |-> n]
    <3>2. /\ registrations' \in [Registration -> [status : {"NONE", "PENDING", "APPROVED", "REJECTED"},
                                                  username : Username, opened : Nat]]
          /\ \A q \in Registration \ {r} : registrations'[q] = registrations[q]
          /\ registrations'[r] = x
      BY <2>5, <3>1
    <3>3. x.status = st /\ x.username = row.username /\ x.opened = n
      OBVIOUS
    <3> HIDE DEF x
    <3>4. \A q \in Registration : registrations'[q].username = registrations[q].username
      BY <3>2, <3>3 DEF row
    <3>5. \/ st = "APPROVED" /\ n = row.opened + 1
          \/ st = "REJECTED" /\ n = row.opened
      BY <3>1
    <3> QED BY <3>2, <3>3, <3>4, <3>5 DEF row
  <2> QED BY <2>4, <2>7
<1>4. "review" \notin rushed => registrations[r].status = "PENDING" /\ registrations[r].opened = 0
  BY <1>1 DEF AccountsInv, ReviewsOK, OneOutcome
<1>r. registrations[r].opened \in Nat
  BY <1>1 DEF AccountsInv, AccountsTypeOK
<1> HIDE DEF r
<1>5. AccountsTypeOK'
  BY <1>2, <1>3, <1>1, CallEnds DEF AccountsInv, AccountsTypeOK
<1>6. RemovalsOK'
  BY <1>1, <1>2, CallEnds DEF AccountsInv, RemovalsOK
<1>p. \A q \in Registration : registrations'[q].status = "PENDING" => registrations[q].status = "PENDING"
  BY <1>3
<1>7. RegistrationsOK' /\ OnePendingRegistration'
  BY <1>1, <1>3, <1>p, CallEnds DEF AccountsInv, RegistrationsOK, OnePendingRegistration
<1>8. ReviewsOK'
  BY <1>1, <1>3, CallEnds DEF AccountsInv, AccountsTypeOK, ReviewsOK, r
<1>9. OneOutcome'
  BY <1>1, <1>3, <1>4, <1>r DEF AccountsInv, OneOutcome
<1> QED BY <1>5, <1>6, <1>7, <1>8, <1>9 DEF AccountsInv

\* Only accounts change, and no administrator is lost unnoticed
LEMMA AccountChanges ==
  ASSUME AccountsInv, accounts' \in [Username -> {"none", "staff", "admin"}],
         UNCHANGED <<registrations, calls>>, rushed \subseteq rushed',
         "demotion" \notin rushed' => Admin \subseteq Admin'
  PROVE  AccountsInv'
<1>1. AccountsTypeOK' /\ RegistrationsOK' /\ ReviewsOK' /\ OnePendingRegistration' /\ OneOutcome'
  BY DEF AccountsInv, AccountsTypeOK, RegistrationsOK, ReviewsOK, OnePendingRegistration, OneOutcome
<1>2. RemovalsOK'
  BY DEF AccountsInv, RemovalsOK
<1> QED BY <1>1, <1>2 DEF AccountsInv

LEMMA RemovalCommits ==
  ASSUME AccountsInv, NEW s \in Clerk, CommitRemoval(s) PROVE AccountsInv'
<1> DEFINE u == calls[s].username
<1>1. /\ calls[s].op = "remove" /\ u \in Username /\ UNCHANGED <<registrations, rushed>>
      /\ accounts' = accounts \/ accounts' = [accounts EXCEPT ![u] = "none"]
      /\ calls' = [t \in Clerk |-> IF calls[t].op = "remove" /\ calls[t].username = u
                                   THEN Ready ELSE calls[t]]
  BY DEF CommitRemoval, AccountsInv, AccountsTypeOK, Call
<1>2. Ready \in Call /\ Ready.op = "ready"
  BY AccountAssumption DEF Ready, Call
<1>3. /\ accounts' \in [Username -> {"none", "staff", "admin"}] /\ Admin \ {u} \subseteq Admin'
      /\ calls' \in [Clerk -> Call] /\ calls'[s].op = "ready"
      /\ \A t \in Clerk : calls'[t] = calls[t] \/ calls'[t].op = "ready"
  BY <1>1, <1>2 DEF AccountsInv, AccountsTypeOK, Admin
<1> HIDE DEF u
<1>4. AccountsTypeOK'
  BY <1>1, <1>3 DEF AccountsInv, AccountsTypeOK
<1>5. RemovalsOK'
  BY <1>1, <1>3 DEF AccountsInv, RemovalsOK, u
<1>6. RegistrationsOK' /\ ReviewsOK' /\ OnePendingRegistration' /\ OneOutcome'
  BY <1>1, <1>3 DEF AccountsInv, RegistrationsOK, ReviewsOK, OnePendingRegistration, OneOutcome
<1> QED BY <1>4, <1>5, <1>6 DEF AccountsInv

LEMMA AccountsStep == AccountsInv /\ [AccountsNext]_uvars => AccountsInv'
<1> SUFFICES ASSUME AccountsInv, [AccountsNext]_uvars PROVE AccountsInv'
  OBVIOUS
<1>1. ASSUME NEW s \in Clerk, NEW u \in Username, NEW r \in Registration, BeginRegistration(s, u, r)
      PROVE  AccountsInv'
  BY <1>1, CallStarts DEF BeginRegistration, Rush
<1>2. ASSUME NEW s \in Clerk, NEW r \in Registration, NEW o \in {"approve", "reject"},
             BeginReviewing(s, r, o)
      PROVE  AccountsInv'
  <2>1. registrations[r].username \in Username
    BY DEF AccountsInv, AccountsTypeOK
  <2> QED BY <1>2, <2>1, CallStarts DEF BeginReviewing, Reviewable, Rush
<1>3. ASSUME NEW s \in Clerk, NEW u \in Username, BeginRemoval(s, u) PROVE AccountsInv'
  BY <1>3, CallStarts DEF BeginRemoval, Removable, Rush
<1>4. ASSUME NEW u \in Username, NEW role \in {"staff", "admin"}, CreateUser(u, role) \/ UpdateUser(u, role)
      PROVE  AccountsInv'
  <2>1. /\ accounts' = [accounts EXCEPT ![u] = role] /\ UNCHANGED <<registrations, calls>>
        /\ rushed \subseteq rushed'
        /\ u \in Admin /\ role # "admin" => "demotion" \in rushed'
    BY <1>4 DEF CreateUser, UpdateUser, Rush, Admin
  <2>2. /\ accounts' \in [Username -> {"none", "staff", "admin"}]
        /\ "demotion" \notin rushed' => Admin \subseteq Admin'
    BY <2>1 DEF AccountsInv, AccountsTypeOK, Admin
  <2> QED BY <2>1, <2>2, AccountChanges
<1>5. CASE UNCHANGED uvars \/ \E u \in Username : Author(u)
  <2>1. UNCHANGED <<accounts, registrations, calls, rushed>>
    BY <1>5 DEF uvars, Author
  <2>2. Admin' = Admin
    BY <2>1 DEF Admin
  <2> QED BY <2>1, <2>2, AccountChanges DEF AccountsInv, AccountsTypeOK
<1> QED BY <1>1, <1>2, <1>3, <1>4, <1>5, RegistrationCommits, ReviewCommits, RemovalCommits
        DEF AccountsNext

LEMMA AccountsSafe == AccountsSpec => []AccountsInv
<1>1. AccountsInit => AccountsInv
  <2> SUFFICES ASSUME AccountsInit PROVE AccountsInv
    OBVIOUS
  <2>1. Ready \in Call /\ Ready.op = "ready"
    BY AccountAssumption DEF Ready, Call
  <2>2. /\ AccountsTypeOK /\ Root \in Admin
    BY <2>1, AccountAssumption DEF AccountsInit, AccountsTypeOK, Admin, NoRegistration
  <2>3. RemovalsOK /\ RegistrationsOK /\ ReviewsOK
    BY <2>1, <2>2 DEF AccountsInit, RemovalsOK, RegistrationsOK, ReviewsOK
  <2>4. OnePendingRegistration /\ OneOutcome
    BY DEF AccountsInit, OnePendingRegistration, OneOutcome, NoRegistration
  <2> QED BY <2>2, <2>3, <2>4 DEF AccountsInv
<1> QED BY <1>1, AccountsStep, PTL DEF AccountsSpec

\* users.service remove(): its count of administrators is enough unless two removals
\* overlap or an administrator is given another role.
THEOREM AnAdministratorIsLeft == AccountsSpec => []AdministratorLeft
<1>1. AccountsInv => AdministratorLeft
  BY DEF AccountsInv, RemovalsOK, AdministratorLeft
<1> QED BY <1>1, AccountsSafe, PTL

\* registrations.service create(): two registrations for a username are pending only
\* after two overlapped.
THEOREM RegisteredOnce == AccountsSpec => []OnePendingRegistration
<1>1. AccountsInv => OnePendingRegistration
  BY DEF AccountsInv
<1> QED BY <1>1, AccountsSafe, PTL

\* registrations.service review(): what a registration says is what became of it,
\* unless two of its reviews overlapped; an approved one has always opened an account.
THEOREM RegistrationTellsOutcome == AccountsSpec => []OneOutcome
<1>1. AccountsInv => OneOutcome
  BY DEF AccountsInv
<1> QED BY <1>1, AccountsSafe, PTL

\* create() and review() together: a registration asks once and says what came of it,
\* unless the requests on it overlapped.
THEOREM RegistrationsAreSettled == AccountsSpec => []RegistrationsSettled
<1>1. OnePendingRegistration /\ OneOutcome => RegistrationsSettled
  BY DEF RegistrationsSettled
<1> QED BY <1>1, RegisteredOnce, RegistrationTellsOutcome, PTL

-----------------------------------------------------------------------------
(* The permissions of a role *)

\* The requests between the links and a choice
Differences(l, S) ==
  {[op |-> "add", p |-> p, id |-> 0] : p \in {q \in S : l[q] = 0}} \cup
  {[op |-> "remove", p |-> p, id |-> l[p]] : p \in {q \in Permission : l[q] # 0 /\ q \notin S}}

\* While nobody else writes, what is still asked for is what still differs.
AsksAreDifferences ==
  page.alone /\ page.asks # {} => page.asks = Differences(links, page.want)

PageRecord == [list : [Permission -> Nat], role : SUBSET Permission,
               list1 : [Permission -> Nat], role1 : SUBSET Permission,
               wait : SUBSET {"list", "role"},
               asks : SUBSET [op : {"add", "remove"}, p : Permission, id : Nat],
               want : SUBSET Permission, alone : BOOLEAN]

LinksInv ==
  /\ links \in [Permission -> Nat] /\ issued \in Nat
  /\ loose \subseteq [op : {"add", "remove"}, p : Permission, id : Nat]
  /\ page \in PageRecord
  /\ AsksAreDifferences

LEMMA LinksTyped ==
  ASSUME LinksInv, [LinksNext]_lvars
  PROVE  /\ links' \in [Permission -> Nat] /\ issued' \in Nat
         /\ loose' \subseteq [op : {"add", "remove"}, p : Permission, id : Nat]
         /\ page' \in PageRecord
<1> DEFINE Ask == [op : {"add", "remove"}, p : Permission, id : Nat]
<1>1. /\ links \in [Permission -> Nat] /\ issued \in Nat /\ loose \subseteq Ask
      /\ page \in PageRecord /\ page.asks \subseteq Ask
  BY DEF LinksInv, PageRecord
<1>2. /\ NoLinks \in [Permission -> Nat] /\ Granted(links) \subseteq Permission
      /\ Granted(page.list) \subseteq Permission
  BY DEF NoLinks, Granted
<1>3. \A pg \in PageRecord : /\ Loading(pg) \in PageRecord /\ Shown(pg) \in PageRecord
                             /\ Forgotten(pg) \in PageRecord
                             /\ \A S \in SUBSET pg.asks : [pg EXCEPT !.asks = S] \in PageRecord
                             /\ [pg EXCEPT !.alone = FALSE] \in PageRecord
  BY <1>2 DEF PageRecord, Loading, Shown, Forgotten
<1>4. \A ask \in Ask : ServeLink(ask) => links' \in [Permission -> Nat] /\ issued' \in Nat
  BY <1>1 DEF ServeLink
<1>5. CASE UNCHANGED lvars
  BY <1>1, <1>5 DEF lvars
<1>6. CASE OpenRoles \/ ReadLinks \/ ReadRoles \/ FailLoad
  <2>1. /\ [page EXCEPT !.wait = @ \ {"list"}, !.list1 = links] \in PageRecord
        /\ [page EXCEPT !.wait = @ \ {"role"}, !.role1 = Granted(links)] \in PageRecord
        /\ [page EXCEPT !.wait = {}, !.list1 = NoLinks, !.role1 = {}] \in PageRecord
    BY <1>1, <1>2 DEF PageRecord
  <2> QED BY <1>1, <1>3, <1>6, <2>1 DEF OpenRoles, ReadLinks, ReadRoles, FailLoad
<1>7. ASSUME NEW S \in SUBSET Permission, Save(S)
      PROVE  UNCHANGED <<links, issued, loose>> /\ page' \in PageRecord
  <2>1. Adds(page, S) \subseteq Ask /\ Removes(page, S) \subseteq Ask
    BY <1>1, <1>2 DEF Adds, Removes, PageRecord
  <2>2. (page.list = links /\ page.role = Granted(links)) \in BOOLEAN
    OBVIOUS
  <2> QED BY <1>1, <1>7, <2>1, <2>2 DEF Save, PageRecord
<1>8. ASSUME NEW ask \in page.asks, Linked(ask) \/ Denied(ask)
      PROVE  /\ links' \in [Permission -> Nat] /\ issued' \in Nat /\ loose' \subseteq Ask
             /\ page' \in PageRecord
  <2>1. ask \in Ask /\ page.asks \ {ask} \in SUBSET page.asks
    BY <1>1
  <2>2. CASE Linked(ask)
    BY <1>1, <1>3, <1>4, <2>1, <2>2 DEF Linked
  <2>3. CASE Denied(ask)
    BY <1>1, <1>3, <2>1, <2>3 DEF Denied
  <2> QED BY <1>8, <2>2, <2>3
<1>9. ASSUME NEW ask \in loose, ServeLoose(ask) \/ DropLoose(ask)
      PROVE  /\ links' \in [Permission -> Nat] /\ issued' \in Nat /\ loose' \subseteq Ask
             /\ page' \in PageRecord
  BY <1>1, <1>3, <1>4, <1>9 DEF ServeLoose, DropLoose
<1>10. ASSUME NEW p \in Permission, Elsewhere(p)
       PROVE  /\ links' \in [Permission -> Nat] /\ issued' \in Nat /\ loose' = loose
              /\ page' \in PageRecord
  <2>1. [op |-> IF links[p] = 0 THEN "add" ELSE "remove", p |-> p, id |-> links[p]] \in Ask
    BY <1>1
  <2> QED BY <1>1, <1>3, <1>4, <1>10, <2>1 DEF Elsewhere
<1> QED BY <1>1, <1>5, <1>6, <1>7, <1>8, <1>9, <1>10
        DEF LinksNext, OpenRoles, ReadLinks, ReadRoles, FailLoad

\* Serving one request leaves the others.
LEMMA OneServed ==
  ASSUME links \in [Permission -> Nat], issued \in Nat, NEW S \in SUBSET Permission,
         NEW ask \in Differences(links, S), ServeLink(ask)
  PROVE  Differences(links', S) = Differences(links, S) \ {ask}
<1>1. CASE ask.op = "add"
  <2>1. PICK p \in S : ask = [op |-> "add", p |-> p, id |-> 0] /\ links[p] = 0
    BY <1>1 DEF Differences
  <2>2. links' = [links EXCEPT ![p] = issued + 1] /\ issued + 1 # 0
    BY <1>1, <2>1 DEF ServeLink
  <2>3. /\ \A q \in S : links'[q] = 0 <=> links[q] = 0 /\ q # p
        /\ \A q \in Permission \ S : links'[q] = links[q]
    BY <2>1, <2>2
  <2> QED BY <2>1, <2>3 DEF Differences
<1>2. CASE ask.op = "remove"
  <2>1. PICK p \in Permission \ S : ask = [op |-> "remove", p |-> p, id |-> links[p]] /\ links[p] # 0
    BY <1>2 DEF Differences
  <2>2. links' = [links EXCEPT ![p] = 0]
    BY <1>2, <2>1 DEF ServeLink
  <2>3. /\ \A q \in S : links'[q] = links[q]
        /\ \A q \in Permission \ S : /\ links'[q] # 0 <=> links[q] # 0 /\ q # p
                                     /\ q # p => links'[q] = links[q]
    BY <2>1, <2>2
  <2> QED BY <2>1, <2>3 DEF Differences
<1> QED BY <1>1, <1>2 DEF Differences

\* Saving asks for the differences if the page shows what the server holds.
LEMMA SavedDifferences ==
  ASSUME links \in [Permission -> Nat], NEW S \in SUBSET Permission,
         page.list = links, page.role = Granted(links)
  PROVE  Adds(page, S) \cup Removes(page, S) = Differences(links, S)
<1>1. Assigned(page) = {p \in Permission : links[p] # 0}
  BY DEF Assigned, Granted
<1>2. S \ Assigned(page) = {q \in S : links[q] = 0}
  BY <1>1
<1>3. (Assigned(page) \ S) \cap Granted(page.list) = {q \in Permission : links[q] # 0 /\ q \notin S}
  BY <1>1 DEF Granted
<1> QED BY <1>2, <1>3 DEF Adds, Removes, Differences

LEMMA LinksStep == LinksInv /\ [LinksNext]_lvars => AsksAreDifferences'
<1> SUFFICES ASSUME LinksInv, [LinksNext]_lvars PROVE AsksAreDifferences'
  OBVIOUS
<1>1. /\ links \in [Permission -> Nat] /\ issued \in Nat /\ AsksAreDifferences
      /\ page \in PageRecord /\ page.want \in SUBSET Permission
  BY DEF LinksInv, PageRecord
<1>2. CASE /\ links' = links /\ page'.asks = page.asks /\ page'.want = page.want
           /\ page'.alone = page.alone
  BY <1>1, <1>2 DEF AsksAreDifferences, Differences
<1>3. CASE page'.asks = {} \/ ~page'.alone
  BY <1>3 DEF AsksAreDifferences
<1>4. CASE UNCHANGED lvars \/ OpenRoles \/ ReadLinks \/ ReadRoles \/ FailLoad
  BY <1>1, <1>2, <1>4 DEF lvars, OpenRoles, ReadLinks, ReadRoles, FailLoad, Loading, Shown, PageRecord
<1>5. ASSUME NEW S \in SUBSET Permission, Save(S) PROVE AsksAreDifferences'
  <2>1. /\ links' = links /\ page'.asks = Adds(page, S) \cup Removes(page, S) /\ page'.want = S
        /\ page'.alone => page.list = links /\ page.role = Granted(links)
    BY <1>1, <1>5 DEF Save, PageRecord
  <2> QED BY <1>1, <2>1, SavedDifferences DEF AsksAreDifferences, Differences
<1>6. ASSUME NEW ask \in page.asks, Linked(ask) PROVE AsksAreDifferences'
  <2>1. CASE LastAnswer(ask)
    <3>1. page'.asks = {}
      BY <1>1, <1>6, <2>1 DEF Linked, Loading, Forgotten, PageRecord
    <3> QED BY <1>3, <3>1
  <2>2. CASE ~LastAnswer(ask)
    <3>1. /\ page'.asks = page.asks \ {ask} /\ page'.want = page.want /\ page'.alone = page.alone
          /\ ServeLink(ask)
      BY <1>1, <1>6, <2>2 DEF Linked, PageRecord
    <3>2. page.alone => page.asks = Differences(links, page.want)
      BY <1>1 DEF AsksAreDifferences
    <3>3. page.alone => page.asks \ {ask} = Differences(links', page.want)
      BY <1>1, <3>1, <3>2, OneServed
    <3>4. Differences(links, page.want)' = Differences(links', page.want)
      BY <3>1 DEF Differences
    <3> QED BY <3>1, <3>3, <3>4 DEF AsksAreDifferences
  <2> QED BY <2>1, <2>2
<1>7. ASSUME NEW ask \in page.asks, Denied(ask) PROVE AsksAreDifferences'
  BY <1>1, <1>3, <1>7 DEF Denied, Forgotten, PageRecord
<1>8. ASSUME NEW ask \in loose, ServeLoose(ask) \/ DropLoose(ask) PROVE AsksAreDifferences'
  BY <1>1, <1>2, <1>3, <1>8 DEF ServeLoose, DropLoose, PageRecord
<1>9. ASSUME NEW p \in Permission, Elsewhere(p) PROVE AsksAreDifferences'
  BY <1>1, <1>3, <1>9 DEF Elsewhere, PageRecord
<1> QED BY <1>4, <1>5, <1>6, <1>7, <1>8, <1>9 DEF LinksNext

\* The last answer leaves no difference.
LEMMA LastLeavesNone ==
  ASSUME LinksInv, [LinksNext]_lvars, Succeeds, page.alone
  PROVE  Granted(links') = page.want
<1>1. /\ links \in [Permission -> Nat] /\ issued \in Nat /\ page \in PageRecord
      /\ page.want \in SUBSET Permission /\ page.asks # {} /\ page'.asks = {} /\ links' # links
      /\ page.asks = Differences(links, page.want) /\ links' \in [Permission -> Nat]
  BY LinksTyped DEF LinksInv, PageRecord, Succeeds, AsksAreDifferences
<1>2. ~(UNCHANGED lvars \/ OpenRoles \/ ReadLinks \/ ReadRoles \/ FailLoad)
  BY <1>1 DEF lvars, OpenRoles, ReadLinks, ReadRoles, FailLoad
<1>3. ~\E S \in SUBSET Permission : Save(S)
  BY <1>1 DEF Save
<1>4. ~\E ask \in page.asks : Denied(ask)
  BY <1>1 DEF Denied
<1>5. ~\E ask \in loose : ServeLoose(ask) \/ DropLoose(ask)
  BY <1>1 DEF ServeLoose, DropLoose, PageRecord
<1>6. ~\E p \in Permission : Elsewhere(p)
  BY <1>1 DEF Elsewhere, PageRecord
<1>7. PICK ask \in page.asks : Linked(ask)
  BY <1>2, <1>3, <1>4, <1>5, <1>6 DEF LinksNext
<1>8. page.asks = {ask} /\ ServeLink(ask)
  BY <1>1, <1>7 DEF Linked, LastAnswer, PageRecord
<1>9. Differences(links', page.want) = {}
  <2>1. ask \in Differences(links, page.want)
    BY <1>1
  <2>2. Differences(links', page.want) = Differences(links, page.want) \ {ask}
    BY <1>1, <1>8, <2>1, OneServed
  <2> QED BY <1>1, <1>8, <2>2
<1>10. \A p \in Permission : links'[p] # 0 <=> p \in page.want
  <2> SUFFICES ASSUME NEW p \in Permission PROVE links'[p] # 0 <=> p \in page.want
    OBVIOUS
  <2>1. links'[p] = 0 /\ p \in page.want => [op |-> "add", p |-> p, id |-> 0] \in Differences(links', page.want)
    BY DEF Differences
  <2>2. links'[p] # 0 /\ p \notin page.want =>
          [op |-> "remove", p |-> p, id |-> links'[p]] \in Differences(links', page.want)
    BY DEF Differences
  <2> QED BY <1>9, <2>1, <2>2
<1> QED BY <1>1, <1>10 DEF Granted

\* roles-permissions.page.ts, forkJoin: "Permissions updated" is shown only when the role
\* holds what was chosen, if the page was up to date and nobody else wrote meanwhile.
THEOREM RoleHoldsWhatWasSaved == LinksSpec => SavedAsChosen
<1>1. LinksInit => LinksInv
  BY DEF LinksInit, LinksInv, NoLinks, PageRecord, AsksAreDifferences
<1>2. LinksInv /\ [LinksNext]_lvars => LinksInv'
  BY LinksTyped, LinksStep DEF LinksInv
<1>3. LinksInv /\ [LinksNext]_lvars => [Succeeds /\ page.alone => Granted(links') = page.want]_lvars
  BY LastLeavesNone
<1> QED BY <1>1, <1>2, <1>3, PTL DEF LinksSpec, SavedAsChosen

-----------------------------------------------------------------------------
(* Automatic backups *)

Due == timers \cap {"auto", "retry"}

\* One thing will bring the next backup
OneDue ==
  IF destroyed THEN timers = {}
  ELSE \/ running /\ Due = {}
       \/ ~running /\ \E t \in {"auto", "retry"} : Due = {t}

LEMMA BackupsMove ==
  ASSUME OneDue, FireBackup \/ BackupSucceeds \/ BackupFails PROVE OneDue'
<1>1. destroyed' = destroyed
  BY DEF FireBackup, BackupSucceeds, BackupFails
<1>2. CASE FireBackup
  <2>1. PICK t \in Due : running' = TRUE /\ timers' = timers \ {t, "retry"}
    BY <1>2 DEF FireBackup, Due
  <2>2. ~destroyed /\ Due = {t}
    BY <2>1 DEF OneDue, Due
  <2>3. Due' = {}
    BY <2>1, <2>2 DEF Due
  <2> QED BY <1>1, <2>1, <2>2, <2>3 DEF OneDue
<1>3. ASSUME NEW ts, NEW t \in {"auto", "retry"}, ts \cap {"auto", "retry"} = {t},
             running, ~running', timers' = Schedule(timers, ts)
      PROVE  OneDue'
  <2>1. CASE destroyed
    BY <1>1, <1>3, <2>1 DEF OneDue, Schedule
  <2>2. CASE ~destroyed
    <3>1. Due = {} /\ timers' = timers \cup ts
      BY <1>3, <2>2 DEF OneDue, Schedule
    <3>2. Due' = {t}
      BY <1>3, <3>1 DEF Due
    <3> QED BY <1>1, <1>3, <2>2, <3>2 DEF OneDue
  <2> QED BY <2>1, <2>2
<1>4. CASE BackupSucceeds
  <2>1. running /\ ~running' /\ timers' = Schedule(timers, {"retention", "auto"})
    BY <1>4 DEF BackupSucceeds
  <2>2. {"retention", "auto"} \cap {"auto", "retry"} = {"auto"}
    OBVIOUS
  <2> QED BY <1>3, <2>1, <2>2
<1>5. CASE BackupFails
  <2>1. running /\ ~running' /\ timers' = Schedule(timers, {"retry"})
    BY <1>5 DEF BackupFails, RetryTimers
  <2>2. {"retry"} \cap {"auto", "retry"} = {"retry"}
    OBVIOUS
  <2> QED BY <1>3, <2>1, <2>2
<1> QED BY <1>2, <1>4, <1>5

\* The retention timer does not count
LEMMA RetentionMoves ==
  ASSUME OneDue, UNCHANGED <<running, destroyed>>,
         \/ timers' \in {timers, timers \ {"retention"}}
         \/ timers' = Schedule(timers, {"retention"})
  PROVE  OneDue'
<1>1. Due' = Due /\ (destroyed /\ timers = {} => timers' = {})
  BY DEF Due, Schedule
<1> QED BY <1>1 DEF OneDue

LEMMA TimersStep == OneDue /\ [AutomationNext]_mvars => OneDue'
<1> SUFFICES ASSUME OneDue, [AutomationNext]_mvars PROVE OneDue'
  OBVIOUS
<1>1. ASSUME NEW c \in Cycle, FireRetention(c) \/ CycleStep(c) PROVE OneDue'
  BY <1>1, RetentionMoves
  DEF FireRetention, CycleStep, ListStored, AfterFailure, CheckStable, DeleteExpired, EndCycle
<1>2. CASE \/ UNCHANGED mvars
           \/ \E b \in Backup : UserBacksUp(b) \/ UserDeletes(b) \/ Expires(b)
  BY <1>2, RetentionMoves DEF mvars, UserBacksUp, UserDeletes, Expires
<1>3. CASE Destroy
  BY <1>3 DEF Destroy, OneDue
<1>4. CASE Boot
  <2>1. timers' = {"auto", "retention"} /\ ~running' /\ ~destroyed'
    BY <1>4 DEF Boot
  <2>2. Due' = {"auto"}
    BY <2>1 DEF Due
  <2> QED BY <2>1, <2>2 DEF OneDue
<1> QED BY <1>1, <1>2, <1>3, <1>4, BackupsMove DEF AutomationNext

LEMMA DueOnce == OneDue => OneBackupPending
<1> SUFFICES ASSUME OneDue, ~destroyed
             PROVE  Cardinality(Due) + (IF running THEN 1 ELSE 0) = 1
  BY DEF OneDue, OneBackupPending, Due
<1>1. CASE running /\ Due = {}
  BY <1>1, FS_EmptySet
<1>2. CASE ~running /\ \E t \in {"auto", "retry"} : Due = {t}
  <2>1. Cardinality(Due) = 1
    BY <1>2, FS_Singleton
  <2> QED BY <1>2, <2>1
<1> QED BY <1>1, <1>2 DEF OneDue

\* Timers and retries: while the service lives exactly one timer or backup under way
\* brings the next backup, whatever fails, and no timer survives its end.
THEOREM NextBackupIsDue == AutomationSpec => []OneBackupPending
<1>1. AutomationInit => OneDue
  <2>1. {"auto", "retention"} \cap {"auto", "retry"} = {"auto"}
    OBVIOUS
  <2> QED BY <2>1 DEF AutomationInit, OneDue, Due
<1> QED BY <1>1, TimersStep, DueOnce, PTL DEF AutomationSpec

-----------------------------------------------------------------------------

StoreTypeOK ==
  /\ store \in [Backup -> {"none", "kept", "torn", "gone"}] /\ removals \in [Backup -> Nat]
  /\ cycles = [c \in Cycle |-> cycles[c]]
  /\ \A c \in Cycle : LET y == cycles[c] IN
       /\ y = [at |-> y.at, files |-> y.files, file |-> y.file]
       /\ y.files \subseteq Backup /\ (y.at = "remove" => y.file \in Backup)

\* Without two deletions at once a backup that is there has not been logged as deleted
LoggedOK ==
  ~doubled =>
    /\ \A b \in Backup : removals[b] = IF store[b] = "gone" THEN 1 ELSE 0
    /\ \A c \in Cycle : cycles[c].at = "remove" => store[cycles[c].file] = "kept"

StoreInv == StoreTypeOK /\ LoggedOK

\* A backup is deleted, by a user or by a cycle
LEMMA BackupDeleted ==
  ASSUME StoreInv, NEW b \in Backup, store[b] = "kept" \/ doubled,
         store' = [store EXCEPT ![b] = "gone"], Removed(b),
         StoreTypeOK' \/ cycles' = cycles,
         doubled => doubled',
         ~doubled' => \A c \in Cycle : cycles'[c].at = "remove" =>
                        cycles'[c] = cycles[c] /\ cycles[c].file # b
  PROVE  StoreInv'
<1>1. removals' = [removals EXCEPT ![b] = @ + 1]
  BY DEF Removed
<1>2. StoreTypeOK'
  BY <1>1 DEF StoreInv, StoreTypeOK
<1>3. LoggedOK'
  BY <1>1 DEF StoreInv, StoreTypeOK, LoggedOK
<1> QED BY <1>2, <1>3 DEF StoreInv

\* A cycle goes on and the store stays
LEMMA CycleMoves ==
  ASSUME StoreInv, NEW c \in Cycle, NEW at, NEW files \in SUBSET Backup, NEW file,
         UNCHANGED <<store, removals, doubled>>,
         cycles' = [cycles EXCEPT ![c] = [at |-> at, files |-> files, file |-> file]],
         at = "remove" => file \in Backup /\ store[file] = "kept"
  PROVE  StoreInv'
<1> DEFINE y == [at |-> at, files |-> files, file |-> file]
<1>1. y.at = at /\ y.files = files /\ y.file = file
      /\ y = [at |-> y.at, files |-> y.files, file |-> y.file]
  OBVIOUS
<1>2. cycles' = [d \in Cycle |-> IF d = c THEN y ELSE cycles[d]]
  BY DEF StoreInv, StoreTypeOK
<1> HIDE DEF y
<1>3. StoreTypeOK'
  BY <1>1, <1>2 DEF StoreInv, StoreTypeOK
<1>4. LoggedOK'
  BY <1>1, <1>2 DEF StoreInv, LoggedOK
<1> QED BY <1>3, <1>4 DEF StoreInv

LEMMA CycleKeepsLog == ASSUME StoreInv, NEW c \in Cycle, FireRetention(c) \/ CycleStep(c) PROVE StoreInv'
<1> DEFINE y == cycles[c]
<1>1. /\ y = [at |-> y.at, files |-> y.files, file |-> y.file] /\ y.files \subseteq Backup
      /\ cycles = [d \in Cycle |-> cycles[d]]
  BY DEF StoreInv, StoreTypeOK
<1>2. AtEase = [at |-> "none", files |-> {}, file |-> "none"]
  BY DEF AtEase
<1>3. CASE FireRetention(c)
  <2>1. cycles' = [cycles EXCEPT ![c] = [at |-> "listing", files |-> Kept \cup Torn, file |-> "none"]]
    BY <1>3 DEF FireRetention
  <2>2. Kept \cup Torn \in SUBSET Backup
    BY DEF Kept, Torn
  <2>3. UNCHANGED <<store, removals, doubled>>
    BY <1>3 DEF FireRetention, Files
  <2> DEFINE files == Kept \cup Torn
  <2> HIDE DEF files
  <2>4. cycles' = [cycles EXCEPT ![c] = [at |-> "listing", files |-> files, file |-> "none"]]
    BY <2>1 DEF files
  <2>5. files \in SUBSET Backup
    BY <2>2 DEF files
  <2>6. \A at : \A x \in SUBSET Backup : \A file :
          /\ cycles' = [cycles EXCEPT ![c] = [at |-> at, files |-> x, file |-> file]]
          /\ at # "remove"
          => StoreInv'
    BY <2>3, CycleMoves
  <2> QED BY <2>4, <2>5, <2>6
<1>4. CASE ListStored(c)
  <2>1. \/ cycles' = [cycles EXCEPT ![c] = AtEase]
        \/ cycles' = [cycles EXCEPT ![c] = [at |-> "deleting", files |-> y.files \cap expired, file |-> y.file]]
    BY <1>1, <1>4 DEF ListStored
  <2> QED BY <1>1, <1>2, <1>4, <2>1, CycleMoves DEF ListStored, Files
<1>5. CASE CheckStable(c)
  <2>1. PICK b \in y.files :
          cycles' = [cycles EXCEPT ![c] = [at |-> IF Stable(b) THEN "remove" ELSE "deleting",
                                           files |-> y.files \ {b},
                                           file |-> IF Stable(b) THEN b ELSE "none"]]
    BY <1>5 DEF CheckStable
  <2>3. Stable(b) => b \in Backup /\ store[b] = "kept"
    BY DEF Stable, Kept
  <2> QED BY <1>1, <1>5, <2>1, <2>3, CycleMoves DEF CheckStable, Files
<1>6. CASE DeleteExpired(c)
  <2> DEFINE b == y.file
             z == [at |-> "deleting", files |-> y.files, file |-> "none"]
  <2>1. b \in Backup /\ (store[b] = "kept" \/ doubled)
    BY <1>6 DEF DeleteExpired, StoreInv, StoreTypeOK, LoggedOK
  <2>2. cycles' = [d \in Cycle |-> IF d = c THEN z ELSE cycles[d]]
    <3>1. cycles' = [cycles EXCEPT ![c] = z]
      BY <1>6 DEF DeleteExpired
    <3> QED BY <1>1, <3>1
  <2>3. /\ z.at = "deleting" /\ z.files = y.files /\ z = [at |-> z.at, files |-> z.files, file |-> z.file]
    OBVIOUS
  <2>4. store' = [store EXCEPT ![b] = "gone"] /\ Removed(b)
    BY <1>6 DEF DeleteExpired
  <2>5. /\ doubled => doubled'
        /\ ~doubled' => \A d \in Cycle \ {c} : ~(cycles[d].at = "remove" /\ cycles[d].file = b)
    BY <1>6, Zenon DEF DeleteExpired, Doomed
  <2> HIDE DEF b, z
  <2>6. ~doubled' => \A d \in Cycle : cycles'[d].at = "remove" => cycles'[d] = cycles[d] /\ cycles[d].file # b
    BY <2>2, <2>3, <2>5
  <2>7. StoreTypeOK'
    BY <1>1, <2>1, <2>2, <2>3, <2>4 DEF Removed, StoreInv, StoreTypeOK
  <2> QED BY <2>1, <2>4, <2>5, <2>6, <2>7, BackupDeleted
<1>7. CASE EndCycle(c)
  <2>1. /\ cycles' = [cycles EXCEPT ![c] = AtEase]
        /\ UNCHANGED <<store, removals, doubled>>
    BY <1>7 DEF EndCycle, Files
  <2>2. {} \in SUBSET Backup /\ "none" # "remove"
    OBVIOUS
  <2>3. cycles' = [cycles EXCEPT ![c] = [at |-> "none", files |-> {}, file |-> "none"]]
    BY <1>2, <2>1
  <2>4. \A at, file : \A x \in SUBSET Backup :
          /\ cycles' = [cycles EXCEPT ![c] = [at |-> at, files |-> x, file |-> file]]
          /\ at # "remove"
          => StoreInv'
    BY <2>1, CycleMoves
  <2> QED BY <2>2, <2>3, <2>4
<1> QED BY <1>3, <1>4, <1>5, <1>6, <1>7 DEF CycleStep

\* What is written to a name that was not used
LEMMA BackupStored ==
  ASSUME StoreInv, UNCHANGED <<removals, cycles, doubled>>,
         \/ UNCHANGED store
         \/ \E b \in Backup, f \in {"kept", "torn"} :
              store[b] = "none" /\ store' = [store EXCEPT ![b] = f]
  PROVE  StoreInv'
BY DEF StoreInv, StoreTypeOK, LoggedOK

LEMMA StoreStep == StoreInv /\ [AutomationNext]_mvars => StoreInv'
<1> SUFFICES ASSUME StoreInv, [AutomationNext]_mvars PROVE StoreInv'
  OBVIOUS
<1>1. CASE FireBackup \/ Destroy \/ UNCHANGED mvars \/ \E b \in Backup : Expires(b) \/ UserBacksUp(b)
  BY <1>1, BackupStored DEF FireBackup, Destroy, mvars, Expires, UserBacksUp, Files
<1>2. CASE BackupSucceeds \/ BackupFails
  BY <1>2, BackupStored DEF BackupSucceeds, BackupFails, Unused
<1>3. ASSUME NEW b \in Backup, UserDeletes(b) PROVE StoreInv'
  <2>1. /\ store[b] = "kept" /\ store' = [store EXCEPT ![b] = "gone"] /\ Removed(b)
        /\ cycles' = cycles
    BY <1>3 DEF UserDeletes, Kept
  <2>2. /\ doubled => doubled'
        /\ ~doubled' => \A d \in Cycle : ~(cycles[d].at = "remove" /\ cycles[d].file = b)
    BY <1>3, AutomationAssumption, Zenon DEF UserDeletes, Doomed
  <2> QED BY <2>1, <2>2, BackupDeleted
<1>4. CASE Boot
  <2>1. /\ UNCHANGED <<removals, doubled>> /\ cycles' = [c \in Cycle |-> AtEase]
        /\ \/ UNCHANGED store
           \/ \E b \in Backup : store[b] = "none" /\ store' = [store EXCEPT ![b] = "torn"]
    BY <1>4 DEF Boot, Unused
  <2>2. StoreTypeOK'
    BY <2>1 DEF AtEase, StoreInv, StoreTypeOK
  <2>3. LoggedOK'
    BY <2>1 DEF AtEase, StoreInv, StoreTypeOK, LoggedOK
  <2> QED BY <2>2, <2>3 DEF StoreInv
<1> QED BY <1>1, <1>2, <1>3, <1>4, CycleKeepsLog DEF AutomationNext

\* Retention and deleteBackup(): a deletion is logged once unless two of one backup overlap.
THEOREM DeletionsLoggedOnce == AutomationSpec => []DeletionLoggedOnce
<1>1. AutomationInit => StoreInv
  BY DEF AutomationInit, StoreInv, StoreTypeOK, LoggedOK, AtEase
<1>2. StoreInv => DeletionLoggedOnce
  BY DEF StoreInv, StoreTypeOK, LoggedOK, DeletionLoggedOnce
<1> QED BY <1>1, <1>2, StoreStep, PTL DEF AutomationSpec

\* The three timers of backup-automation.service.ts together: one next backup, and no
\* deletion logged twice but by cycles that deleted one file at once.
THEOREM TimersAreInOrder == AutomationSpec => []TimersInOrder
<1>1. OneBackupPending /\ DeletionLoggedOnce => TimersInOrder
  BY DEF TimersInOrder
<1> QED BY <1>1, NextBackupIsDue, DeletionsLoggedOnce, PTL

-----------------------------------------------------------------------------
(* Backups and restores *)

LEMMA RestOK ==
  /\ NoPackage \in PackageRecord /\ Rest \in RestoreJob
  /\ Rest.at = "rest" /\ ~Rest.pack.raced /\ NoPackage.status = "none"
BY DEF NoPackage, Rest, PackageRecord, RestoreJob

\* A step of one handler.
JobStep(w, j) == jobs' = [jobs EXCEPT ![w] = j]

\* A step that replaces rows, and tells the backups that are being read.
RacingStep(w, j) ==
  /\ jobs' = [v \in Worker |-> jobs'[v]]
  /\ \A v \in Worker :
    jobs'[v] = LET k == IF v = w THEN j ELSE IF j.at = "wipe" /\ jobs[v].at = "save" THEN Rest ELSE jobs[v]
               IN IF k.at \in Reading THEN [k EXCEPT !.pack.raced = TRUE] ELSE k

LEMMA RacedOK ==
  ASSUME NEW j \in RestoreJob
  PROVE  /\ [j EXCEPT !.pack.raced = TRUE] \in RestoreJob
         /\ [j EXCEPT !.pack.raced = TRUE].pack.raced
         /\ [j EXCEPT !.pack.raced = TRUE].at = j.at
         /\ [j EXCEPT !.pack.raced = TRUE].file = j.file
         /\ [j EXCEPT !.pack.raced = TRUE].for = j.for
         /\ [j EXCEPT !.pack.raced = TRUE].pack.revisions = j.pack.revisions
BY DEF RestoreJob, PackageRecord

\* Every step of a handler, as a step of its slot to a job that is well formed.
LEMMA JobSteps ==
  ASSUME RestoreTypeOK, NEW w \in Worker
  PROVE  /\ \A f \in File : BeginCreation(w, f) =>
              \E j \in RestoreJob : /\ JobStep(w, j) /\ j.at = "save" /\ j.file = f /\ j.pack = NoPackage
         /\ \A b \in Package, for \in {"none", "ALL", "SOFTCOPY"} : BeginBackup(w, b, for) =>
              \E j \in RestoreJob : /\ JobStep(w, j) /\ j.at = "softcopies" /\ j.file = b
                                   /\ j.pack.documents = rows /\ j.pack.status = "kept"
         /\ ReadSoftcopies(w) =>
              \E j \in RestoreJob : /\ JobStep(w, j) /\ j.at = "revisions" /\ j.file = jobs[w].file
                                   /\ j.pack.documents = jobs[w].pack.documents
                                   /\ j.pack.softcopies = rows /\ j.pack.raced = jobs[w].pack.raced
         /\ ReadRevisions(w) =>
              \E j \in RestoreJob : /\ JobStep(w, j) /\ j.at = "pack" /\ j.file = jobs[w].file
                                   /\ j.pack.documents = jobs[w].pack.documents
                                   /\ j.pack.softcopies = jobs[w].pack.softcopies
                                   /\ j.pack.revisions = rows /\ j.pack.raced = jobs[w].pack.raced
         /\ WriteBackup(w) =>
              \E j \in RestoreJob : JobStep(w, j) /\ (j = Rest \/ (j.at = "clear" /\ jobs[w].for # "none"))
         /\ \A b \in Package : BeginRestore(w, b) =>
              \E j \in RestoreJob : JobStep(w, j) /\ j.at = "restore" /\ j.pack = packages[b] /\ j.for = b
         /\ WipeUploads(w) =>
              \E j \in RestoreJob :
                 /\ JobStep(w, j)
                 /\ \/ j = Rest /\ cut' /\ disk' = disk
                    \/ /\ j.at = "write" /\ j.pack = jobs[w].pack
                       /\ j.todo = jobs[w].pack.files /\ disk' = {} /\ cut' = cut
         /\ WriteUpload(w) =>
              \E f \in jobs[w].todo, j \in RestoreJob :
                 /\ JobStep(w, j) /\ j.at = "write" /\ j.pack = jobs[w].pack /\ j.todo = jobs[w].todo \ {f}
                 /\ disk' = disk \cup {f}
<1>1. /\ jobs[w] \in RestoreJob /\ jobs[w].pack \in PackageRecord /\ rows \in SUBSET RowRecord
      /\ \A b \in Package : packages[b] \in PackageRecord
  BY DEF RestoreTypeOK, RestoreJob
<1>2. ASSUME NEW f \in File, BeginCreation(w, f)
      PROVE  \E j \in RestoreJob : JobStep(w, j) /\ j.at = "save" /\ j.file = f /\ j.pack = NoPackage
  <2> DEFINE j == [Rest EXCEPT !.at = "save", !.file = f]
  <2>1. j \in RestoreJob /\ j.at = "save" /\ j.file = f /\ j.pack = NoPackage
    BY RestOK DEF Rest, RestoreJob
  <2>2. JobStep(w, j)
    BY <1>2 DEF BeginCreation, Enter, JobStep
  <2> QED BY <2>1, <2>2
<1>3. ASSUME NEW b \in Package, NEW for \in {"none", "ALL", "SOFTCOPY"}, BeginBackup(w, b, for)
      PROVE  \E j \in RestoreJob : /\ JobStep(w, j) /\ j.at = "softcopies" /\ j.file = b
                                  /\ j.pack.documents = rows /\ j.pack.status = "kept"
  <2> DEFINE q == [NoPackage EXCEPT !.status = "kept", !.documents = rows]
             j == [Rest EXCEPT !.at = "softcopies", !.for = for, !.file = b, !.pack = q]
  <2>1. q \in PackageRecord /\ q.documents = rows /\ q.status = "kept"
    BY <1>1 DEF NoPackage, PackageRecord
  <2>2. JobStep(w, j)
    BY <1>3 DEF BeginBackup, Enter, JobStep
  <2> HIDE DEF q
  <2>3. j \in RestoreJob /\ j.at = "softcopies" /\ j.file = b /\ j.pack = q
    BY <2>1, RestOK DEF Rest, RestoreJob
  <2> QED BY <2>1, <2>2, <2>3
<1>4. ASSUME ReadSoftcopies(w)
      PROVE  \E j \in RestoreJob : /\ JobStep(w, j) /\ j.at = "revisions" /\ j.file = jobs[w].file
                                  /\ j.pack.documents = jobs[w].pack.documents
                                  /\ j.pack.softcopies = rows /\ j.pack.raced = jobs[w].pack.raced
  <2> DEFINE j == [jobs[w] EXCEPT !.at = "revisions", !.pack = [jobs[w].pack EXCEPT !.softcopies = rows]]
  <2>1. j \in RestoreJob /\ j.at = "revisions" /\ j.file = jobs[w].file
        /\ j.pack.documents = jobs[w].pack.documents
        /\ j.pack.softcopies = rows /\ j.pack.raced = jobs[w].pack.raced
    BY <1>1 DEF RestoreJob, PackageRecord
  <2>2. JobStep(w, j)
    BY <1>1, <1>4 DEF ReadSoftcopies, JobStep, RestoreTypeOK, RestoreJob
  <2> QED BY <2>1, <2>2
<1>5. ASSUME ReadRevisions(w)
      PROVE  \E j \in RestoreJob : /\ JobStep(w, j) /\ j.at = "pack" /\ j.file = jobs[w].file
                                  /\ j.pack.documents = jobs[w].pack.documents
                                  /\ j.pack.softcopies = jobs[w].pack.softcopies
                                  /\ j.pack.revisions = rows /\ j.pack.raced = jobs[w].pack.raced
  <2> DEFINE j == [jobs[w] EXCEPT !.at = "pack", !.pack = [jobs[w].pack EXCEPT !.revisions = rows]]
  <2>1. j \in RestoreJob /\ j.at = "pack" /\ j.file = jobs[w].file
        /\ j.pack.documents = jobs[w].pack.documents /\ j.pack.softcopies = jobs[w].pack.softcopies
        /\ j.pack.revisions = rows /\ j.pack.raced = jobs[w].pack.raced
    BY <1>1 DEF RestoreJob, PackageRecord
  <2>2. JobStep(w, j)
    BY <1>1, <1>5 DEF ReadRevisions, JobStep, RestoreTypeOK, RestoreJob
  <2> QED BY <2>1, <2>2
<1>6. ASSUME WriteBackup(w)
      PROVE  \E j \in RestoreJob : JobStep(w, j) /\ (j = Rest \/ (j.at = "clear" /\ jobs[w].for # "none"))
  <2> DEFINE j == [Rest EXCEPT !.at = "clear", !.for = jobs[w].for]
  <2>1. j \in RestoreJob /\ j.at = "clear"
    BY <1>1, RestOK DEF Rest, RestoreJob
  <2>2. JobStep(w, IF jobs[w].for = "none" THEN Rest ELSE j)
    BY <1>6 DEF WriteBackup, JobStep
  <2> QED BY <2>1, <2>2, RestOK
<1>7. ASSUME NEW b \in Package, BeginRestore(w, b)
      PROVE  \E j \in RestoreJob : JobStep(w, j) /\ j.at = "restore" /\ j.pack = packages[b] /\ j.for = b
  <2> DEFINE j == [Rest EXCEPT !.at = "restore", !.pack = packages[b], !.for = b]
  <2>1. j \in RestoreJob /\ j.at = "restore" /\ j.pack = packages[b] /\ j.for = b
    BY <1>1, RestOK DEF Rest, RestoreJob
  <2>2. JobStep(w, j)
    BY <1>7 DEF BeginRestore, Enter, JobStep
  <2> QED BY <2>1, <2>2
<1>8. ASSUME WipeUploads(w)
      PROVE  \E j \in RestoreJob :
               /\ JobStep(w, j)
               /\ \/ j = Rest /\ cut' /\ disk' = disk
                  \/ /\ j.at = "write" /\ j.pack = jobs[w].pack
                     /\ j.todo = jobs[w].pack.files /\ disk' = {} /\ cut' = cut
  <2>1. CASE packages[jobs[w].for].status = "kept"
    <3> DEFINE j == [jobs[w] EXCEPT !.at = "write", !.todo = jobs[w].pack.files]
    <3>1. j \in RestoreJob /\ j.at = "write" /\ j.pack = jobs[w].pack /\ j.todo = jobs[w].pack.files
      BY <1>1 DEF RestoreJob, PackageRecord
    <3>2. JobStep(w, j) /\ disk' = {} /\ cut' = cut
      BY <1>1, <1>8, <2>1 DEF WipeUploads, JobStep, RestoreTypeOK, RestoreJob
    <3> QED BY <3>1, <3>2
  <2>2. CASE packages[jobs[w].for].status # "kept"
    <3>1. JobStep(w, Rest) /\ cut' /\ disk' = disk
      BY <1>8, <2>2 DEF WipeUploads, Leave, JobStep
    <3> QED BY <3>1, RestOK
  <2> QED BY <2>1, <2>2
<1>9. ASSUME WriteUpload(w)
      PROVE  \E f \in jobs[w].todo, j \in RestoreJob :
               /\ JobStep(w, j) /\ j.at = "write" /\ j.pack = jobs[w].pack /\ j.todo = jobs[w].todo \ {f}
               /\ disk' = disk \cup {f}
  <2>1. PICK f \in jobs[w].todo : /\ jobs[w].at = "write" /\ disk' = disk \cup {f}
                                  /\ jobs' = [jobs EXCEPT ![w].todo = @ \ {f}]
    BY <1>9 DEF WriteUpload
  <2> DEFINE j == [jobs[w] EXCEPT !.todo = jobs[w].todo \ {f}]
  <2>2. j \in RestoreJob /\ j.at = "write" /\ j.pack = jobs[w].pack /\ j.todo = jobs[w].todo \ {f}
    BY <1>1, <2>1 DEF RestoreJob
  <2>3. JobStep(w, j)
    BY <2>1 DEF JobStep
  <2> QED BY <2>1, <2>2, <2>3
<1> QED BY <1>2, <1>3, <1>4, <1>5, <1>6, <1>7, <1>8, <1>9

LEMMA AfterJobStep ==
  ASSUME RestoreTypeOK, NEW w \in Worker, NEW j \in RestoreJob, JobStep(w, j)
  PROVE  /\ jobs' \in [Worker -> RestoreJob] /\ jobs'[w] = j
         /\ \A v \in Worker \ {w} : jobs'[v] = jobs[v]
BY DEF RestoreTypeOK, JobStep

\* Every step that replaces rows tells the backups that are being read.
LEMMA RacingSteps ==
  ASSUME RestoreTypeOK, NEW w \in Worker
  PROVE  /\ CommitCreation(w) => RacingStep(w, Rest)
         /\ CommitRestore(w) => \/ JobStep(w, Rest) /\ rows' = rows
                                \/ /\ RacingStep(w, [jobs[w] EXCEPT !.at = "wipe"])
                                   /\ FilesOf(rows') = FilesOf(jobs[w].pack.revisions)
                                   /\ rows' \subseteq RowRecord /\ era' \in Nat
         /\ ClearAll(w) \/ ClearSoftcopies(w) =>
              \/ JobStep(w, Rest) /\ rows' = rows
              \/ RacingStep(w, [jobs[w] EXCEPT !.at = "sweep"]) /\ rows' = {}
<1>1. /\ jobs \in [Worker -> RestoreJob] /\ era \in Nat /\ \A v \in Worker : jobs[v] \in RestoreJob
      /\ jobs[w].pack.revisions \subseteq RowRecord
  BY DEF RestoreTypeOK, RestoreJob, PackageRecord
<1>2. /\ Rest.at = "rest" /\ [jobs[w] EXCEPT !.at = "wipe"].at = "wipe"
      /\ [jobs[w] EXCEPT !.at = "sweep"].at = "sweep"
  BY <1>1, RestOK DEF RestoreJob
<1>3. ASSUME CommitCreation(w) PROVE RacingStep(w, Rest)
  BY <1>1, <1>2, <1>3 DEF CommitCreation, Racing, RacingStep
<1>4. ASSUME CommitRestore(w), Restorable(jobs[w].pack)
      PROVE  /\ RacingStep(w, [jobs[w] EXCEPT !.at = "wipe"])
             /\ FilesOf(rows') = FilesOf(jobs[w].pack.revisions)
             /\ rows' \subseteq RowRecord /\ era' \in Nat
  <2>1. jobs' = Racing([[v \in Worker |-> IF jobs[v].at = "save" THEN Rest ELSE jobs[v]] EXCEPT ![w].at = "wipe"])
    BY <1>4 DEF CommitRestore
  <2>2. jobs[w].at = "restore" /\ era' = era + 1
        /\ rows' = {[file |-> f, id |-> era + 1] : f \in FilesOf(jobs[w].pack.revisions)}
    BY <1>4 DEF CommitRestore
  <2>3. RacingStep(w, [jobs[w] EXCEPT !.at = "wipe"])
    BY <1>1, <1>2, <2>1, <2>2 DEF Racing, RacingStep
  <2>4. FilesOf(jobs[w].pack.revisions) \subseteq File
    BY <1>1 DEF FilesOf, RowRecord
  <2>5. FilesOf(rows') = FilesOf(jobs[w].pack.revisions)
    <3> DEFINE F == FilesOf(jobs[w].pack.revisions)
    <3>1. \A f \in F : [file |-> f, id |-> era + 1] \in rows' /\ [file |-> f, id |-> era + 1].file = f
      BY <2>2
    <3>2. \A r \in rows' : r.file \in F
      BY <2>2
    <3> HIDE DEF F
    <3>3. {r.file : r \in rows'} = F
      BY <3>1, <3>2
    <3> QED BY <3>3 DEF FilesOf, F
  <2>6. rows' \subseteq RowRecord
    BY <1>1, <2>2, <2>4 DEF RowRecord
  <2> QED BY <1>1, <2>2, <2>3, <2>5, <2>6
<1>5. ASSUME CommitRestore(w), ~Restorable(jobs[w].pack) PROVE JobStep(w, Rest) /\ rows' = rows
  BY <1>5 DEF CommitRestore, Leave, JobStep
<1>6. ASSUME ClearAll(w) \/ ClearSoftcopies(w)
      PROVE  \/ JobStep(w, Rest) /\ rows' = rows
             \/ RacingStep(w, [jobs[w] EXCEPT !.at = "sweep"]) /\ rows' = {}
  <2>1. CASE rows' = {} /\ jobs' = Racing([jobs EXCEPT ![w].at = "sweep"])
    BY <1>1, <1>2, <2>1 DEF Racing, RacingStep
  <2>2. CASE rows' = rows /\ Leave(w)
    BY <2>2 DEF Leave, JobStep
  <2> QED BY <1>6, <2>1, <2>2 DEF ClearAll, ClearSoftcopies
<1> QED BY <1>3, <1>4, <1>5, <1>6

\* After such a step the other handlers are where they were, and backups know of it.
LEMMA AfterRacingStep ==
  ASSUME RestoreTypeOK, NEW w \in Worker, NEW j \in RestoreJob, RacingStep(w, j), j.at \notin Reading
  PROVE  /\ jobs' \in [Worker -> RestoreJob] /\ jobs'[w] = j
         /\ \A v \in Worker : jobs'[v].at \in Reading => jobs'[v].pack.raced
         /\ \A v \in Worker \ {w} : \/ jobs'[v] = Rest
                                    \/ /\ jobs'[v].at = jobs[v].at /\ jobs'[v].file = jobs[v].file
                                       /\ jobs'[v].for = jobs[v].for
                                       /\ jobs'[v].pack.revisions = jobs[v].pack.revisions
                                       /\ jobs[v].at \notin Reading => jobs'[v] = jobs[v]
<1>1. \A v \in Worker : jobs[v] \in RestoreJob
  BY DEF RestoreTypeOK
<1>2. Rest \in RestoreJob /\ Rest.at \notin Reading
  BY RestOK DEF Reading
<1>3. jobs'[w] = j
  BY DEF RacingStep
<1>4. ASSUME NEW v \in Worker \ {w}
      PROVE  /\ jobs'[v] \in RestoreJob
             /\ jobs'[v].at \in Reading => jobs'[v].pack.raced
             /\ \/ jobs'[v] = Rest
                \/ /\ jobs'[v].at = jobs[v].at /\ jobs'[v].file = jobs[v].file
                   /\ jobs'[v].for = jobs[v].for
                   /\ jobs'[v].pack.revisions = jobs[v].pack.revisions
                   /\ jobs[v].at \notin Reading => jobs'[v] = jobs[v]
  <2>1. CASE j.at = "wipe" /\ jobs[v].at = "save"
    BY <1>2, <1>4, <2>1 DEF RacingStep
  <2>2. CASE ~(j.at = "wipe" /\ jobs[v].at = "save") /\ jobs[v].at \in Reading
    <3>1. jobs'[v] = [jobs[v] EXCEPT !.pack.raced = TRUE]
      BY <1>4, <2>2 DEF RacingStep
    <3> QED BY <1>1, <2>2, <3>1, RacedOK
  <2>3. CASE ~(j.at = "wipe" /\ jobs[v].at = "save") /\ jobs[v].at \notin Reading
    BY <1>1, <1>4, <2>3 DEF RacingStep
  <2> QED BY <2>1, <2>2, <2>3
<1>5. jobs' = [v \in Worker |-> jobs'[v]] /\ \A v \in Worker : jobs'[v] \in RestoreJob
  BY <1>3, <1>4 DEF RacingStep
<1>6. jobs' \in [Worker -> RestoreJob]
  BY <1>5
<1>7. \A v \in Worker : jobs'[v].at \in Reading => jobs'[v].pack.raced
  BY <1>3, <1>4
<1> QED BY <1>3, <1>4, <1>6, <1>7

LEMMA TypedByJob ==
  ASSUME RestoreTypeOK, NEW w \in Worker, NEW j \in RestoreJob,
         \/ JobStep(w, j)
         \/ RacingStep(w, j) /\ j.at \notin Reading,
         rows' \subseteq RowRecord, disk' \subseteq File, era' \in Nat,
         packages' \in [Package -> PackageRecord],
         j.at = "save" => j.file \in File, j.at \in Reading => j.file \in Package,
         j.at \in {"restore", "wipe"} => j.for \in Package
  PROVE  RestoreTypeOK'
<1>1. jobs' \in [Worker -> RestoreJob] /\ jobs'[w] = j
  BY AfterJobStep, AfterRacingStep
<1>2. ASSUME NEW v \in Worker \ {w}
      PROVE  \/ jobs'[v] = Rest
             \/ jobs'[v].at = jobs[v].at /\ jobs'[v].file = jobs[v].file /\ jobs'[v].for = jobs[v].for
  BY AfterJobStep, AfterRacingStep, <1>2
<1>3. ASSUME NEW v \in Worker
      PROVE  /\ jobs'[v].at = "save" => jobs'[v].file \in File
             /\ jobs'[v].at \in Reading => jobs'[v].file \in Package
             /\ jobs'[v].at \in {"restore", "wipe"} => jobs'[v].for \in Package
  BY <1>1, <1>2, RestOK DEF RestoreTypeOK, Reading
<1> QED BY <1>1, <1>3 DEF RestoreTypeOK

LEMMA ReadsByJob ==
  ASSUME RestoreTypeOK, ReadsOK, NEW w \in Worker, NEW j \in RestoreJob, JobStep(w, j), rows' = rows,
         ~j.pack.raced => /\ j.at \in Reading => j.pack.documents = rows
                          /\ j.at \in {"revisions", "pack"} => j.pack.softcopies = rows
                          /\ j.at = "pack" => j.pack.revisions = rows
  PROVE  ReadsOK'
<1>1. jobs'[w] = j /\ \A v \in Worker \ {w} : jobs'[v] = jobs[v]
  BY AfterJobStep
<1> QED BY <1>1 DEF ReadsOK

LEMMA ReadsByRacing ==
  ASSUME RestoreTypeOK, NEW w \in Worker, NEW j \in RestoreJob, RacingStep(w, j), j.at \notin Reading
  PROVE  ReadsOK'
<1>1. \A v \in Worker : jobs'[v].at \in Reading => jobs'[v].pack.raced
  BY AfterRacingStep
<1> QED BY <1>1 DEF ReadsOK, Reading

\* What was read is what was there: the rows and files on disk stay well formed, and reads
\* that no commit raced with agree.
LEMMA RestoreReads == RestoreTypeOK /\ ReadsOK /\ [RestoreNext]_pvars => RestoreTypeOK' /\ ReadsOK'
<1> SUFFICES ASSUME RestoreTypeOK, ReadsOK, [RestoreNext]_pvars PROVE RestoreTypeOK' /\ ReadsOK'
  OBVIOUS
<1>1. /\ jobs \in [Worker -> RestoreJob] /\ packages \in [Package -> PackageRecord]
      /\ rows \subseteq RowRecord /\ disk \subseteq File /\ era \in Nat
      /\ \A w \in Worker : jobs[w] \in RestoreJob /\ jobs[w].todo \subseteq File
                           /\ jobs[w].pack \in PackageRecord
      /\ \A w \in Worker : [jobs[w] EXCEPT !.at = "wipe"] \in RestoreJob
      /\ \A w \in Worker : [jobs[w] EXCEPT !.at = "sweep"] \in RestoreJob
  BY DEF RestoreTypeOK, RestoreJob
<1>2. /\ Reading = {"softcopies", "revisions", "pack"} /\ Rest.at = "rest"
      /\ \A w \in Worker : [jobs[w] EXCEPT !.at = "wipe"].at = "wipe"
      /\ \A w \in Worker : [jobs[w] EXCEPT !.at = "wipe"].for = jobs[w].for
      /\ \A w \in Worker : [jobs[w] EXCEPT !.at = "sweep"].at = "sweep"
  BY <1>1, RestOK DEF Reading, RestoreJob
<1>3. CASE UNCHANGED pvars
  BY <1>3 DEF pvars, RestoreTypeOK, ReadsOK
<1>4. CASE ProcessEnds
  <2>1. /\ UNCHANGED <<rows, disk, era, packages>> /\ jobs' = [v \in Worker |-> Rest]
    BY <1>4 DEF ProcessEnds
  <2>2. jobs' \in [Worker -> RestoreJob] /\ \A v \in Worker : jobs'[v] = Rest
    BY <2>1, RestOK
  <2>3. RestoreTypeOK'
    BY <1>1, <1>2, <2>1, <2>2 DEF RestoreTypeOK
  <2> QED BY <1>2, <2>2, <2>3 DEF ReadsOK
<1>5. ASSUME NEW b \in Package, DeleteBackup(b) PROVE RestoreTypeOK' /\ ReadsOK'
  <2>1. packages' \in [Package -> PackageRecord]
    <3> DEFINE p == [packages[b] EXCEPT !.status = "gone"]
    <3>1. p \in PackageRecord
      BY <1>1 DEF PackageRecord
    <3>2. packages' = [packages EXCEPT ![b] = p]
      BY <1>5 DEF DeleteBackup
    <3> HIDE DEF p
    <3> QED BY <1>1, <3>1, <3>2
  <2> QED BY <1>5, <2>1 DEF DeleteBackup, RestoreTypeOK, ReadsOK
<1>6. ASSUME NEW w \in Worker, NEW f \in File, BeginCreation(w, f) PROVE RestoreTypeOK' /\ ReadsOK'
  <2>1. PICK j \in RestoreJob : JobStep(w, j) /\ j.at = "save" /\ j.file = f
    BY <1>6, JobSteps
  <2>2. UNCHANGED <<rows, era, packages>> /\ disk' \subseteq File
    BY <1>1, <1>6 DEF BeginCreation
  <2> QED BY <1>1, <1>2, <2>1, <2>2, TypedByJob, ReadsByJob
<1>7. ASSUME NEW w \in Worker, NEW b \in Package, NEW for \in {"none", "ALL", "SOFTCOPY"}, BeginBackup(w, b, for)
      PROVE  RestoreTypeOK' /\ ReadsOK'
  <2>1. PICK j \in RestoreJob : JobStep(w, j) /\ j.at = "softcopies" /\ j.file = b /\ j.pack.documents = rows
    BY <1>7, JobSteps
  <2>2. UNCHANGED <<rows, disk, era, packages>>
    BY <1>7 DEF BeginBackup
  <2> QED BY <1>1, <1>2, <2>1, <2>2, TypedByJob, ReadsByJob
<1>8. ASSUME NEW w \in Worker, NEW b \in Package, BeginRestore(w, b) PROVE RestoreTypeOK' /\ ReadsOK'
  <2>1. PICK j \in RestoreJob : JobStep(w, j) /\ j.at = "restore" /\ j.for = b
    BY <1>8, JobSteps
  <2>2. UNCHANGED <<rows, disk, era, packages>>
    BY <1>8 DEF BeginRestore
  <2> QED BY <1>1, <1>2, <2>1, <2>2, TypedByJob, ReadsByJob
<1>9. ASSUME NEW w \in Worker, CommitCreation(w) PROVE RestoreTypeOK' /\ ReadsOK'
  <2>1. RacingStep(w, Rest)
    BY <1>9, RacingSteps
  <2>2. UNCHANGED <<disk, era, packages>> /\ rows' \subseteq RowRecord
    BY <1>1, <1>9 DEF CommitCreation, RestoreTypeOK, RowRecord
  <2> QED BY <1>1, <1>2, <2>1, <2>2, RestOK, TypedByJob, ReadsByRacing
<1>10. ASSUME NEW w \in Worker, ReadSoftcopies(w) PROVE RestoreTypeOK' /\ ReadsOK'
  <2>1. PICK j \in RestoreJob : /\ JobStep(w, j) /\ j.at = "revisions" /\ j.file = jobs[w].file
                                /\ j.pack.documents = jobs[w].pack.documents
                                /\ j.pack.softcopies = rows /\ j.pack.raced = jobs[w].pack.raced
    BY <1>10, JobSteps
  <2>2. UNCHANGED <<rows, disk, era, packages>> /\ jobs[w].at = "softcopies"
    BY <1>10 DEF ReadSoftcopies
  <2>3. jobs[w].file \in Package /\ (~j.pack.raced => j.pack.documents = rows)
    BY <1>2, <2>1, <2>2 DEF RestoreTypeOK, ReadsOK
  <2> QED BY <1>1, <1>2, <2>1, <2>2, <2>3, TypedByJob, ReadsByJob
<1>11. ASSUME NEW w \in Worker, ReadRevisions(w) PROVE RestoreTypeOK' /\ ReadsOK'
  <2>1. PICK j \in RestoreJob : /\ JobStep(w, j) /\ j.at = "pack" /\ j.file = jobs[w].file
                                /\ j.pack.documents = jobs[w].pack.documents
                                /\ j.pack.softcopies = jobs[w].pack.softcopies
                                /\ j.pack.revisions = rows /\ j.pack.raced = jobs[w].pack.raced
    BY <1>11, JobSteps
  <2>2. UNCHANGED <<rows, disk, era, packages>> /\ jobs[w].at = "revisions"
    BY <1>11 DEF ReadRevisions
  <2>3. jobs[w].file \in Package /\ (~j.pack.raced => j.pack.documents = rows /\ j.pack.softcopies = rows)
    BY <1>2, <2>1, <2>2 DEF RestoreTypeOK, ReadsOK
  <2> QED BY <1>1, <1>2, <2>1, <2>2, <2>3, TypedByJob, ReadsByJob
<1>12. ASSUME NEW w \in Worker, WriteBackup(w) PROVE RestoreTypeOK' /\ ReadsOK'
  <2>1. PICK j \in RestoreJob : JobStep(w, j) /\ (j = Rest \/ j.at = "clear")
    BY <1>12, JobSteps
  <2>2. UNCHANGED <<rows, disk, era>>
    BY <1>12 DEF WriteBackup
  <2>3. packages' \in [Package -> PackageRecord]
    <3> DEFINE p == [jobs[w].pack EXCEPT !.files = Packed(w)]
    <3>1. p \in PackageRecord
      BY <1>1 DEF PackageRecord, Packed
    <3>2. packages' = [packages EXCEPT ![jobs[w].file] = p]
      BY <1>12 DEF WriteBackup
    <3> HIDE DEF p
    <3> QED BY <1>1, <3>1, <3>2
  <2> QED BY <1>1, <1>2, <2>1, <2>2, <2>3, TypedByJob, ReadsByJob
<1>13. ASSUME NEW w \in Worker, CommitRestore(w) PROVE RestoreTypeOK' /\ ReadsOK'
  <2>1. UNCHANGED <<disk, packages>> /\ jobs[w].at = "restore" /\ jobs[w].for \in Package
        /\ (rows' = rows => rows' \subseteq RowRecord) /\ era' \in Nat
    BY <1>1, <1>13 DEF CommitRestore, RestoreTypeOK
  <2>2. CASE JobStep(w, Rest) /\ rows' = rows
    BY <1>1, <1>2, <2>1, <2>2, RestOK, TypedByJob, ReadsByJob
  <2>3. CASE RacingStep(w, [jobs[w] EXCEPT !.at = "wipe"]) /\ rows' \subseteq RowRecord
    BY <1>1, <1>2, <2>1, <2>3, TypedByJob, ReadsByRacing
  <2> QED BY <1>13, <2>2, <2>3, RacingSteps
<1>14. ASSUME NEW w \in Worker, WipeUploads(w) PROVE RestoreTypeOK' /\ ReadsOK'
  <2>1. PICK j \in RestoreJob : /\ JobStep(w, j) /\ (j = Rest \/ j.at = "write")
                                /\ disk' = disk \/ disk' = {}
    BY <1>14, JobSteps
  <2>2. UNCHANGED <<rows, era, packages>>
    BY <1>14 DEF WipeUploads
  <2> QED BY <1>1, <1>2, <2>1, <2>2, TypedByJob, ReadsByJob
<1>15. ASSUME NEW w \in Worker, WriteUpload(w) PROVE RestoreTypeOK' /\ ReadsOK'
  <2>1. PICK f \in jobs[w].todo, j \in RestoreJob : JobStep(w, j) /\ j.at = "write" /\ disk' = disk \cup {f}
    BY <1>15, JobSteps
  <2>2. UNCHANGED <<rows, era, packages>> /\ disk' \subseteq File
    BY <1>1, <1>15, <2>1 DEF WriteUpload
  <2> QED BY <1>1, <1>2, <2>1, <2>2, TypedByJob, ReadsByJob
<1>16. ASSUME NEW w \in Worker, EndRestore(w) \/ SweepUploads(w) PROVE RestoreTypeOK' /\ ReadsOK'
  <2>1. JobStep(w, Rest) /\ UNCHANGED <<rows, era, packages>> /\ disk' \subseteq File
    BY <1>1, <1>16 DEF EndRestore, SweepUploads, Leave, JobStep
  <2> QED BY <1>1, <1>2, <2>1, RestOK, TypedByJob, ReadsByJob
<1>17. ASSUME NEW w \in Worker, ClearAll(w) \/ ClearSoftcopies(w) PROVE RestoreTypeOK' /\ ReadsOK'
  <2>1. UNCHANGED <<disk, era, packages>>
    BY <1>17 DEF ClearAll, ClearSoftcopies
  <2>2. CASE JobStep(w, Rest) /\ rows' = rows
    BY <1>1, <1>2, <2>1, <2>2, RestOK, TypedByJob, ReadsByJob
  <2>3. CASE RacingStep(w, [jobs[w] EXCEPT !.at = "sweep"]) /\ rows' = {}
    BY <1>1, <1>2, <2>1, <2>3, TypedByJob, ReadsByRacing
  <2> QED BY <1>17, <2>2, <2>3, RacingSteps
<1> QED BY <1>3, <1>4, <1>5, <1>6, <1>7, <1>8, <1>9, <1>10, <1>11, <1>12, <1>13, <1>14, <1>15, <1>16, <1>17
        DEF RestoreNext

\* Where packages come from.
LEMMA PackageSteps ==
  ASSUME RestoreTypeOK, [RestoreNext]_pvars
  PROVE  \/ packages' = packages
         \/ \E b \in Package : DeleteBackup(b)
         \/ \E w \in Worker : WriteBackup(w)
BY DEF RestoreNext, pvars, ProcessEnds, BeginCreation, BeginBackup, BeginRestore, CommitCreation,
       ReadSoftcopies, ReadRevisions, CommitRestore, WipeUploads, WriteUpload, EndRestore,
       ClearAll, ClearSoftcopies, SweepUploads

\* The package that a backup writes.
LEMMA PackageWritten ==
  ASSUME RestoreTypeOK, NEW w \in Worker, WriteBackup(w)
  PROVE  \E p \in PackageRecord :
           /\ packages' = [packages EXCEPT ![jobs[w].file] = p] /\ jobs[w].file \in Package
           /\ p.documents = jobs[w].pack.documents /\ p.softcopies = jobs[w].pack.softcopies
           /\ p.revisions = jobs[w].pack.revisions /\ p.raced = jobs[w].pack.raced
           /\ p.files = FilesOf(jobs[w].pack.revisions) \cap disk
<1> DEFINE p == [jobs[w].pack EXCEPT !.files = Packed(w)]
<1>1. jobs[w].pack \in PackageRecord /\ disk \subseteq File
  BY DEF RestoreTypeOK, RestoreJob
<1>2. /\ p \in PackageRecord
      /\ p.documents = jobs[w].pack.documents /\ p.softcopies = jobs[w].pack.softcopies
      /\ p.revisions = jobs[w].pack.revisions /\ p.raced = jobs[w].pack.raced
      /\ p.files = FilesOf(jobs[w].pack.revisions) \cap disk
  BY <1>1 DEF PackageRecord, Packed
<1>3. packages' = [packages EXCEPT ![jobs[w].file] = p] /\ jobs[w].file \in Package
  BY DEF WriteBackup, RestoreTypeOK, Reading
<1> QED BY <1>2, <1>3

\* A deleted package is not kept, and the others are as they were.
LEMMA PackageDeleted ==
  ASSUME RestoreTypeOK, NEW b \in Package, DeleteBackup(b)
  PROVE  packages'[b].status # "kept" /\ \A c \in Package \ {b} : packages'[c] = packages[c]
BY DEF DeleteBackup, RestoreTypeOK, PackageRecord

LEMMA RestorePackages ==
  RestoreTypeOK /\ ReadsOK /\ PackagesOK /\ [RestoreNext]_pvars => PackagesOK'
<1> SUFFICES ASSUME RestoreTypeOK, ReadsOK, PackagesOK, [RestoreNext]_pvars PROVE PackagesOK'
  OBVIOUS
<1>1. CASE packages' = packages
  BY <1>1 DEF PackagesOK, Restorable
<1>2. ASSUME NEW b \in Package, DeleteBackup(b) PROVE PackagesOK'
  BY <1>2, PackageDeleted DEF PackagesOK, Restorable
<1>3. ASSUME NEW w \in Worker, WriteBackup(w) PROVE PackagesOK'
  <2>1. PICK p \in PackageRecord :
           /\ packages' = [packages EXCEPT ![jobs[w].file] = p]
           /\ p.documents = jobs[w].pack.documents /\ p.softcopies = jobs[w].pack.softcopies
           /\ p.revisions = jobs[w].pack.revisions /\ p.raced = jobs[w].pack.raced
    BY <1>3, PackageWritten
  <2>2. \A b \in Package : packages'[b] = IF b = jobs[w].file THEN p ELSE packages[b]
    BY <2>1 DEF RestoreTypeOK
  <2>3. ~p.raced => p.documents = rows /\ p.softcopies = rows /\ p.revisions = rows
    BY <1>3, <2>1 DEF WriteBackup, ReadsOK, Reading
  <2>4. ~p.raced => Restorable(p) /\ p.revisions = p.documents
    BY <2>3 DEF Restorable
  <2> QED BY <2>2, <2>4 DEF PackagesOK, Restorable
<1> QED BY <1>1, <1>2, <1>3, PackageSteps

\* A handler that replaces nothing moves on while nobody replaces anything.
LEMMA QuietStep ==
  ASSUME RestoreTypeOK, Undisturbed, NEW w \in Worker,
         \A v \in Worker : jobs[v].at \notin Replacing, jobs'[w].at \notin Replacing,
         \A v \in Worker \ {w} :
           \/ jobs'[v] = Rest
           \/ /\ jobs'[v].at = jobs[v].at /\ jobs'[v].file = jobs[v].file
              /\ jobs'[v].pack.revisions = jobs[v].pack.revisions,
         FilesOf(rows) \subseteq FilesOf(rows'), FilesOf(rows') \subseteq FilesOf(rows) \cup disk',
         disk \subseteq disk',
         \A b \in Package : packages'[b].status = "kept" => HasFiles(packages'[b]),
         Fits(jobs'[w], rows', disk')
  PROVE  Undisturbed'
<1>1. Replacing = {"restore", "wipe", "write", "clear", "sweep"} /\ Rest.at = "rest"
  BY RestOK DEF Replacing
<1>2. \A v \in Worker : jobs'[v].at \notin Replacing
  BY <1>1
<1>3. ~Lost
  BY <1>1 DEF Undisturbed, Replaced
<1>4. ~Lost'
  BY <1>3 DEF Lost
<1>5. ASSUME NEW v \in Worker \ {w} PROVE Fits(jobs'[v], rows', disk')
  <2>1. CASE jobs'[v] = Rest
    BY <1>1, <2>1 DEF Fits
  <2>2. CASE jobs'[v] # Rest
    BY <1>1, <1>2, <2>2 DEF Undisturbed, Fits
  <2> QED BY <2>1, <2>2
<1> QED BY <1>2, <1>4, <1>5 DEF Undisturbed

\* A handler moves on while the others rest.
LEMMA LoneStep ==
  ASSUME NEW w \in Worker, \A v \in Worker \ {w} : jobs'[v] = Rest,
         \A b \in Package : packages'[b].status = "kept" => HasFiles(packages'[b]),
         Fits(jobs'[w], rows', disk'), Lost' => jobs'[w].at \in {"wipe", "write"}
  PROVE  Undisturbed'
<1>1. Rest.at = "rest" /\ "rest" \notin Replacing
  BY RestOK DEF Replacing
<1>2. ASSUME NEW v \in Worker PROVE Fits(jobs'[v], rows', disk')
  BY <1>1, <1>2 DEF Fits
<1> QED BY <1>1, <1>2 DEF Undisturbed, Replaced

\* A handler that is not resting: one that replaces is alone, others see nobody replace.
LEMMA AloneOrQuiet ==
  ASSUME RestoreTypeOK, Undisturbed, NEW w \in Worker, jobs[w].at # "rest"
  PROVE  /\ jobs[w].at \in Replacing => \A v \in Worker \ {w} : jobs[v] = Rest
         /\ jobs[w].at \notin Replacing => (\A v \in Worker : jobs[v].at \notin Replacing) /\ ~Lost
         /\ jobs[w].at \notin {"wipe", "write"} => ~Lost
<1>1. jobs[w] # Rest /\ Rest.at = "rest" /\ {"wipe", "write"} \subseteq Replacing /\ "rest" \notin Replacing
  BY RestOK DEF Replacing
<1>2. jobs[w].at \in Replacing => \A v \in Worker \ {w} : jobs[v] = Rest
  BY DEF Undisturbed
<1>3. jobs[w].at \notin Replacing => \A v \in Worker : jobs[v].at \notin Replacing
  BY <1>1 DEF Undisturbed
<1>4. ASSUME jobs[w].at \notin {"wipe", "write"} PROVE ~Lost
  BY <1>1, <1>2, <1>3, <1>4 DEF Undisturbed, Replaced, Replacing
<1> QED BY <1>1, <1>2, <1>3, <1>4

\* Who enters without crossing another handler.
LEMMA EntersAlone ==
  ASSUME RestoreTypeOK, Undisturbed, NEW w \in Worker, NEW j \in RestoreJob, Enter(w, j), ~crossed'
  PROVE  /\ \A v \in Worker : jobs[v].at \notin Replacing
         /\ j.at \in Replacing => \A v \in Worker : jobs[v] = Rest
         /\ ~Lost
<1>1. jobs[w] = Rest /\ Rest.at = "rest" /\ "rest" \notin Replacing /\ {"wipe", "write"} \subseteq Replacing
  BY RestOK DEF Enter, Replacing
<1>2. \A v \in Worker : jobs[v] = Rest \/ (j.at \notin Replacing /\ jobs[v].at \notin Replacing)
  BY DEF Enter
<1>3. \A v \in Worker : jobs[v].at \notin Replacing
  BY <1>1, <1>2
<1>4. ~Lost
  BY <1>1, <1>3 DEF Undisturbed, Replaced
<1> QED BY <1>2, <1>3, <1>4

\* Both flags stay up.
LEMMA FlagsStay ==
  ASSUME [RestoreNext]_pvars
  PROVE  (cut => cut') /\ (crossed => crossed')
<1>1. CASE UNCHANGED <<cut, crossed>>
  BY <1>1
<1>2. ASSUME ProcessEnds PROVE (cut => cut') /\ (crossed => crossed')
  BY <1>2, Zenon DEF ProcessEnds
<1>3. ASSUME NEW w \in Worker, NEW j, Enter(w, j) PROVE crossed => crossed'
  BY <1>3, Zenon DEF Enter
<1>4. ASSUME NEW w \in Worker, WriteBackup(w) PROVE (cut => cut') /\ (crossed => crossed')
  BY <1>4, Zenon DEF WriteBackup
<1>5. ASSUME NEW w \in Worker, WipeUploads(w) PROVE (cut => cut') /\ (crossed => crossed')
  BY <1>5, Zenon DEF WipeUploads
<1>6. ASSUME NEW w \in Worker, NEW f \in File, BeginCreation(w, f) PROVE (cut => cut') /\ (crossed => crossed')
  BY <1>3, <1>6, Zenon DEF BeginCreation
<1>7. ASSUME NEW w \in Worker, NEW b \in Package, NEW for \in {"none", "ALL", "SOFTCOPY"}, BeginBackup(w, b, for)
      PROVE  (cut => cut') /\ (crossed => crossed')
  BY <1>3, <1>7, Zenon DEF BeginBackup
<1>8. ASSUME NEW w \in Worker, NEW b \in Package, BeginRestore(w, b) PROVE (cut => cut') /\ (crossed => crossed')
  BY <1>3, <1>8, Zenon DEF BeginRestore
<1>9. \/ UNCHANGED <<cut, crossed>> \/ ProcessEnds
      \/ \E w \in Worker : WriteBackup(w) \/ WipeUploads(w) \/ (\E f \in File : BeginCreation(w, f))
           \/ \E b \in Package : \/ BeginRestore(w, b)
                                 \/ \E for \in {"none", "ALL", "SOFTCOPY"} : BeginBackup(w, b, for)
  <2>1. CASE UNCHANGED pvars
    BY <2>1 DEF pvars
  <2>2. ASSUME NEW b \in Package, DeleteBackup(b) PROVE UNCHANGED <<cut, crossed>>
    BY <2>2 DEF DeleteBackup
  <2>3. ASSUME NEW w \in Worker, CommitCreation(w) \/ ReadSoftcopies(w) \/ ReadRevisions(w) \/ CommitRestore(w)
        PROVE  UNCHANGED <<cut, crossed>>
    BY <2>3 DEF CommitCreation, ReadSoftcopies, ReadRevisions, CommitRestore
  <2>4. ASSUME NEW w \in Worker,
               WriteUpload(w) \/ EndRestore(w) \/ ClearAll(w) \/ ClearSoftcopies(w) \/ SweepUploads(w)
        PROVE  UNCHANGED <<cut, crossed>>
    BY <2>4 DEF WriteUpload, EndRestore, ClearAll, ClearSoftcopies, SweepUploads
  <2> QED BY <2>1, <2>2, <2>3, <2>4 DEF RestoreNext
<1> QED BY <1>1, <1>2, <1>4, <1>5, <1>6, <1>7, <1>8, <1>9

LEMMA RestoreStep ==
  ASSUME RestoreTypeOK, ReadsOK, Undisturbed, [RestoreNext]_pvars, ~cut', ~crossed'
  PROVE  Undisturbed'
<1>1. /\ \A w \in Worker : jobs[w] \in RestoreJob
      /\ \A w \in Worker : [jobs[w] EXCEPT !.at = "wipe"] \in RestoreJob
      /\ \A w \in Worker : [jobs[w] EXCEPT !.at = "sweep"] \in RestoreJob
      /\ \A w \in Worker : [jobs[w] EXCEPT !.at = "wipe"].at = "wipe"
      /\ \A w \in Worker : [jobs[w] EXCEPT !.at = "wipe"].pack = jobs[w].pack
      /\ \A w \in Worker : [jobs[w] EXCEPT !.at = "sweep"].at = "sweep"
  BY DEF RestoreTypeOK, RestoreJob
<1>2. /\ Replacing = {"restore", "wipe", "write", "clear", "sweep"}
      /\ Reading = {"softcopies", "revisions", "pack"} /\ Rest.at = "rest" /\ Rest \in RestoreJob
      /\ \A b \in Package : packages[b].status = "kept" => HasFiles(packages[b])
      /\ \A w \in Worker : Fits(jobs[w], rows, disk)
  BY RestOK DEF Replacing, Reading, Undisturbed
<1>3. CASE UNCHANGED pvars
  BY <1>3 DEF pvars, Undisturbed, Lost, Replaced
<1>4. CASE ProcessEnds
  <2>1. UNCHANGED <<rows, disk, packages>> /\ \A w \in Worker : jobs'[w] = Rest /\ jobs[w].at \notin {"wipe", "write"}
    BY <1>4 DEF ProcessEnds
  <2>2. ~Lost'
    BY <2>1 DEF Undisturbed, Replaced, Lost
  <2>3. \A w \in Worker : Fits(jobs'[w], rows', disk')
    BY <1>2, <2>1 DEF Fits
  <2> QED BY <1>2, <2>1, <2>2, <2>3 DEF Undisturbed
<1>5. ASSUME NEW b \in Package, DeleteBackup(b) PROVE Undisturbed'
  <2>1. UNCHANGED <<rows, disk, jobs>> /\ \A c \in Package : packages'[c].status = "kept" => packages'[c] = packages[c]
    BY <1>5, PackageDeleted DEF DeleteBackup
  <2>2. (Lost' <=> Lost) /\ (Replaced' <=> Replaced)
    BY <2>1 DEF Lost, Replaced
  <2> QED BY <1>2, <2>1, <2>2 DEF Undisturbed
<1>6. ASSUME NEW w \in Worker, NEW f \in File, BeginCreation(w, f) PROVE Undisturbed'
  <2>1. PICK j \in RestoreJob : JobStep(w, j) /\ j.at = "save" /\ j.file = f
    BY <1>6, JobSteps
  <2>2. /\ jobs'[w] = j /\ \A v \in Worker \ {w} : jobs'[v] = jobs[v]
        /\ rows' = rows /\ disk' = disk \cup {f} /\ packages' = packages
    BY <1>6, <2>1, AfterJobStep DEF BeginCreation
  <2>3. \A v \in Worker : jobs[v].at \notin Replacing
    BY <1>2, <1>6, EntersAlone, RestOK DEF BeginCreation, Enter
  <2>4. Fits(jobs'[w], rows', disk')
    BY <2>1, <2>2 DEF Fits
  <2> QED BY <1>2, <2>1, <2>2, <2>3, <2>4, QuietStep
<1>7. ASSUME NEW w \in Worker, NEW b \in Package, NEW for \in {"none", "ALL", "SOFTCOPY"}, BeginBackup(w, b, for)
      PROVE  Undisturbed'
  <2>1. PICK j \in RestoreJob : JobStep(w, j) /\ j.at = "softcopies"
    BY <1>7, JobSteps
  <2>2. /\ jobs'[w] = j /\ \A v \in Worker \ {w} : jobs'[v] = jobs[v]
        /\ UNCHANGED <<rows, disk, packages>>
    BY <1>7, <2>1, AfterJobStep DEF BeginBackup
  <2>3. \A v \in Worker : jobs[v].at \notin Replacing
    BY <1>2, <1>7 DEF BeginBackup, Enter
  <2>4. Fits(jobs'[w], rows', disk')
    BY <2>1, <2>2 DEF Fits
  <2> QED BY <1>2, <2>1, <2>2, <2>3, <2>4, QuietStep
<1>8. ASSUME NEW w \in Worker, NEW b \in Package, BeginRestore(w, b) PROVE Undisturbed'
  <2>1. PICK j \in RestoreJob : JobStep(w, j) /\ j.at = "restore" /\ j.pack = packages[b]
    BY <1>8, JobSteps
  <2>2. /\ jobs'[w] = j /\ \A v \in Worker \ {w} : jobs'[v] = jobs[v]
        /\ UNCHANGED <<rows, disk, packages>> /\ packages[b].status = "kept"
    BY <1>8, <2>1, AfterJobStep DEF BeginRestore
  <2>3. \A v \in Worker : jobs[v] = Rest
    <3> DEFINE k == [Rest EXCEPT !.at = "restore", !.pack = packages[b], !.for = b]
    <3>1. k.at = "restore" /\ Enter(w, k)
      BY <1>8, RestOK DEF BeginRestore, Rest
    <3> HIDE DEF k
    <3> QED BY <1>2, <3>1 DEF Enter
  <2>4. ~Lost'
    BY <1>2, <2>2, <2>3 DEF Undisturbed, Replaced, Lost
  <2>5. Fits(jobs'[w], rows', disk')
    BY <1>2, <2>1, <2>2 DEF Fits
  <2> QED BY <1>2, <2>2, <2>3, <2>4, <2>5, LoneStep
<1>9. ASSUME NEW w \in Worker, CommitCreation(w) PROVE Undisturbed'
  <2>1. RacingStep(w, Rest) /\ Rest.at \notin Reading
    BY <1>2, <1>9, RacingSteps
  <2>2. /\ UNCHANGED <<disk, packages>> /\ jobs[w].at = "save" /\ jobs'[w] = Rest
        /\ FilesOf(rows') = FilesOf(rows) \cup {jobs[w].file}
    <3> DEFINE r == [file |-> jobs[w].file, id |-> era]
    <3>1. UNCHANGED <<disk, packages>> /\ jobs[w].at = "save" /\ rows' = rows \cup {r} /\ r.file = jobs[w].file
      BY <1>9 DEF CommitCreation
    <3>2. jobs'[w] = Rest
      BY <1>2, <2>1, AfterRacingStep
    <3> HIDE DEF r
    <3>3. FilesOf(rows \cup {r}) = FilesOf(rows) \cup {r.file}
      BY DEF FilesOf
    <3> QED BY <3>1, <3>2, <3>3
  <2>3. (\A v \in Worker : jobs[v].at \notin Replacing) /\ jobs[w].file \in disk
    BY <1>2, <2>2, AloneOrQuiet DEF Fits
  <2>4. \A v \in Worker \ {w} :
           \/ jobs'[v] = Rest
           \/ /\ jobs'[v].at = jobs[v].at /\ jobs'[v].file = jobs[v].file
              /\ jobs'[v].pack.revisions = jobs[v].pack.revisions
    BY <1>2, <2>1, AfterRacingStep
  <2>5. Fits(jobs'[w], rows', disk')
    BY <1>2, <2>2 DEF Fits
  <2> QED BY <1>2, <2>2, <2>3, <2>4, <2>5, QuietStep
<1>10. ASSUME NEW w \in Worker, ReadSoftcopies(w) \/ ReadRevisions(w) PROVE Undisturbed'
  <2>1. PICK j \in RestoreJob : /\ JobStep(w, j) /\ j.at \in {"revisions", "pack"}
                                /\ j.at = "pack" => j.pack.revisions = rows
    BY <1>10, JobSteps
  <2>2. /\ jobs'[w] = j /\ \A v \in Worker \ {w} : jobs'[v] = jobs[v]
        /\ UNCHANGED <<rows, disk, packages>> /\ jobs[w].at \in {"softcopies", "revisions"}
    BY <1>10, <2>1, AfterJobStep DEF ReadSoftcopies, ReadRevisions
  <2>3. \A v \in Worker : jobs[v].at \notin Replacing
    BY <1>2, <2>2, AloneOrQuiet
  <2>4. Fits(jobs'[w], rows', disk')
    BY <2>1, <2>2 DEF Fits
  <2> QED BY <1>2, <2>1, <2>2, <2>3, <2>4, QuietStep
<1>11. ASSUME NEW w \in Worker, WriteBackup(w) PROVE Undisturbed'
  <2>1. PICK j \in RestoreJob : JobStep(w, j) /\ (j = Rest \/ (j.at = "clear" /\ jobs[w].for # "none"))
    BY <1>11, JobSteps
  <2>2. /\ jobs'[w] = j /\ \A v \in Worker \ {w} : jobs'[v] = jobs[v]
        /\ UNCHANGED <<rows, disk>> /\ jobs[w].at = "pack"
    BY <1>11, <2>1, AfterJobStep DEF WriteBackup
  <2>3. (\A v \in Worker : jobs[v].at \notin Replacing) /\ ~Lost
    BY <1>2, <2>2, AloneOrQuiet
  <2>4. \A b \in Package : packages'[b].status = "kept" => HasFiles(packages'[b])
    <3>1. PICK p \in PackageRecord :
            /\ packages' = [packages EXCEPT ![jobs[w].file] = p]
            /\ p.revisions = jobs[w].pack.revisions
            /\ p.files = FilesOf(jobs[w].pack.revisions) \cap disk
      BY <1>11, PackageWritten
    <3>2. \A b \in Package : packages'[b] = IF b = jobs[w].file THEN p ELSE packages[b]
      BY <3>1 DEF RestoreTypeOK
    <3>3. HasFiles(p)
      BY <1>2, <2>2, <2>3, <3>1 DEF HasFiles, Fits, Lost
    <3> QED BY <1>2, <3>2, <3>3
  <2>5. Fits(jobs'[w], rows', disk')
    BY <1>2, <2>1, <2>2 DEF Fits
  <2>6. CASE j = Rest
    BY <1>2, <2>2, <2>3, <2>4, <2>5, <2>6, QuietStep
  <2>7. CASE jobs[w].for # "none"
    <3>1. \A v \in Worker \ {w} : jobs'[v] = Rest
      BY <1>11, <2>2, <2>7 DEF WriteBackup
    <3>2. ~Lost'
      BY <2>2, <2>3 DEF Lost
    <3> QED BY <2>4, <2>5, <3>1, <3>2, LoneStep
  <2> QED BY <2>1, <2>6, <2>7
<1>12. ASSUME NEW w \in Worker, CommitRestore(w) PROVE Undisturbed'
  <2>1. /\ UNCHANGED <<disk, packages>> /\ jobs[w].at = "restore" /\ ~Lost
        /\ (\A v \in Worker \ {w} : jobs[v] = Rest) /\ HasFiles(jobs[w].pack)
    BY <1>2, <1>12, AloneOrQuiet DEF CommitRestore, Fits
  <2>2. CASE JobStep(w, Rest) /\ rows' = rows
    <3>1. jobs'[w] = Rest /\ (\A v \in Worker \ {w} : jobs'[v] = Rest) /\ ~Lost'
      BY <1>2, <2>1, <2>2, AfterJobStep DEF Lost
    <3>2. Fits(jobs'[w], rows', disk')
      BY <1>2, <3>1 DEF Fits
    <3> QED BY <1>2, <2>1, <3>1, <3>2, LoneStep
  <2>3. CASE /\ RacingStep(w, [jobs[w] EXCEPT !.at = "wipe"])
             /\ FilesOf(rows') = FilesOf(jobs[w].pack.revisions)
    <3> DEFINE j == [jobs[w] EXCEPT !.at = "wipe"]
    <3>1. j \in RestoreJob /\ j.at = "wipe" /\ j.pack = jobs[w].pack /\ RacingStep(w, j) /\ j.at \notin Reading
      BY <1>1, <1>2, <2>3
    <3> HIDE DEF j
    <3>2. jobs'[w] = j /\ (\A v \in Worker \ {w} : jobs'[v] = Rest)
      BY <1>2, <2>1, <3>1, AfterRacingStep
    <3>3. Fits(jobs'[w], rows', disk')
      BY <2>1, <2>3, <3>1, <3>2 DEF Fits
    <3> QED BY <1>2, <2>1, <3>1, <3>2, <3>3, LoneStep
  <2> QED BY <1>12, <2>2, <2>3, RacingSteps
<1>13. ASSUME NEW w \in Worker, WipeUploads(w) PROVE Undisturbed'
  <2>1. PICK j \in RestoreJob : /\ JobStep(w, j) /\ j.at = "write" /\ j.pack = jobs[w].pack
                                /\ j.todo = jobs[w].pack.files
    BY <1>13, JobSteps
  <2>2. UNCHANGED <<rows, packages>> /\ jobs[w].at = "wipe" /\ jobs'[w] = j
        /\ (\A v \in Worker \ {w} : jobs'[v] = Rest)
    BY <1>2, <1>13, <2>1, AloneOrQuiet, AfterJobStep DEF WipeUploads
  <2>3. Fits(jobs'[w], rows', disk')
    BY <1>2, <2>1, <2>2 DEF Fits
  <2> QED BY <1>2, <2>1, <2>2, <2>3, LoneStep
<1>14. ASSUME NEW w \in Worker, WriteUpload(w) PROVE Undisturbed'
  <2>1. PICK f \in jobs[w].todo, j \in RestoreJob :
           /\ JobStep(w, j) /\ j.at = "write" /\ j.pack = jobs[w].pack
           /\ j.todo = jobs[w].todo \ {f} /\ disk' = disk \cup {f}
    BY <1>14, JobSteps
  <2>2. UNCHANGED <<rows, packages>> /\ jobs[w].at = "write" /\ jobs'[w] = j
        /\ (\A v \in Worker \ {w} : jobs'[v] = Rest)
    BY <1>2, <1>14, <2>1, AloneOrQuiet, AfterJobStep DEF WriteUpload
  <2>3. Fits(jobs'[w], rows', disk')
    BY <1>2, <2>1, <2>2 DEF Fits
  <2> QED BY <1>2, <2>1, <2>2, <2>3, LoneStep
<1>15. ASSUME NEW w \in Worker, EndRestore(w) PROVE Undisturbed'
  <2>1. /\ JobStep(w, Rest) /\ UNCHANGED <<rows, disk, packages>>
        /\ jobs[w].at = "write" /\ jobs[w].todo = {}
    BY <1>15 DEF EndRestore, Leave, JobStep
  <2>2. jobs'[w] = Rest /\ (\A v \in Worker \ {w} : jobs'[v] = Rest)
    BY <1>2, <2>1, AloneOrQuiet, AfterJobStep
  <2>3. ~Lost'
    BY <1>2, <2>1 DEF Fits, HasFiles, Lost
  <2>4. Fits(jobs'[w], rows', disk')
    BY <1>2, <2>2 DEF Fits
  <2> QED BY <1>2, <2>1, <2>2, <2>3, <2>4, LoneStep
<1>16. ASSUME NEW w \in Worker, ClearAll(w) \/ ClearSoftcopies(w) PROVE Undisturbed'
  <2>1. UNCHANGED <<disk, packages>> /\ jobs[w].at = "clear" /\ ~Lost
        /\ (\A v \in Worker \ {w} : jobs[v] = Rest)
    BY <1>2, <1>16, AloneOrQuiet DEF ClearAll, ClearSoftcopies
  <2>2. CASE JobStep(w, Rest) /\ rows' = rows
    <3>1. jobs'[w] = Rest /\ (\A v \in Worker \ {w} : jobs'[v] = Rest) /\ ~Lost'
      BY <1>2, <2>1, <2>2, AfterJobStep DEF Lost
    <3>2. Fits(jobs'[w], rows', disk')
      BY <1>2, <3>1 DEF Fits
    <3> QED BY <1>2, <2>1, <3>1, <3>2, LoneStep
  <2>3. CASE RacingStep(w, [jobs[w] EXCEPT !.at = "sweep"]) /\ rows' = {}
    <3> DEFINE j == [jobs[w] EXCEPT !.at = "sweep"]
    <3>1. j \in RestoreJob /\ j.at = "sweep" /\ RacingStep(w, j) /\ j.at \notin Reading
      BY <1>1, <1>2, <2>3
    <3> HIDE DEF j
    <3>2. jobs'[w] = j /\ (\A v \in Worker \ {w} : jobs'[v] = Rest)
      BY <1>2, <2>1, <3>1, AfterRacingStep
    <3>3. Fits(jobs'[w], rows', disk') /\ ~Lost'
      BY <2>3, <3>1, <3>2 DEF Fits, Lost, FilesOf
    <3> QED BY <1>2, <2>1, <3>2, <3>3, LoneStep
  <2> QED BY <1>16, <2>2, <2>3, RacingSteps
<1>17. ASSUME NEW w \in Worker, SweepUploads(w) PROVE Undisturbed'
  <2>1. JobStep(w, Rest) /\ UNCHANGED <<rows, packages>> /\ jobs[w].at = "sweep"
    BY <1>17 DEF SweepUploads, Leave, JobStep
  <2>2. jobs'[w] = Rest /\ (\A v \in Worker \ {w} : jobs'[v] = Rest)
    BY <1>2, <2>1, AloneOrQuiet, AfterJobStep
  <2>3. ~Lost'
    BY <1>2, <2>1 DEF Fits, FilesOf, Lost
  <2>4. Fits(jobs'[w], rows', disk')
    BY <1>2, <2>2 DEF Fits
  <2> QED BY <1>2, <2>1, <2>2, <2>3, <2>4, LoneStep
<1> QED BY <1>3, <1>4, <1>5, <1>6, <1>7, <1>8, <1>9, <1>10, <1>11, <1>12, <1>13, <1>14, <1>15, <1>16, <1>17
        DEF RestoreNext

\* createBackup, restoreBackupPackageSafely and factoryReset, with crashes between any two
\* steps: rows keep their files and backups bring back what was there, unless a restore was
\* cut short or ran across another handler.
THEOREM RowsAndFilesAreKept == RestoreSpec => []FilesAreKept
<1>1. RestoreInit => RestoreInv
  <2> SUFFICES ASSUME RestoreInit PROVE RestoreInv
    OBVIOUS
  <2>1. /\ rows = {} /\ disk = {} /\ era = 0
        /\ packages = [b \in Package |-> NoPackage] /\ jobs = [w \in Worker |-> Rest]
    BY DEF RestoreInit
  <2>2. RestoreTypeOK
    BY <2>1, RestOK DEF RestoreTypeOK, Reading
  <2>3. ReadsOK /\ PackagesOK
    BY <2>1, RestOK DEF ReadsOK, PackagesOK, Reading
  <2>4. Undisturbed
    BY <2>1, RestOK DEF Undisturbed, Lost, FilesOf, Fits, Replacing
  <2> QED BY <2>2, <2>3, <2>4 DEF RestoreInv
<1>2. RestoreInv /\ [RestoreNext]_pvars => RestoreInv'
  <2> SUFFICES ASSUME RestoreInv, [RestoreNext]_pvars PROVE RestoreInv'
    OBVIOUS
  <2>1. RestoreTypeOK' /\ ReadsOK' /\ PackagesOK'
    BY RestoreReads, RestorePackages DEF RestoreInv
  <2>2. ASSUME ~cut', ~crossed' PROVE Undisturbed'
    BY <2>2, FlagsStay, RestoreStep DEF RestoreInv
  <2> QED BY <2>1, <2>2 DEF RestoreInv
<1>3. RestoreInv => FilesAreKept
  <2> SUFFICES ASSUME RestoreInv PROVE FilesAreKept
    OBVIOUS
  <2>1. RowsHaveFiles
    BY DEF RestoreInv, Undisturbed, RowsHaveFiles
  <2>2. BackupIsWhole
    BY DEF RestoreInv, PackagesOK, Undisturbed, HasFiles, BackupIsWhole
  <2> QED BY <2>1, <2>2 DEF FilesAreKept
<1> QED BY <1>1, <1>2, <1>3, PTL DEF RestoreSpec

=============================================================================
