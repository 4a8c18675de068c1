--------------------------- MODULE AccessRequests ---------------------------
(***************************************************************************)
(* Who may see one document: DocumentAccessRequestsService lets a user ask *)
(* for access and the document's approver decide, grant, revoke and expire *)
(* it; administrators assign the document directly.                        *)
(*                                                                         *)
(* Handlers read and check in one step (Begin...) and write in another:    *)
(* cancel and review write on the condition that the request is still      *)
(* pending, the others without one.  Remarks, dates and the permissions of *)
(* roles are left out.                                                     *)
(***************************************************************************)
CONSTANTS
  User, NoUser,
  Creator,   \* the user who created the document
  Admins,    \* accounts with an administrative role
  Approvers, \* accounts that may decide access requests
  Request,   \* document_access_requests rows
  Slot       \* how many handlers can run at once

ASSUME AccessAssumption ==
  /\ NoUser \notin User /\ "none" \notin Request /\ Creator \in User
  /\ Admins \subseteq User /\ Approvers \subseteq User

VARIABLES
  final,     \* whether the document is Approved or Completed
  approver,  \* access_approver_user_id, or else document_owner_user_id
  assigned,  \* document_assignments: assigned_by of each user, or NoUser
  requests,  \* the document_access_requests rows
  log,       \* document_access_request_history: [op, by] of each request
  tx         \* the handlers in flight

avars == <<final, approver, assigned, requests, log, tx>>

Decision      == {"APPROVED", "REJECTED", "RETURNED"}
Action        == Decision \cup {"cancel", "grant", "revoke", "expire"}
Pending       == {"PENDING", "ForAccessApproval"}
RequestStatus == Pending \cup Decision \cup
                 {"NONE", "AccessGranted", "CANCELLED", "REVOKED", "EXPIRED"}

NoRequest == [status |-> "NONE", user |-> NoUser, approver |-> NoUser]

Idle == [op |-> "idle", by |-> NoUser, req |-> "none", row |-> NoRequest]

Begin(s, o, u, q, row) ==
  /\ tx[s] = Idle
  /\ tx' = [tx EXCEPT ![s] = [op |-> o, by |-> u, req |-> q, row |-> row]]
  /\ UNCHANGED <<final, approver, assigned, requests, log>>

Done(s) == tx' = [tx EXCEPT ![s] = Idle]

Write(q, status, o, u) ==
  /\ requests' = [requests EXCEPT ![q].status = status]
  /\ log' = [log EXCEPT ![q] = @ \cup {[op |-> o, by |-> u]}]

-----------------------------------------------------------------------------
(* create *)

HasPending(u) == \E q \in Request : requests[q].user = u /\ requests[q].status \in Pending

BeginCreate(s, u, q) ==
  /\ final /\ approver # NoUser /\ assigned[u] = NoUser /\ ~HasPending(u)
  /\ requests[q].status = "NONE" /\ \A r \in Slot : tx[r].req # q
  /\ Begin(s, "create", u, q,
       [status |-> "ForAccessApproval", user |-> u, approver |-> approver])

CommitCreate(s) ==
  /\ tx[s].op = "create"
  /\ requests' = [requests EXCEPT ![tx[s].req] = tx[s].row]
  /\ Done(s)
  /\ UNCHANGED <<final, approver, assigned, log>>

-----------------------------------------------------------------------------
(* cancel and review: conditional updates *)

BeginCancel(s, u, q) ==
  /\ requests[q].user = u /\ requests[q].status \in Pending
  /\ Begin(s, "cancel", u, q, NoRequest)

\* Mutant: whoever is an approver now decides
BeginReview_Configured(s, u, q, d) ==
  /\ requests[q].status \in Pending /\ u = approver
  /\ Begin(s, d, u, q, NoRequest)

BeginReview(s, u, q, d) ==
  /\ requests[q].status \in Pending /\ u = requests[q].approver
  /\ Begin(s, d, u, q, NoRequest)

\* Mutant: the update has no condition
StillPending_Always(q) == TRUE

StillPending(q) == requests[q].status \in Pending

CommitDecision(s) ==
  LET q == tx[s].req  o == tx[s].op IN
  /\ o \in Decision \cup {"cancel"}
  /\ IF StillPending(q)
     THEN Write(q, IF o = "cancel" THEN "CANCELLED" ELSE o, o, tx[s].by)
     ELSE UNCHANGED <<requests, log>>
  /\ Done(s)
  /\ UNCHANGED <<final, approver, assigned>>

-----------------------------------------------------------------------------
(* grant, revoke and expire: written whatever the status is by then *)

\* The statuses an operation expects
Expected(o) == CASE o = "grant"  -> {"APPROVED"}
                 [] o = "revoke" -> {"AccessGranted"}
                 [] o = "expire" -> {"APPROVED", "AccessGranted"}

BeginAccess(s, u, q, o) ==
  /\ o \in {"grant", "revoke", "expire"}
  /\ requests[q].status \in Expected(o) /\ u = requests[q].approver
  /\ Begin(s, o, u, q, NoRequest)

CommitGrant(s) ==
  LET q == tx[s].req IN
  /\ tx[s].op = "grant"
  /\ assigned' = [assigned EXCEPT ![requests[q].user] = tx[s].by]
  /\ Write(q, "AccessGranted", "grant", tx[s].by)
  /\ Done(s)
  /\ UNCHANGED <<final, approver>>

\* The assignment goes, whoever made it
CommitRevoke(s) ==
  LET q == tx[s].req IN
  /\ tx[s].op = "revoke"
  /\ assigned' = [assigned EXCEPT ![requests[q].user] = NoUser]
  /\ Write(q, "REVOKED", "revoke", tx[s].by)
  /\ Done(s)
  /\ UNCHANGED <<final, approver>>

\* Expiring leaves the assignment alone
CommitExpire(s) ==
  /\ tx[s].op = "expire"
  /\ Write(tx[s].req, "EXPIRED", "expire", tx[s].by)
  /\ Done(s)
  /\ UNCHANGED <<final, approver, assigned>>

-----------------------------------------------------------------------------
(* DocumentsService: assignments, approver configuration, status *)

\* setAssignments replaces the assignments of the document
SetAssignments(a, U) ==
  /\ a \in Admins
  /\ assigned' = [u \in User |-> IF u \in U THEN a ELSE NoUser]
  /\ UNCHANGED <<final, approver, requests, log, tx>>

\* setUserAssignments replaces those of one user
SetUserAssignments(a, u, b) ==
  /\ a \in Admins
  /\ assigned' = [assigned EXCEPT ![u] = b]
  /\ b \in {a, NoUser}
  /\ UNCHANGED <<final, approver, requests, log, tx>>

\* setApproverConfiguration: requests keep the approver they were created with
ConfigureApprover(u) ==
  /\ approver' = u
  /\ UNCHANGED <<final, assigned, requests, log, tx>>

\* The document is disposed, restored, revised, or approved again
ChangeDocument ==
  /\ final' = ~final
  /\ UNCHANGED <<approver, assigned, requests, log, tx>>

-----------------------------------------------------------------------------

\* createRequest assigns the document to its creator; an administrative creator
\* chooses whom, and an imported document has nobody
Init ==
  /\ final = TRUE /\ approver = NoUser
  /\ \E U \in SUBSET User :
       /\ Creator \in Admins \/ U \subseteq {Creator}
       /\ assigned = [u \in User |-> IF u \in U THEN Creator ELSE NoUser]
  /\ requests = [q \in Request |-> NoRequest]
  /\ log = [q \in Request |-> {}]
  /\ tx = [s \in Slot |-> Idle]

Handler(s) ==
  \/ \E u \in User, q \in Request :
       \/ BeginCreate(s, u, q) \/ BeginCancel(s, u, q)
       \/ \E d \in Decision : BeginReview(s, u, q, d)
       \/ \E o \in Action : BeginAccess(s, u, q, o)
  \/ CommitCreate(s) \/ CommitDecision(s)
  \/ CommitGrant(s) \/ CommitRevoke(s) \/ CommitExpire(s)

Next ==
  \/ \E s \in Slot : Handler(s)
  \/ \E a \in Admins, U \in SUBSET User : SetAssignments(a, U)
  \/ \E a \in Admins, u \in User, b \in User \cup {NoUser} : SetUserAssignments(a, u, b)
  \/ \E u \in Approvers \cup {NoUser} : ConfigureApprover(u)
  \/ ChangeDocument

Spec == Init /\ [][Next]_avars

-----------------------------------------------------------------------------
(* Properties *)

RequestRecord == [status : RequestStatus, user : User \cup {NoUser},
                  approver : User \cup {NoUser}]

\* The rows, the history and the handlers in flight have the shapes above.
AccessTypeOK ==
  /\ final \in BOOLEAN /\ approver \in Approvers \cup {NoUser}
  /\ assigned \in [User -> User \cup {NoUser}]
  /\ requests \in [Request -> RequestRecord]
  /\ log \in [Request -> SUBSET [op : Action, by : User]]
  /\ tx \in [Slot -> [op : Action \cup {"create", "idle"}, by : User \cup {NoUser},
                      req : Request \cup {"none"}, row : RequestRecord]]

Did(q, o, u) == [op |-> o, by |-> u] \in log[q]

\* Whoever sees the document created it, was assigned by an administrator, or was
\* granted access by the approver of an own request that this approver had approved.
AccessTrail ==
  \A u \in User : assigned[u] \notin Admins \cup {NoUser} =>
    \/ u = Creator /\ assigned[u] = Creator
    \/ \E q \in Request :
         /\ requests[q].user = u /\ requests[q].approver = assigned[u]
         /\ Did(q, "APPROVED", assigned[u]) /\ Did(q, "grant", assigned[u])

\* What the history l of a row r must hold
RowTrail(r, l) ==
  /\ \A e, f \in l : {e.op, f.op} \subseteq Decision \cup {"cancel"} => e = f
  /\ r.status \in {"NONE"} \cup Pending => l = {}
  /\ r.status \in {"REJECTED", "RETURNED"} => l = {[op |-> r.status, by |-> r.approver]}
  /\ r.status = "CANCELLED" => l = {[op |-> "cancel", by |-> r.user]}
  /\ r.status \in {"APPROVED", "AccessGranted", "REVOKED", "EXPIRED"} =>
       [op |-> "APPROVED", by |-> r.approver] \in l
  /\ r.status \in {"AccessGranted", "REVOKED"} => [op |-> "grant", by |-> r.approver] \in l

\* A request is decided at most once, by its approver or its requester, and has a
\* later status only after the approval and the grant it stands for.
RequestTrail == \A q \in Request : RowTrail(requests[q], log[q])

\* A cancelled, rejected or returned request stays so, whatever is in flight.
RefusedForGood ==
  [][\A q \in Request : requests[q].status \in {"CANCELLED", "REJECTED", "RETURNED"} =>
       requests'[q] = requests[q] /\ log'[q] = log[q]]_avars

-----------------------------------------------------------------------------
(* Inductive invariant *)

HandlerOK(x) ==
  LET q == x.req  r == requests[q] IN
  x.op # "idle" =>
    /\ q \in Request /\ x.by \in User
    /\ x.op = "create" => /\ r.status = "NONE"
                          /\ x.row.status = "ForAccessApproval" /\ x.row.user \in User
    /\ x.op # "create" => r.status # "NONE" /\ r.user \in User
    /\ x.op = "cancel" => x.by = r.user
    /\ x.op \in Decision \cup {"grant", "revoke", "expire"} => x.by = r.approver
    /\ x.op \in {"grant", "revoke", "expire"} => Did(q, "APPROVED", r.approver)
    /\ x.op = "revoke" => Did(q, "grant", r.approver)

\* Whoever sees a document created it, was assigned, or was granted access after an
\* approval (AccessTrail), and a request's status stands for what was done on it by
\* whom (RequestTrail), with what makes them inductive: the handlers in flight had the
\* approval they act on, and a request being created is touched by nobody else.
AccessInv ==
  /\ AccessTypeOK /\ AccessTrail /\ RequestTrail
  /\ \A q \in Request : requests[q].status # "NONE" => requests[q].user \in User
  /\ \A s \in Slot : HandlerOK(tx[s])
  /\ \A r, s \in Slot : r # s /\ tx[r].op = "create" => tx[s].req # tx[r].req

=============================================================================
