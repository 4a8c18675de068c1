------------------------ MODULE AccessRequestsProofs ------------------------
(***************************************************************************)
(* Proofs about AccessRequests, for any number of users, requests and      *)
(* overlapping handlers.                                                   *)
(***************************************************************************)
EXTENDS AccessRequests, TLAPS

-----------------------------------------------------------------------------
(* One row and its history *)

\* The first decision on a row is its only one.
LEMMA DecisionKeepsTrail ==
  ASSUME NEW r \in RequestRecord, NEW u, NEW o \in Decision \cup {"cancel"},
         o = "cancel" => u = r.user, o \in Decision => u = r.approver
  PROVE  RowTrail([r EXCEPT !.status = IF o = "cancel" THEN "CANCELLED" ELSE o],
                  {[op |-> o, by |-> u]})
BY DEF RowTrail, RequestRecord, Decision, Pending

\* Granting, revoking and expiring an approved request decide nothing again.
LEMMA AccessKeepsTrail ==
  ASSUME NEW r \in RequestRecord, NEW l, RowTrail(r, l),
         NEW o \in {"grant", "revoke", "expire"},
         [op |-> "APPROVED", by |-> r.approver] \in l,
         o = "revoke" => [op |-> "grant", by |-> r.approver] \in l,
         NEW st, st = CASE o = "grant"  -> "AccessGranted"
                        [] o = "revoke" -> "REVOKED"
                        [] o = "expire" -> "EXPIRED"
  PROVE  RowTrail([r EXCEPT !.status = st], l \cup {[op |-> o, by |-> r.approver]})
BY DEF RowTrail, RequestRecord, Decision, Pending

-----------------------------------------------------------------------------
(* Every step preserves the invariant *)

LEMMA InitInv == Init => AccessInv
<1> SUFFICES ASSUME Init PROVE AccessInv
  OBVIOUS
<1>1. AccessTypeOK
  BY AccessAssumption DEF Init, AccessTypeOK, NoRequest, Idle, RequestRecord, RequestStatus
<1>2. AccessTrail
  BY AccessAssumption DEF Init, AccessTrail
<1>3. RequestTrail
  BY DEF Init, RequestTrail, RowTrail, NoRequest, Pending, Decision
<1>4. \A s \in Slot : HandlerOK(tx[s]) /\ tx[s].op # "create"
  BY DEF Init, HandlerOK, Idle
<1>5. \A q \in Request : requests[q].status = "NONE"
  BY DEF Init, NoRequest
<1> QED BY <1>1, <1>2, <1>3, <1>4, <1>5 DEF AccessInv

\* A handler that starts changes its slot only.
LEMMA Begins ==
  ASSUME AccessInv, NEW s \in Slot, NEW o \in Action \cup {"create"}, NEW u \in User,
         NEW q \in Request, NEW rec \in RequestRecord, Begin(s, o, u, q, rec),
         HandlerOK([op |-> o, by |-> u, req |-> q, row |-> rec]),
         \A r \in Slot : tx[r].op = "create" \/ o = "create" => tx[r].req # q
  PROVE  AccessInv'
<1> DEFINE x == [op |-> o, by |-> u, req |-> q, row |-> rec]
<1>1. tx' = [tx EXCEPT ![s] = x] /\ UNCHANGED <<final, approver, assigned, requests, log>>
  BY DEF Begin
<1>2. AccessTypeOK'
  BY <1>1 DEF AccessInv, AccessTypeOK
<1>3. AccessTrail' /\ RequestTrail' /\ (\A p \in Request : requests[p].status # "NONE" => requests[p].user \in User)'
  BY <1>1 DEF AccessInv, AccessTrail, RequestTrail, Did
<1>4. \A r \in Slot : tx'[r] = IF r = s THEN x ELSE tx[r]
  BY <1>1 DEF AccessInv, AccessTypeOK
<1>5. \A r \in Slot : HandlerOK(tx[r])'
  BY <1>1, <1>4 DEF AccessInv, HandlerOK, Did
<1>6. \A r, p \in Slot : r # p /\ tx'[r].op = "create" => tx'[p].req # tx'[r].req
  BY <1>4 DEF AccessInv
<1> QED BY <1>2, <1>3, <1>5, <1>6 DEF AccessInv

\* What every handler in flight knows of its request.
LEMMA RunningFacts ==
  ASSUME AccessInv, NEW s \in Slot, tx[s].op # "idle"
  PROVE  LET q == tx[s].req  r == requests[q] IN
         /\ q \in Request /\ tx[s].by \in User
         /\ tx[s].op = "create" => r.status = "NONE" /\ tx[s].row.user \in User
                                   /\ tx[s].row.status = "ForAccessApproval"
         /\ tx[s].op # "create" => r.status # "NONE" /\ r.user \in User
         /\ tx[s].op = "cancel" => tx[s].by = r.user
         /\ tx[s].op \in Decision \cup {"grant", "revoke", "expire"} => tx[s].by = r.approver
         /\ tx[s].op \in {"grant", "revoke", "expire"} =>
              [op |-> "APPROVED", by |-> r.approver] \in log[q]
         /\ tx[s].op = "revoke" => [op |-> "grant", by |-> r.approver] \in log[q]
<1>1. HandlerOK(tx[s])
  BY DEF AccessInv
<1> QED BY <1>1 DEF HandlerOK, Did

\* A handler that begins on an existing request leaves those that create others alone.
LEMMA NotBeingCreated ==
  ASSUME AccessInv, NEW q \in Request, requests[q].status # "NONE", NEW r \in Slot,
         tx[r].op = "create"
  PROVE  tx[r].req # q
BY RunningFacts

LEMMA HandlerBegins ==
  ASSUME AccessInv, NEW s \in Slot, NEW u \in User, NEW q \in Request,
         \/ BeginCreate(s, u, q) \/ BeginCancel(s, u, q)
         \/ \E d \in Decision : BeginReview(s, u, q, d)
         \/ \E o \in Action : BeginAccess(s, u, q, o)
  PROVE  AccessInv'
<1>r. /\ requests[q] \in RequestRecord /\ RowTrail(requests[q], log[q])
      /\ requests[q].status # "NONE" => requests[q].user \in User
  BY DEF AccessInv, AccessTypeOK, RequestTrail
<1>n. NoRequest \in RequestRecord
  BY DEF NoRequest, RequestRecord, RequestStatus
<1>1. CASE BeginCreate(s, u, q)
  <2> DEFINE rec == [status |-> "ForAccessApproval", user |-> u, approver |-> approver]
  <2>1. rec \in RequestRecord
    BY AccessAssumption DEF AccessInv, AccessTypeOK, RequestRecord, RequestStatus, Pending
  <2>2. HandlerOK([op |-> "create", by |-> u, req |-> q, row |-> rec])
    BY <1>1 DEF HandlerOK, BeginCreate, Decision
  <2>3. Begin(s, "create", u, q, rec) /\ \A r \in Slot : tx[r].req # q
    BY <1>1 DEF BeginCreate
  <2> HIDE DEF rec
  <2> QED BY <2>1, <2>2, <2>3, Begins
<1>2. CASE BeginCancel(s, u, q)
  <2>1. /\ HandlerOK([op |-> "cancel", by |-> u, req |-> q, row |-> NoRequest])
        /\ requests[q].status # "NONE" /\ Begin(s, "cancel", u, q, NoRequest)
    BY <1>2 DEF HandlerOK, BeginCancel, Pending, Decision
  <2> QED BY <1>n, <2>1, NotBeingCreated, Begins DEF Action
<1>3. ASSUME NEW d \in Decision, BeginReview(s, u, q, d) PROVE AccessInv'
  <2>1. /\ HandlerOK([op |-> d, by |-> u, req |-> q, row |-> NoRequest])
        /\ requests[q].status # "NONE" /\ Begin(s, d, u, q, NoRequest) /\ d # "create"
    BY <1>r, <1>3 DEF HandlerOK, BeginReview, Pending, Decision
  <2> QED BY <1>n, <2>1, NotBeingCreated, Begins DEF Action
<1>4. ASSUME NEW o \in Action, BeginAccess(s, u, q, o) PROVE AccessInv'
  <2>1. /\ HandlerOK([op |-> o, by |-> u, req |-> q, row |-> NoRequest])
        /\ requests[q].status # "NONE" /\ Begin(s, o, u, q, NoRequest) /\ o # "create"
    BY <1>r, <1>4 DEF HandlerOK, BeginAccess, Expected, RowTrail, Did, Decision
  <2> QED BY <1>n, <2>1, NotBeingCreated, Begins
<1> QED BY <1>1, <1>2, <1>3, <1>4

LEMMA CreateCommits ==
  ASSUME AccessInv, NEW s \in Slot, CommitCreate(s)
  PROVE  AccessInv'
<1> SUFFICES ASSUME NEW q, q = tx[s].req, NEW rec, rec = tx[s].row PROVE AccessInv'
  OBVIOUS
<1>1. /\ tx[s].op = "create" /\ requests' = [requests EXCEPT ![q] = rec]
      /\ tx' = [tx EXCEPT ![s] = Idle] /\ UNCHANGED <<final, approver, assigned, log>>
  BY DEF CommitCreate, Done
<1>2. /\ q \in Request /\ requests[q].status = "NONE"
      /\ rec.status = "ForAccessApproval" /\ rec.user \in User
  BY <1>1, RunningFacts
<1>3. rec \in RequestRecord /\ Idle.row \in RequestRecord
  BY DEF AccessInv, AccessTypeOK, Idle, NoRequest, RequestRecord, RequestStatus
<1>4. AccessTypeOK'
  BY <1>1, <1>2, <1>3 DEF AccessInv, AccessTypeOK, Idle
<1>5. \A p \in Request : requests'[p] = IF p = q THEN rec ELSE requests[p]
  BY <1>1 DEF AccessInv, AccessTypeOK
<1>6. log[q] = {} /\ RowTrail(rec, {})
  BY <1>2 DEF AccessInv, RequestTrail, RowTrail, Pending
<1>7. RequestTrail'
  BY <1>1, <1>5, <1>6 DEF AccessInv, RequestTrail
<1>8. AccessTrail'
  BY <1>1, <1>5, <1>6 DEF AccessInv, AccessTrail, Did
<1>9. \A r \in Slot : tx'[r] = IF r = s THEN Idle ELSE tx[r]
  BY <1>1 DEF AccessInv, AccessTypeOK
<1>10. ASSUME NEW r \in Slot PROVE HandlerOK(tx[r])'
  <2>1. CASE r = s
    BY <1>9, <2>1 DEF HandlerOK, Idle
  <2>2. CASE r # s
    <3>1. tx[r].req # q /\ HandlerOK(tx[r]) /\ tx'[r] = tx[r]
      BY <1>1, <1>9, <2>2 DEF AccessInv
    <3> QED BY <1>1, <1>5, <3>1 DEF HandlerOK, Did
  <2> QED BY <2>1, <2>2
<1>c. \A r \in Slot : tx[r].op = "create" => tx[r].req \in Request
  BY RunningFacts
<1>11. \A r, p \in Slot : r # p /\ tx'[r].op = "create" => tx'[p].req # tx'[r].req
  BY <1>9, <1>c, AccessAssumption DEF AccessInv, Idle
<1>12. \A p \in Request : requests'[p].status # "NONE" => requests'[p].user \in User
  BY <1>2, <1>5 DEF AccessInv
<1> QED BY <1>4, <1>7, <1>8, <1>10, <1>11, <1>12 DEF AccessInv

\* A handler's write of the row r with the history entry e, and of an assignment.
LEMMA RowWritten ==
  ASSUME AccessInv, NEW s \in Slot, tx[s].op \notin {"idle", "create"},
         NEW q, q = tx[s].req, NEW r \in RequestRecord, NEW e \in [op : Action, by : User],
         requests' = [requests EXCEPT ![q] = r], log' = [log EXCEPT ![q] = @ \cup {e}],
         r.user = requests[q].user, r.approver = requests[q].approver, r.status # "NONE",
         RowTrail(r, log[q] \cup {e}),
         tx' = [tx EXCEPT ![s] = Idle], UNCHANGED <<final, approver>>,
         assigned' \in [User -> User \cup {NoUser}],
         \A u \in User : \/ assigned'[u] \in {assigned[u], NoUser}
                         \/ /\ u = r.user /\ assigned'[u] = r.approver
                            /\ [op |-> "APPROVED", by |-> r.approver] \in log[q]
                            /\ e = [op |-> "grant", by |-> r.approver]
  PROVE  AccessInv'
<1>1. q \in Request /\ requests[q].status # "NONE" /\ requests[q].user \in User
  BY RunningFacts
<1>2. AccessTypeOK'
  BY <1>1, AccessAssumption
  DEF AccessInv, AccessTypeOK, Idle, NoRequest, RequestRecord, RequestStatus
<1>t. requests \in [Request -> RequestRecord] /\ log \in [Request -> SUBSET [op : Action, by : User]]
  BY DEF AccessInv, AccessTypeOK
<1>q. requests'[q] = r /\ log'[q] = log[q] \cup {e}
  BY <1>1, <1>t
<1>3. \A p \in Request : p # q => requests'[p] = requests[p] /\ log'[p] = log[p]
  BY <1>t
<1>4. \A p \in Request : /\ requests'[p].user = requests[p].user
                         /\ requests'[p].approver = requests[p].approver
                         /\ \A f : f \in log[p] => f \in log'[p]
  BY <1>q, <1>3
<1>5. RequestTrail'
  <2>1. \A p \in Request : RowTrail(requests[p], log[p])
    BY DEF AccessInv, RequestTrail
  <2>2. ASSUME NEW p \in Request PROVE RowTrail(requests'[p], log'[p])
    <3>1. CASE p = q
      BY <1>q, <3>1
    <3>2. CASE p # q
      BY <1>3, <2>1, <3>2
    <3> QED BY <3>1, <3>2
  <2> QED BY <2>2 DEF RequestTrail
<1>6. ASSUME NEW u \in User, assigned'[u] \notin Admins \cup {NoUser},
             ~(u = Creator /\ assigned'[u] = Creator)
      PROVE  \E p \in Request :
               /\ requests'[p].user = u /\ requests'[p].approver = assigned'[u]
               /\ [op |-> "APPROVED", by |-> assigned'[u]] \in log'[p]
               /\ [op |-> "grant", by |-> assigned'[u]] \in log'[p]
  <2>1. CASE assigned'[u] = assigned[u]
    <3>1. PICK p \in Request :
            /\ requests[p].user = u /\ requests[p].approver = assigned[u]
            /\ [op |-> "APPROVED", by |-> assigned[u]] \in log[p]
            /\ [op |-> "grant", by |-> assigned[u]] \in log[p]
      BY <1>6, <2>1 DEF AccessInv, AccessTrail, Did
    <3> QED BY <1>4, <2>1, <3>1
  <2>2. CASE /\ u = r.user /\ assigned'[u] = r.approver
             /\ [op |-> "APPROVED", by |-> r.approver] \in log[q]
             /\ e = [op |-> "grant", by |-> r.approver]
    <3>2. requests'[q].user = u /\ requests'[q].approver = assigned'[u]
      BY <2>2, <1>q
    <3>3. [op |-> "APPROVED", by |-> assigned'[u]] \in log[q]
      BY <2>2
    <3>4. e = [op |-> "grant", by |-> assigned'[u]]
      BY <2>2
    <3> QED BY <1>1, <1>q, <3>2, <3>3, <3>4
  <2> QED BY <1>6, <2>1, <2>2
<1>7. AccessTrail'
  BY <1>6 DEF AccessTrail, Did
<1>8. \A p \in Slot : tx'[p] = IF p = s THEN Idle ELSE tx[p]
  BY DEF AccessInv, AccessTypeOK
<1>9. ASSUME NEW p \in Slot PROVE HandlerOK(tx[p])'
  <2>1. CASE p = s
    BY <1>8, <2>1 DEF HandlerOK, Idle
  <2>2. CASE p # s
    <3> SUFFICES ASSUME NEW x, x = tx[p], x.op # "idle" PROVE HandlerOK(x)'
      BY <1>8, <2>2 DEF HandlerOK
    <3>1. HandlerOK(x) /\ x.req \in Request
      BY RunningFacts DEF AccessInv
    <3>2. x.op = "create" => x.req # q
      BY <1>1, RunningFacts
    <3>3. requests[x.req].status # "NONE" => requests'[x.req].status # "NONE"
      BY <1>q, <1>3, <3>1
    <3> QED BY <1>3, <1>4, <3>1, <3>2, <3>3 DEF HandlerOK, Did
  <2> QED BY <2>1, <2>2
<1>c. \A a \in Slot : tx[a].op = "create" => tx[a].req \in Request
  BY RunningFacts
<1>10. \A a, p \in Slot : a # p /\ tx'[a].op = "create" => tx'[p].req # tx'[a].req
  BY <1>8, <1>c, AccessAssumption DEF AccessInv, Idle
<1>11. \A p \in Request : requests'[p].status # "NONE" => requests'[p].user \in User
  BY <1>1, <1>3, <1>4 DEF AccessInv
<1> QED BY <1>2, <1>5, <1>7, <1>9, <1>10, <1>11 DEF AccessInv

\* A handler that is refused leaves its slot and nothing else.
LEMMA Refused ==
  ASSUME AccessInv, NEW s \in Slot, tx' = [tx EXCEPT ![s] = Idle],
         UNCHANGED <<final, approver, assigned, requests, log>>
  PROVE  AccessInv'
<1>1. AccessTypeOK'
  BY AccessAssumption
  DEF AccessInv, AccessTypeOK, Idle, NoRequest, RequestRecord, RequestStatus
<1>2. /\ AccessTrail' /\ RequestTrail'
      /\ \A p \in Request : requests'[p].status # "NONE" => requests'[p].user \in User
  BY DEF AccessInv, AccessTrail, RequestTrail, Did
<1>3. \A r \in Slot : tx'[r] = IF r = s THEN Idle ELSE tx[r]
  BY DEF AccessInv, AccessTypeOK
<1>4. \A r \in Slot : HandlerOK(tx[r])'
  BY <1>3 DEF AccessInv, HandlerOK, Did, Idle
<1>5. \A r \in Slot : tx[r].op = "create" => tx[r].req \in Request
  BY RunningFacts
<1>6. \A r, p \in Slot : r # p /\ tx'[r].op = "create" => tx'[p].req # tx'[r].req
  BY <1>3, <1>5, AccessAssumption DEF AccessInv, Idle
<1> QED BY <1>1, <1>2, <1>4, <1>6 DEF AccessInv

LEMMA DecisionCommits ==
  ASSUME AccessInv, NEW s \in Slot, CommitDecision(s)
  PROVE  AccessInv'
<1> SUFFICES ASSUME NEW q, q = tx[s].req, NEW o, o = tx[s].op, NEW u, u = tx[s].by,
                    NEW e, e = [op |-> o, by |-> u]
             PROVE  AccessInv'
  OBVIOUS
<1>1. /\ o \in Decision \cup {"cancel"} /\ o \notin {"idle", "create"} /\ o \in Action
      /\ tx' = [tx EXCEPT ![s] = Idle] /\ UNCHANGED <<final, approver, assigned>>
  BY DEF CommitDecision, Done, Decision, Action
<1>2. CASE ~StillPending(q)
  BY <1>1, <1>2, Refused DEF CommitDecision
<1>3. CASE StillPending(q)
  <2> DEFINE st == IF o = "cancel" THEN "CANCELLED" ELSE o
             r  == [requests[q] EXCEPT !.status = st]
  <2>1. /\ requests' = [requests EXCEPT ![q] = r]
        /\ log' = [log EXCEPT ![q] = @ \cup {e}]
    BY <1>3 DEF CommitDecision, Write
  <2>2. /\ q \in Request /\ u \in User
        /\ o = "cancel" => u = requests[q].user
        /\ o \in Decision => u = requests[q].approver
    BY <1>1, RunningFacts
  <2>3. /\ requests[q] \in RequestRecord /\ log[q] = {}
        /\ assigned \in [User -> User \cup {NoUser}]
    BY <1>3, <2>2 DEF AccessInv, AccessTypeOK, RequestTrail, RowTrail, StillPending
  <2>4. RowTrail(r, {e})
    BY <1>1, <2>2, <2>3, DecisionKeepsTrail
  <2>5. /\ r \in RequestRecord /\ r.user = requests[q].user
        /\ r.approver = requests[q].approver /\ r.status # "NONE"
    BY <1>1, <2>3 DEF RequestRecord, RequestStatus, Decision
  <2>6. e \in [op : Action, by : User] /\ log[q] \cup {e} = {e}
    BY <1>1, <2>2, <2>3
  <2> HIDE DEF r
  <2>7. RowTrail(r, log[q] \cup {e})
    BY <2>4, <2>6
  <2>8. assigned' \in [User -> User \cup {NoUser}] /\ \A v \in User : assigned'[v] \in {assigned[v], NoUser}
    BY <1>1, <2>3
  <2> QED BY <1>1, <2>1, <2>2, <2>5, <2>6, <2>7, <2>8, RowWritten
<1> QED BY <1>2, <1>3

\* Grant, revoke and expire, with the assignments they leave.
LEMMA AccessCommits ==
  ASSUME AccessInv, NEW s \in Slot, NEW q, q = tx[s].req,
         NEW o \in {"grant", "revoke", "expire"}, o = tx[s].op, NEW u, u = tx[s].by,
         NEW st, st = CASE o = "grant"  -> "AccessGranted"
                        [] o = "revoke" -> "REVOKED"
                        [] o = "expire" -> "EXPIRED",
         Write(q, st, o, u), tx' = [tx EXCEPT ![s] = Idle], UNCHANGED <<final, approver>>,
         assigned' = CASE o = "grant"  -> [assigned EXCEPT ![requests[q].user] = u]
                       [] o = "revoke" -> [assigned EXCEPT ![requests[q].user] = NoUser]
                       [] o = "expire" -> assigned
  PROVE  AccessInv'
<1> DEFINE e == [op |-> o, by |-> u]
           r == [requests[q] EXCEPT !.status = st]
<1>1. /\ q \in Request /\ u \in User /\ u = requests[q].approver /\ requests[q].user \in User
      /\ [op |-> "APPROVED", by |-> requests[q].approver] \in log[q]
      /\ o = "revoke" => [op |-> "grant", by |-> requests[q].approver] \in log[q]
  BY RunningFacts
<1>2. /\ requests[q] \in RequestRecord /\ RowTrail(requests[q], log[q])
      /\ assigned \in [User -> User \cup {NoUser}]
  BY <1>1 DEF AccessInv, AccessTypeOK, RequestTrail
<1>3. requests' = [requests EXCEPT ![q] = r] /\ log' = [log EXCEPT ![q] = @ \cup {e}]
  BY DEF Write
<1>4. RowTrail(r, log[q] \cup {e})
  BY <1>1, <1>2, AccessKeepsTrail
<1>5. /\ r \in RequestRecord /\ r.user = requests[q].user
      /\ r.approver = requests[q].approver /\ r.status # "NONE"
  BY <1>2 DEF RequestRecord, RequestStatus
<1>6. e \in [op : Action, by : User] /\ tx[s].op \notin {"idle", "create"}
  BY <1>1 DEF Action
<1>7. assigned' \in [User -> User \cup {NoUser}]
  BY <1>1, <1>2
<1>8. \A v \in User : \/ assigned'[v] \in {assigned[v], NoUser}
                      \/ /\ v = r.user /\ assigned'[v] = r.approver
                         /\ [op |-> "APPROVED", by |-> r.approver] \in log[q]
                         /\ e = [op |-> "grant", by |-> r.approver]
  BY <1>1, <1>2, <1>5
<1> HIDE DEF e, r
<1> QED BY <1>3, <1>4, <1>5, <1>6, <1>7, <1>8, RowWritten, ZenonT(180)

LEMMA HandlerSteps ==
  ASSUME AccessInv, NEW s \in Slot, Handler(s)
  PROVE  AccessInv'
<1>1. CASE CommitGrant(s)
  BY <1>1, AccessCommits DEF CommitGrant, Done
<1>2. CASE CommitRevoke(s)
  BY <1>2, AccessCommits DEF CommitRevoke, Done
<1>3. CASE CommitExpire(s)
  BY <1>3, AccessCommits DEF CommitExpire, Done
<1> QED BY <1>1, <1>2, <1>3, HandlerBegins, CreateCommits, DecisionCommits DEF Handler

\* What happens around the requests changes no row, no history and no handler; an
\* administrator's assignment is one.
LEMMA Surroundings ==
  ASSUME AccessInv, UNCHANGED <<requests, log, tx>>,
         final' \in BOOLEAN, approver' \in Approvers \cup {NoUser},
         assigned' \in [User -> User \cup {NoUser}],
         \A u \in User : assigned'[u] \in {assigned[u], NoUser} \cup Admins
  PROVE  AccessInv'
<1>1. AccessTypeOK'
  BY DEF AccessInv, AccessTypeOK
<1>2. AccessTrail'
  BY DEF AccessInv, AccessTrail, Did
<1>3. /\ RequestTrail' /\ \A s \in Slot : HandlerOK(tx[s])'
      /\ \A p \in Request : requests'[p].status # "NONE" => requests'[p].user \in User
      /\ \A r, p \in Slot : r # p /\ tx'[r].op = "create" => tx'[p].req # tx'[r].req
  BY DEF AccessInv, RequestTrail, HandlerOK, Did
<1> QED BY <1>1, <1>2, <1>3 DEF AccessInv

LEMMA StepInv == AccessInv /\ [Next]_avars => AccessInv'
<1> SUFFICES ASSUME AccessInv, [Next]_avars PROVE AccessInv'
  OBVIOUS
<1>1. /\ final \in BOOLEAN /\ approver \in Approvers \cup {NoUser}
      /\ assigned \in [User -> User \cup {NoUser}] /\ Admins \subseteq User
  BY AccessAssumption DEF AccessInv, AccessTypeOK
<1>2. ASSUME NEW a \in Admins, NEW U \in SUBSET User, SetAssignments(a, U) PROVE AccessInv'
  BY <1>1, <1>2, Surroundings DEF SetAssignments
<1>3. ASSUME NEW a \in Admins, NEW u \in User, NEW b, SetUserAssignments(a, u, b)
      PROVE  AccessInv'
  BY <1>1, <1>3, Surroundings DEF SetUserAssignments
<1>4. ASSUME NEW u \in Approvers \cup {NoUser}, ConfigureApprover(u) PROVE AccessInv'
  BY <1>1, <1>4, Surroundings DEF ConfigureApprover
<1>5. CASE ChangeDocument
  BY <1>1, <1>5, Surroundings DEF ChangeDocument
<1>6. CASE UNCHANGED avars
  BY <1>1, <1>6, Surroundings DEF avars
<1> QED BY <1>2, <1>3, <1>4, <1>5, <1>6, HandlerSteps DEF Next

\* However many handlers overlap, no request gets ahead of its history, and nobody but
\* the creator is assigned without an administrator or an approved request.
THEOREM AccessSafe == Spec => []AccessInv
<1>1. Init => AccessInv
  BY InitInv
<1>2. AccessInv /\ [Next]_avars => AccessInv'
  BY StepInv
<1> QED BY <1>1, <1>2, PTL DEF Spec

\* Whoever sees the document created it, was assigned by an administrator, or was
\* granted access by the approver of an own request that this approver had approved.
THEOREM AccessIsGranted == Spec => []AccessTrail
<1>1. AccessInv => AccessTrail
  BY DEF AccessInv
<1> QED BY <1>1, AccessSafe, PTL

\* review() and cancel(): a request is decided at most once, and nothing later than
\* the decision happens to it without the approval it stands for.
THEOREM DecidedOnce == Spec => []RequestTrail
<1>1. AccessInv => RequestTrail
  BY DEF AccessInv
<1> QED BY <1>1, AccessSafe, PTL

-----------------------------------------------------------------------------
(* Refusals are final *)

\* A request that is cancelled or refused was not approved.
LEMMA RefusedNotApproved ==
  ASSUME AccessInv, NEW q \in Request,
         requests[q].status \in {"CANCELLED", "REJECTED", "RETURNED"}
  PROVE  \A u : [op |-> "APPROVED", by |-> u] \notin log[q]
<1>1. RowTrail(requests[q], log[q])
  BY DEF AccessInv, RequestTrail
<1> QED BY <1>1 DEF RowTrail

LEMMA RefusedStep ==
  ASSUME AccessInv, [Next]_avars, NEW q \in Request,
         requests[q].status \in {"CANCELLED", "REJECTED", "RETURNED"}
  PROVE  requests'[q] = requests[q] /\ log'[q] = log[q]
<1>t. /\ requests \in [Request -> RequestRecord]
      /\ log \in [Request -> SUBSET [op : Action, by : User]]
  BY DEF AccessInv, AccessTypeOK
<1>1. CASE UNCHANGED <<requests, log>>
  BY <1>1
<1>2. ASSUME NEW s \in Slot, CommitCreate(s)
      PROVE  requests'[q] = requests[q] /\ log'[q] = log[q]
  <2>1. tx[s].op = "create" /\ tx[s].req # q
    BY <1>2, RunningFacts DEF CommitCreate
  <2> QED BY <1>t, <1>2, <2>1 DEF CommitCreate
<1>3. ASSUME NEW s \in Slot, CommitDecision(s)
      PROVE  requests'[q] = requests[q] /\ log'[q] = log[q]
  BY <1>t, <1>3 DEF CommitDecision, StillPending, Pending, Write
<1>4. ASSUME NEW s \in Slot, CommitGrant(s) \/ CommitRevoke(s) \/ CommitExpire(s)
      PROVE  requests'[q] = requests[q] /\ log'[q] = log[q]
  <2>1. tx[s].op \in {"grant", "revoke", "expire"}
    BY <1>4 DEF CommitGrant, CommitRevoke, CommitExpire
  <2>2. tx[s].req # q
    BY <2>1, RunningFacts, RefusedNotApproved
  <2>3. PICK st, o : Write(tx[s].req, st, o, tx[s].by)
    BY <1>4 DEF CommitGrant, CommitRevoke, CommitExpire
  <2> QED BY <1>t, <2>2, <2>3 DEF Write
<1>5. \/ UNCHANGED <<requests, log>>
      \/ \E s \in Slot : \/ CommitCreate(s) \/ CommitDecision(s)
                        \/ CommitGrant(s) \/ CommitRevoke(s) \/ CommitExpire(s)
  BY DEF Next, Handler, avars, BeginCreate, BeginCancel, BeginReview, BeginAccess, Begin,
         SetAssignments, SetUserAssignments, ConfigureApprover, ChangeDocument
<1> QED BY <1>1, <1>2, <1>3, <1>4, <1>5

\* A cancelled, rejected or returned request stays so, whatever is in flight.
THEOREM RefusalsStand == Spec => RefusedForGood
<1>1. AccessInv /\ [Next]_avars =>
        [\A q \in Request : requests[q].status \in {"CANCELLED", "REJECTED", "RETURNED"} =>
           requests'[q] = requests[q] /\ log'[q] = log[q]]_avars
  BY RefusedStep
<1> QED BY <1>1, AccessSafe, PTL DEF Spec, RefusedForGood

=============================================================================
