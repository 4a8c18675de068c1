----------------------- MODULE HardcopyTransferProofs -----------------------
(***************************************************************************)
(* Proofs about hardcopy transfers, and about the imports of hardcopies    *)
(* and softcopies, for any number of transfers, rows, files, users, places *)
(* and overlapping handlers.                                               *)
(***************************************************************************)
EXTENDS HardcopyTransfer, BatchImport, FolderImport, FiniteSetTheorems, TLAPS

\* The statuses operations lead to are statuses, and none is that of a missing row.
LEMMA Results ==
  ASSUME NEW o \in Action
  PROVE  Result[o] \in TransferStatus \ {"NONE", "Draft"}
BY DEF Result, TransferStatus, Action, RequesterOps, ReviewOps, DispatchOps

\* What the history must hold before an operation, it holds by the status expected.
LEMMA Before ==
  ASSUME TransferInv, NEW t \in Transfer, NEW o \in Action,
         transfers[t].status \in Expected[o]
  PROVE  /\ transfers[t].status # "NONE"
         /\ o \in {"resubmit"} \cup ReviewOps \cup DispatchOps \cup {"accept"} =>
              Recorded(t, "submit", {transfers[t].requester})
         /\ o \in DispatchOps \cup {"accept"} =>
              Recorded(t, "approve", {transfers[t].approver})
         /\ o \in {"await-recipient-acceptance", "accept"} =>
              Recorded(t, "transfer", Admins \cup {transfers[t].approver})
<1>1. transfers[t].status \in TransferStatus
  BY DEF TransferInv, TransferTypeOK, TransferRecord
<1>2. /\ transfers[t].status # "NONE"
      /\ o \in {"resubmit"} \cup ReviewOps \cup DispatchOps \cup {"accept"} =>
           transfers[t].status \in AfterSubmit
      /\ o \in DispatchOps \cup {"accept"} => transfers[t].status \in AfterApproval
      /\ o \in {"await-recipient-acceptance", "accept"} =>
           transfers[t].status \in AfterDispatch
  BY <1>1 DEF Expected, AfterSubmit, AfterApproval, AfterDispatch, Action,
              RequesterOps, ReviewOps, DispatchOps
<1> QED BY <1>2 DEF TransferInv, TransferTrail

-----------------------------------------------------------------------------
(* Every step preserves the invariant *)

LEMMA InitInv == Init => TransferInv
<1> SUFFICES ASSUME Init PROVE TransferInv
  OBVIOUS
<1>1. TransferTypeOK
  BY TransferAssumption
  DEF Init, TransferTypeOK, NoTransfer, Idle, TransferRecord, TransferStatus
<1>2. TransferTrail
  BY DEF Init, TransferTrail, NoTransfer, AfterSubmit, AfterApproval, AfterDispatch
<1>3. \A s \in Slot : HandlerOK(tx[s])
  BY DEF Init, HandlerOK, Idle
<1>4. \A q, s \in Slot : q # s /\ tx[q].pc = "run" /\ tx[q].op = "create" => tx[s].transfer # tx[q].transfer
  BY DEF Init, Idle
<1> QED BY <1>1, <1>2, <1>3, <1>4 DEF TransferInv

\* A handler that starts changes its slot only.
LEMMA CreateBegins ==
  ASSUME TransferInv, NEW s \in Slot, NEW t \in Transfer, NEW u \in User, NEW v \in User,
         NEW a \in Approvers, NEW p \in Place, BeginCreate(s, t, u, v, a, p)
  PROVE  TransferInv'
<1> DEFINE row == [status |-> "Draft", requester |-> u, recipient |-> v,
                   approver |-> a, dest |-> IF p \in routed THEN p ELSE NoPlace]
           x == [pc |-> "run", op |-> "create", by |-> u, transfer |-> t, row |-> row, dest |-> NoPlace]
<1>1. row \in TransferRecord
  BY TransferAssumption DEF TransferRecord, TransferStatus
<1>2. row.status = "Draft"
  OBVIOUS
<1> HIDE DEF row
<1>3. tx' = [tx EXCEPT ![s] = x] /\ UNCHANGED <<place, phase, routed, transfers, log>>
  BY DEF BeginCreate, Begin, row
<1>4. TransferTypeOK'
  BY <1>1, <1>3 DEF TransferInv, TransferTypeOK
<1>5. TransferTrail'
  BY <1>3 DEF TransferInv, TransferTrail, Recorded
<1>6. transfers[t].status = "NONE" /\ \A q \in Slot : tx[q].transfer # t
  BY DEF BeginCreate
<1>7. HandlerOK(x)
  BY <1>2, <1>6 DEF HandlerOK, ReviewOps, DispatchOps
<1>8. \A q \in Slot : tx'[q] = IF q = s THEN x ELSE tx[q]
  BY <1>3 DEF TransferInv, TransferTypeOK
<1>9. \A q \in Slot : HandlerOK(tx[q])'
  BY <1>3, <1>7, <1>8 DEF TransferInv, HandlerOK, Recorded
<1>10. \A q, r \in Slot :
         q # r /\ tx'[q].pc = "run" /\ tx'[q].op = "create" => tx'[r].transfer # tx'[q].transfer
  BY <1>6, <1>8 DEF TransferInv
<1> QED BY <1>4, <1>5, <1>9, <1>10 DEF TransferInv

LEMMA ActionBegins ==
  ASSUME TransferInv, NEW s \in Slot, NEW t \in Transfer, NEW u \in User,
         NEW o \in Action, BeginAction(s, u, t, o)
  PROVE  TransferInv'
<1> DEFINE dest == IF o = "accept" THEN transfers[t].dest ELSE NoPlace
           x == [pc |-> "run", op |-> o, by |-> u, transfer |-> t, row |-> NoTransfer, dest |-> dest]
<1>1. NoTransfer \in TransferRecord /\ dest \in Place \cup {NoPlace}
  BY DEF TransferRecord, TransferStatus, NoTransfer, TransferInv, TransferTypeOK
<1>d. o = "accept" => dest = transfers[t].dest
  OBVIOUS
<1> HIDE DEF dest
<1>2. tx' = [tx EXCEPT ![s] = x] /\ UNCHANGED <<place, phase, routed, transfers, log>>
  BY DEF BeginAction, Begin, dest
<1>3. TransferTypeOK'
  BY <1>1, <1>2 DEF TransferInv, TransferTypeOK
<1>4. TransferTrail'
  BY <1>2 DEF TransferInv, TransferTrail, Recorded
<1>5. transfers[t].status \in Expected[o] /\ MayAct(u, t, o)
  BY DEF BeginAction
<1>6. o \notin {"create", "edit"}
  BY DEF Action, RequesterOps, ReviewOps, DispatchOps
<1>7. HandlerOK(x)
  BY <1>1, <1>d, <1>5, <1>6, Before
  DEF HandlerOK, MayAct, Action, RequesterOps, ReviewOps, DispatchOps
<1>8. \A q \in Slot : tx'[q] = IF q = s THEN x ELSE tx[q]
  BY <1>2 DEF TransferInv, TransferTypeOK
<1>9. \A q \in Slot : HandlerOK(tx[q])'
  BY <1>2, <1>7, <1>8 DEF TransferInv, HandlerOK, Recorded
<1>10. ASSUME NEW q \in Slot, tx[q].pc = "run", tx[q].op = "create"
       PROVE  tx[q].transfer # t
  BY <1>5, <1>10, Before DEF TransferInv, HandlerOK
<1>11. \A q, r \in Slot :
         q # r /\ tx'[q].pc = "run" /\ tx'[q].op = "create" => tx'[r].transfer # tx'[q].transfer
  BY <1>6, <1>8, <1>10 DEF TransferInv
<1> QED BY <1>3, <1>4, <1>9, <1>11 DEF TransferInv

-----------------------------------------------------------------------------
(* Handlers that write, and what changes around them *)

\* What every running handler knows of its transfer.
LEMMA RunningFacts ==
  ASSUME TransferInv, NEW q \in Slot, tx[q].pc = "run", tx[q].op # "edit"
  PROVE  LET t == tx[q].transfer  r == transfers[t] IN
         /\ t \in Transfer
         /\ tx[q].op = "create" => r.status = "NONE" /\ tx[q].row.status = "Draft"
         /\ tx[q].op # "create" =>
              tx[q].op \in Action /\ tx[q].by \in User /\ r.status # "NONE"
         /\ tx[q].op \in {"submit", "resubmit"} => tx[q].by = r.requester
         /\ tx[q].op \in ReviewOps => tx[q].by = r.approver
         /\ tx[q].op \in DispatchOps => tx[q].by \in Admins \cup {r.approver}
         /\ tx[q].op = "accept" => tx[q].by = r.recipient
<1>1. HandlerOK(tx[q])
  BY DEF TransferInv
<1> QED BY <1>1 DEF HandlerOK

\* The place of the copy alone matters to no handler.
LEMMA Moved ==
  ASSUME TransferInv, NEW s \in Slot, tx' = [tx EXCEPT ![s] = Idle], place' \in Place,
         phase' \in {"editable", "final", "disposed"}, UNCHANGED <<routed, transfers, log>>
  PROVE  TransferInv'
<1>1. TransferTypeOK'
  BY TransferAssumption
  DEF TransferInv, TransferTypeOK, Idle, NoTransfer, TransferRecord, TransferStatus
<1>2. TransferTrail'
  BY DEF TransferInv, TransferTrail, Recorded
<1>3. \A q \in Slot : tx'[q] = IF q = s THEN Idle ELSE tx[q]
  BY DEF TransferInv, TransferTypeOK
<1>4. \A q \in Slot : HandlerOK(tx[q])'
  BY <1>3 DEF TransferInv, HandlerOK, Recorded, Idle
<1>5. \A q, r \in Slot : q # r /\ tx'[q].pc = "run" /\ tx'[q].op = "create" =>
                           tx'[r].transfer # tx'[q].transfer
  BY <1>3, RunningFacts, TransferAssumption DEF TransferInv, Idle
<1> QED BY <1>1, <1>2, <1>4, <1>5 DEF TransferInv

\* A handler that is refused leaves its slot and nothing else.
LEMMA Refused ==
  ASSUME TransferInv, NEW s \in Slot, tx' = [tx EXCEPT ![s] = Idle],
         UNCHANGED <<place, phase, routed, transfers, log>>
  PROVE  TransferInv'
BY Moved DEF TransferInv, TransferTypeOK

\* A new row claims nothing of its history, and no other handler knows it.
LEMMA RowCreated ==
  ASSUME TransferInv, NEW s \in Slot, CommitCreate(s), tx[s].row.dest \in routed \cup {NoPlace}
  PROVE  TransferInv'
<1> DEFINE t == tx[s].transfer
<1>1. /\ tx[s].pc = "run" /\ tx[s].op = "create"
      /\ transfers' = [transfers EXCEPT ![t] = tx[s].row]
      /\ tx' = [tx EXCEPT ![s] = Idle] /\ UNCHANGED <<place, phase, routed, log>>
  BY DEF CommitCreate, Done
<1>2. t \in Transfer /\ transfers[t].status = "NONE" /\ tx[s].row.status = "Draft"
  BY <1>1 DEF TransferInv, HandlerOK
<1>3. TransferTypeOK'
  BY <1>1, TransferAssumption
  DEF TransferInv, TransferTypeOK, Idle, NoTransfer, TransferRecord, TransferStatus
<1>4. \A q \in Transfer : transfers'[q] = IF q = t THEN tx[s].row ELSE transfers[q]
  BY <1>1 DEF TransferInv, TransferTypeOK
<1>5. TransferTrail'
  BY <1>1, <1>2, <1>4
  DEF TransferInv, TransferTrail, Recorded, AfterSubmit, AfterApproval, AfterDispatch
<1>6. \A q \in Slot : tx'[q] = IF q = s THEN Idle ELSE tx[q]
  BY <1>1 DEF TransferInv, TransferTypeOK
<1>7. ASSUME NEW q \in Slot, q # s, tx[q].pc = "run" PROVE tx[q].transfer # t
  BY <1>1, <1>7 DEF TransferInv
<1>8. \A q \in Slot : HandlerOK(tx[q])'
  BY <1>1, <1>4, <1>6, <1>7 DEF TransferInv, HandlerOK, Recorded, Idle
<1>9. \A q, r \in Slot : q # r /\ tx'[q].pc = "run" /\ tx'[q].op = "create" =>
                           tx'[r].transfer # tx'[q].transfer
  BY <1>6, RunningFacts, TransferAssumption DEF TransferInv, Idle
<1> QED BY <1>3, <1>5, <1>8, <1>9 DEF TransferInv

LEMMA CreateCommits ==
  ASSUME TransferInv, NEW s \in Slot, CommitCreate(s)
  PROVE  TransferInv'
<1>1. CASE tx[s].row.dest \in routed \cup {NoPlace}
  BY <1>1, RowCreated
<1>2. CASE tx[s].row.dest \notin routed \cup {NoPlace}
  BY <1>2, Refused DEF CommitCreate, Done
<1> QED BY <1>1, <1>2

\* A status is written together with the record of the operation.
LEMMA Advance ==
  ASSUME TransferInv, NEW s \in Slot, tx[s].pc = "run",
         NEW o \in Action, o = tx[s].op, NEW t, t = tx[s].transfer, NEW u, u = tx[s].by,
         transfers' = [transfers EXCEPT ![t].status = Result[o]],
         log' = [log EXCEPT ![t] = @ \cup {[op |-> o, by |-> u]}],
         tx' = [tx EXCEPT ![s] = Idle],
         UNCHANGED <<phase, routed>>, place' \in Place
  PROVE  TransferInv'
<1> DEFINE e == [op |-> o, by |-> u]
<1>1. o \notin {"create", "edit"}
  BY DEF Action, RequesterOps, ReviewOps, DispatchOps
<1>2. t \in Transfer /\ u \in User /\ transfers[t].status # "NONE"
  BY <1>1, RunningFacts
<1>3. Result[o] \in TransferStatus \ {"NONE", "Draft"}
  BY Results
<1>4. TransferTypeOK'
  BY <1>2, <1>3, TransferAssumption
  DEF TransferInv, TransferTypeOK, Idle, NoTransfer, TransferRecord, TransferStatus
<1>5. \A q \in Transfer :
        /\ q # t => transfers'[q] = transfers[q] /\ log'[q] = log[q]
        /\ transfers'[q].requester = transfers[q].requester
        /\ transfers'[q].recipient = transfers[q].recipient
        /\ transfers'[q].approver = transfers[q].approver
        /\ transfers'[q].dest = transfers[q].dest
  BY <1>2 DEF TransferInv, TransferTypeOK, TransferRecord
<1>6. transfers'[t].status = Result[o] /\ log'[t] = log[t] \cup {e}
  BY <1>2 DEF TransferInv, TransferTypeOK, TransferRecord
<1>7. \A q \in Transfer : \A a, U : Recorded(q, a, U) => Recorded(q, a, U)'
  BY <1>5, <1>6 DEF Recorded
<1>8. \A U : u \in U => Recorded(t, o, U)'
  <2>1. e \in log'[t] /\ e.op = o /\ e.by = u
    BY <1>6
  <2> HIDE DEF e
  <2> QED BY <2>1 DEF Recorded
<1>9. TransferTrail'
  <2>1. ASSUME NEW q \in Transfer, q # t
        PROVE  /\ transfers'[q].status \in AfterSubmit =>
                    Recorded(q, "submit", {transfers[q].requester})
               /\ transfers'[q].status \in AfterApproval =>
                    Recorded(q, "approve", {transfers[q].approver})
               /\ transfers'[q].status \in AfterDispatch =>
                    Recorded(q, "transfer", Admins \cup {transfers[q].approver})
               /\ transfers'[q].status = "Completed" =>
                    Recorded(q, "accept", {transfers[q].recipient})
    BY <1>5, <2>1 DEF TransferInv, TransferTrail
  <2>2. Result[o] \in AfterSubmit =>
          o = "submit" \/ Recorded(t, "submit", {transfers[t].requester})
    BY DEF Result, AfterSubmit, TransferInv, HandlerOK, Action, RequesterOps, ReviewOps, DispatchOps
  <2>3. Result[o] \in AfterApproval =>
          o = "approve" \/ Recorded(t, "approve", {transfers[t].approver})
    BY DEF Result, AfterApproval, TransferInv, HandlerOK, Action, RequesterOps, ReviewOps, DispatchOps
  <2>4. Result[o] \in AfterDispatch =>
          o = "transfer" \/ Recorded(t, "transfer", Admins \cup {transfers[t].approver})
    BY DEF Result, AfterDispatch, TransferInv, HandlerOK, Action, RequesterOps, ReviewOps, DispatchOps
  <2>5. Result[o] = "Completed" => o = "accept"
    BY DEF Result, Action, RequesterOps, ReviewOps, DispatchOps
  <2>6. /\ o = "submit" => u = transfers[t].requester
        /\ o = "approve" => u = transfers[t].approver
        /\ o = "transfer" => u \in Admins \cup {transfers[t].approver}
        /\ o = "accept" => u = transfers[t].recipient
    BY RunningFacts, <1>1 DEF ReviewOps, DispatchOps
  <2>7. /\ Result[o] \in AfterSubmit => Recorded(t, "submit", {transfers[t].requester})'
        /\ Result[o] \in AfterApproval => Recorded(t, "approve", {transfers[t].approver})'
        /\ Result[o] \in AfterDispatch => Recorded(t, "transfer", Admins \cup {transfers[t].approver})'
        /\ Result[o] = "Completed" => Recorded(t, "accept", {transfers[t].recipient})'
    BY <1>2, <1>5, <1>7, <1>8, <2>2, <2>3, <2>4, <2>5, <2>6
  <2> QED BY <1>2, <1>5, <1>6, <1>7, <2>1, <2>7 DEF TransferTrail
<1>10. \A q \in Slot : tx'[q] = IF q = s THEN Idle ELSE tx[q]
  BY DEF TransferInv, TransferTypeOK
<1>11. \A q \in Slot : HandlerOK(tx[q])'
  <2>1. HandlerOK(Idle)'
    BY DEF HandlerOK, Idle
  <2>2. ASSUME NEW q \in Slot, q # s, tx[q].pc = "run"
        PROVE  HandlerOK(tx[q])'
    <3>4. tx'[q] = tx[q]
      BY <1>10, <2>2
    <3> SUFFICES ASSUME NEW x, x = tx[q], x.op # "edit" PROVE HandlerOK(x)'
      BY <3>4 DEF HandlerOK
    <3>1. HandlerOK(x) /\ x.pc = "run" /\ x.transfer \in Transfer
      BY <2>2, RunningFacts DEF TransferInv
    <3>2. x.op = "create" => x.transfer # t
      BY <1>2, <2>2, RunningFacts
    <3>3. transfers[x.transfer].status # "NONE" => transfers'[x.transfer].status # "NONE"
      BY <1>3, <1>5, <1>6, <3>1
    <3> QED BY <1>5, <1>7, <3>1, <3>2, <3>3 DEF HandlerOK
  <2> QED BY <1>10, <2>1, <2>2 DEF HandlerOK, Idle
<1>12. \A q, r \in Slot : q # r /\ tx'[q].pc = "run" /\ tx'[q].op = "create" =>
                            tx'[r].transfer # tx'[q].transfer
  BY <1>10, RunningFacts, TransferAssumption DEF TransferInv, Idle
<1> QED BY <1>4, <1>9, <1>11, <1>12 DEF TransferInv

LEMMA StatusCommits ==
  ASSUME TransferInv, NEW s \in Slot, CommitStatus(s)
  PROVE  TransferInv'
<1> SUFFICES ASSUME NEW o, o = tx[s].op, NEW t, t = tx[s].transfer, NEW u, u = tx[s].by
             PROVE  TransferInv'
  OBVIOUS
<1>1. /\ tx[s].pc = "run" /\ o \in Action
      /\ transfers' = [transfers EXCEPT ![t].status = Result[o]]
      /\ log' = [log EXCEPT ![t] = @ \cup {[op |-> o, by |-> u]}]
      /\ tx' = [tx EXCEPT ![s] = Idle]
      /\ UNCHANGED <<place, phase, routed>>
  BY DEF CommitStatus, Done
<1>2. place' \in Place
  BY <1>1 DEF TransferInv, TransferTypeOK
<1> QED BY <1>1, <1>2, Advance

LEMMA AcceptCommits ==
  ASSUME TransferInv, NEW s \in Slot, CommitAccept(s)
  PROVE  TransferInv'
<1> SUFFICES ASSUME NEW o, o = tx[s].op, NEW t, t = tx[s].transfer, NEW u, u = tx[s].by
             PROVE  TransferInv'
  OBVIOUS
<1>1. /\ tx[s].pc = "run" /\ o = "accept" /\ o \in Action
      /\ tx' = [tx EXCEPT ![s] = Idle] /\ UNCHANGED <<phase, routed>>
  BY DEF CommitAccept, Done, Action
<1>2. CASE tx[s].dest \in routed \cup {NoPlace}
  <2>1. /\ place' = IF tx[s].dest = NoPlace THEN place ELSE tx[s].dest
        /\ transfers' = [transfers EXCEPT ![t].status = Result[o]]
        /\ log' = [log EXCEPT ![t] = @ \cup {[op |-> o, by |-> u]}]
    BY <1>1, <1>2 DEF CommitAccept, Result
  <2>2. place' \in Place
    BY <1>2, <2>1 DEF TransferInv, TransferTypeOK
  <2> QED BY <1>1, <2>1, <2>2, Advance
<1>3. CASE tx[s].dest \notin routed \cup {NoPlace}
  BY <1>1, <1>3, Refused DEF CommitAccept
<1> QED BY <1>2, <1>3

LEMMA EditBegins ==
  ASSUME TransferInv, NEW s \in Slot, NEW p \in Place, BeginEdit(s, p)
  PROVE  TransferInv'
<1> DEFINE x == [pc |-> "run", op |-> "edit", by |-> NoUser, transfer |-> "none",
                 row |-> NoTransfer, dest |-> p]
<1>1. tx' = [tx EXCEPT ![s] = x] /\ UNCHANGED <<place, phase, routed, transfers, log>>
  BY DEF BeginEdit, Begin
<1>2. NoTransfer \in TransferRecord
  BY DEF TransferRecord, TransferStatus, NoTransfer
<1>3. TransferTypeOK'
  BY <1>1, <1>2 DEF TransferInv, TransferTypeOK
<1>4. TransferTrail'
  BY <1>1 DEF TransferInv, TransferTrail, Recorded
<1>5. \A q \in Slot : tx'[q] = IF q = s THEN x ELSE tx[q]
  BY <1>1 DEF TransferInv, TransferTypeOK
<1>6. \A q \in Slot : HandlerOK(tx[q])'
  BY <1>1, <1>5 DEF TransferInv, HandlerOK, Recorded
<1>7. \A q, r \in Slot : q # r /\ tx'[q].pc = "run" /\ tx'[q].op = "create" =>
                           tx'[r].transfer # tx'[q].transfer
  BY <1>5, RunningFacts, TransferAssumption DEF TransferInv
<1> QED BY <1>3, <1>4, <1>6, <1>7 DEF TransferInv

LEMMA EditCommits ==
  ASSUME TransferInv, NEW s \in Slot, CommitEdit(s)
  PROVE  TransferInv'
BY Moved DEF CommitEdit, Done, TransferInv, TransferTypeOK

LEMMA DocumentChanges ==
  ASSUME TransferInv, Approve \/ DisposeOrRestore
  PROVE  TransferInv'
BY DEF TransferInv, TransferTypeOK, TransferTrail, HandlerOK, Recorded, Approve, DisposeOrRestore

\* A removed area clears the destination of rows; a handler that has read it
\* will be refused.
LEMMA AreaRemoved ==
  ASSUME TransferInv, NEW p \in Place, RemoveArea(p)
  PROVE  TransferInv'
<1>1. /\ routed' = routed \ {p} /\ UNCHANGED <<place, phase, log, tx>>
      /\ transfers' = [t \in Transfer |->
           IF transfers[t].dest = p THEN [transfers[t] EXCEPT !.dest = NoPlace]
                                    ELSE transfers[t]]
  BY DEF RemoveArea
<1>2. TransferTypeOK'
  BY <1>1 DEF TransferInv, TransferTypeOK, TransferRecord
<1>3. \A t \in Transfer :
        /\ transfers'[t].status = transfers[t].status
        /\ transfers'[t].requester = transfers[t].requester
        /\ transfers'[t].recipient = transfers[t].recipient
        /\ transfers'[t].approver = transfers[t].approver
        /\ transfers[t].dest # p => transfers'[t].dest = transfers[t].dest
  BY <1>1 DEF TransferInv, TransferTypeOK, TransferRecord
<1>4. \A t, a, U : Recorded(t, a, U)' = Recorded(t, a, U)
  BY <1>1 DEF Recorded
<1>5. TransferTrail'
  BY <1>3, <1>4 DEF TransferInv, TransferTrail
<1>6. ASSUME NEW q \in Slot PROVE HandlerOK(tx[q])'
  <2> SUFFICES ASSUME NEW x, x = tx[q] PROVE HandlerOK(x)'
    BY <1>1
  <2>1. HandlerOK(x)
    BY DEF TransferInv
  <2> QED BY <1>1, <1>3, <1>4, <2>1 DEF HandlerOK
<1> QED BY <1>1, <1>2, <1>5, <1>6 DEF TransferInv

LEMMA StepInv == TransferInv /\ [Next]_tvars => TransferInv'
<1> SUFFICES ASSUME TransferInv, [Next]_tvars PROVE TransferInv'
  OBVIOUS
<1>1. ASSUME NEW s \in Slot, Handler(s) PROVE TransferInv'
  BY <1>1, CreateBegins, CreateCommits, ActionBegins, StatusCommits, AcceptCommits,
     EditBegins, EditCommits
  DEF Handler
<1>2. CASE Approve \/ DisposeOrRestore
  BY <1>2, DocumentChanges
<1>3. CASE \E p \in Place : RemoveArea(p)
  BY <1>3, AreaRemoved
<1>4. CASE UNCHANGED tvars
  BY <1>4 DEF tvars, TransferInv, TransferTypeOK, TransferTrail, HandlerOK, Recorded
<1> QED BY <1>1, <1>2, <1>3, <1>4 DEF Next

\* However many handlers overlap, no transfer gets ahead of what its history
\* records the right people to have done.
THEOREM TransfersSafe == Spec => []TransferInv
<1>1. Init => TransferInv
  BY InitInv
<1>2. TransferInv /\ [Next]_tvars => TransferInv'
  BY StepInv
<1> QED BY <1>1, <1>2, PTL DEF Spec

\* changeStatus() and accept(): a transfer is past its approval, its dispatch or its
\* acceptance only if the right people are on record with them.
THEOREM TransfersFollowTrail == Spec => []TransferTrail
<1>1. TransferInv => TransferTrail
  BY DEF TransferInv
<1> QED BY <1>1, TransfersSafe, PTL

-----------------------------------------------------------------------------
(* How the copy moves *)

\* Only an acceptance or an edit moves the copy.
LEMMA OnlyAcceptMoves ==
  ASSUME [Next]_tvars, place' # place
  PROVE  \/ \E s \in Slot : CommitAccept(s)
         \/ \E s \in Edits : place' = tx[s].dest
BY DEF Next, Handler, tvars, BeginCreate, BeginAction, Begin, CommitCreate, CommitStatus,
       BeginEdit, CommitEdit, Edits, Approve, DisposeOrRestore, RemoveArea

LEMMA MoveStep ==
  ASSUME TransferInv, [Next]_tvars, place' # place,
         ~\E s \in Edits : place' = tx[s].dest
  PROVE  \E t \in Transfer :
           /\ place' = transfers'[t].dest
           /\ Recorded(t, "approve", {transfers[t].approver})
           /\ Recorded(t, "transfer", Admins \cup {transfers[t].approver})
           /\ Recorded(t, "accept", {transfers[t].recipient})'
<1>1. PICK s \in Slot : CommitAccept(s)
  BY OnlyAcceptMoves
<1> SUFFICES ASSUME NEW t, t = tx[s].transfer, NEW u, u = tx[s].by
             PROVE  /\ t \in Transfer
                    /\ place' = transfers'[t].dest
                    /\ Recorded(t, "approve", {transfers[t].approver})
                    /\ Recorded(t, "transfer", Admins \cup {transfers[t].approver})
                    /\ Recorded(t, "accept", {transfers[t].recipient})'
  OBVIOUS
<1>2. /\ tx[s].pc = "run" /\ tx[s].op = "accept" /\ tx[s].dest \in routed
      /\ place' = tx[s].dest
      /\ transfers' = [transfers EXCEPT ![t].status = "Completed"]
      /\ log' = [log EXCEPT ![t] = @ \cup {[op |-> "accept", by |-> u]}]
  BY <1>1 DEF CommitAccept
<1>3. /\ t \in Transfer /\ u = transfers[t].recipient /\ tx[s].dest = transfers[t].dest
      /\ Recorded(t, "approve", {transfers[t].approver})
      /\ Recorded(t, "transfer", Admins \cup {transfers[t].approver})
  BY <1>2 DEF TransferInv, HandlerOK
<1>4. /\ transfers'[t].dest = transfers[t].dest
      /\ transfers'[t].recipient = transfers[t].recipient
      /\ [op |-> "accept", by |-> u] \in log'[t]
  BY <1>2, <1>3 DEF TransferInv, TransferTypeOK, TransferRecord
<1>5. Recorded(t, "accept", {transfers[t].recipient})'
  BY <1>3, <1>4 DEF Recorded
<1> QED BY <1>2, <1>3, <1>4, <1>5

\* The hardcopy moves only when an edit of its document moves it, or when the
\* recipient of an approved and dispatched transfer accepts it, and then only to
\* that transfer's destination.
THEOREM MovesOnlyToRecipient == Spec => MovedByRecipient
<1>1. TransferInv /\ [Next]_tvars =>
        [place' # place =>
           \/ \E s \in Edits : place' = tx[s].dest
           \/ \E t \in Transfer :
                /\ place' = transfers'[t].dest
                /\ Recorded(t, "approve", {transfers[t].approver})
                /\ Recorded(t, "transfer", Admins \cup {transfers[t].approver})
                /\ Recorded(t, "accept", {transfers[t].recipient})']_tvars
  BY MoveStep
<1> QED BY <1>1, TransfersSafe, PTL DEF Spec, MovedByRecipient

-----------------------------------------------------------------------------
(* Refinement of HardcopyCustody *)

LEMMA DidGrows ==
  ASSUME TransferInv, NEW t \in Transfer, NEW o \in Action, NEW u \in User,
         log' = [log EXCEPT ![t] = @ \cup {[op |-> o, by |-> u]}]
  PROVE  /\ Did("approve")'  = IF o = "approve"  THEN Did("approve") \cup {t}  ELSE Did("approve")
         /\ Did("transfer")' = IF o = "transfer" THEN Did("transfer") \cup {t} ELSE Did("transfer")
<1>1. \A q \in Transfer : log'[q] = IF q = t THEN log[q] \cup {[op |-> o, by |-> u]} ELSE log[q]
  BY DEF TransferInv, TransferTypeOK
<1>2. ASSUME NEW q \in Transfer, NEW a
      PROVE  Recorded(q, a, User)' <=> Recorded(q, a, User) \/ (q = t /\ a = o)
  <2> DEFINE e == [op |-> o, by |-> u]
  <2>1. e.op = o /\ e.by = u
    OBVIOUS
  <2>2. q = t => log'[q] = log[q] \cup {e}
    BY <1>1
  <2>3. q # t => log'[q] = log[q]
    BY <1>1
  <2> HIDE DEF e
  <2>4. CASE q = t
    BY <2>1, <2>2, <2>4 DEF Recorded
  <2>5. CASE q # t
    BY <2>3, <2>5 DEF Recorded
  <2> QED BY <2>4, <2>5
<1> QED BY <1>2 DEF Did

\* What the abstraction sees of a step that did none of its operations.
CustodyVars == <<place, Did("approve"), Did("transfer"), phase = "editable", Edits>>

LEMMA EditsAfter ==
  ASSUME TransferInv, NEW s \in Slot, NEW x, tx' = [tx EXCEPT ![s] = x]
  PROVE  /\ x.pc = "run" /\ x.op = "edit" => Edits' = Edits \cup {s}
         /\ ~(x.pc = "run" /\ x.op = "edit") => Edits' = Edits \ {s}
<1>1. \A q \in Slot : tx'[q] = IF q = s THEN x ELSE tx[q]
  BY DEF TransferInv, TransferTypeOK
<1> QED BY <1>1 DEF Edits

\* A handler of a transfer that starts or ends is no edit.
LEMMA SameEdits ==
  ASSUME TransferInv, NEW s \in Slot, s \notin Edits, NEW x, x.op # "edit",
         tx' = [tx EXCEPT ![s] = x]
  PROVE  Edits' = Edits
BY EditsAfter

LEMMA StatusCustody ==
  ASSUME TransferInv, NEW s \in Slot, CommitStatus(s)
  PROVE  [Custody!Next]_CustodyVars
<1> SUFFICES ASSUME NEW o, o = tx[s].op, NEW t, t = tx[s].transfer, NEW u, u = tx[s].by
             PROVE  [Custody!Next]_CustodyVars
  OBVIOUS
<1>1. /\ tx[s].pc = "run" /\ o \in Action \ {"accept"} /\ place' = place /\ phase' = phase
      /\ log' = [log EXCEPT ![t] = @ \cup {[op |-> o, by |-> u]}]
      /\ tx' = [tx EXCEPT ![s] = Idle]
  BY DEF CommitStatus, Done
<1>2. o # "edit" /\ o # "create"
  BY <1>1 DEF Action, RequesterOps, ReviewOps, DispatchOps
<1>3. /\ t \in Transfer /\ u \in User
      /\ o \in DispatchOps => Recorded(t, "approve", {transfers[t].approver})
  BY <1>1, <1>2 DEF TransferInv, HandlerOK
<1>4. /\ Did("approve")'  = IF o = "approve"  THEN Did("approve") \cup {t}  ELSE Did("approve")
      /\ Did("transfer")' = IF o = "transfer" THEN Did("transfer") \cup {t} ELSE Did("transfer")
  BY <1>1, <1>3, DidGrows
<1>5. o \in DispatchOps => t \in Did("approve")
  BY <1>3 DEF Did, Recorded, TransferInv, TransferTypeOK
<1>6. Edits' = Edits
  BY <1>1, <1>2, SameEdits DEF Edits, Idle
<1>7. CASE o = "approve"
  BY <1>1, <1>3, <1>4, <1>6, <1>7 DEF Custody!Next, Custody!Grant
<1>8. CASE o = "transfer"
  BY <1>1, <1>3, <1>4, <1>5, <1>6, <1>8 DEF Custody!Next, Custody!Send, DispatchOps
<1>9. CASE o \notin {"approve", "transfer"}
  BY <1>1, <1>4, <1>6, <1>9 DEF CustodyVars
<1> QED BY <1>7, <1>8, <1>9

LEMMA AcceptCustody ==
  ASSUME TransferInv, NEW s \in Slot, CommitAccept(s)
  PROVE  [Custody!Next]_CustodyVars
<1> SUFFICES ASSUME NEW t, t = tx[s].transfer, NEW u, u = tx[s].by
             PROVE  [Custody!Next]_CustodyVars
  OBVIOUS
<1>1. /\ tx[s].pc = "run" /\ tx[s].op = "accept" /\ phase' = phase
      /\ tx' = [tx EXCEPT ![s] = Idle]
      /\ \/ /\ tx[s].dest \in routed \cup {NoPlace}
            /\ place' = IF tx[s].dest = NoPlace THEN place ELSE tx[s].dest
            /\ log' = [log EXCEPT ![t] = @ \cup {[op |-> "accept", by |-> u]}]
         \/ UNCHANGED <<place, log>>
  BY DEF CommitAccept, Done
<1>2. /\ t \in Transfer /\ u \in User /\ "accept" \in Action
      /\ Recorded(t, "transfer", Admins \cup {transfers[t].approver})
  BY <1>1 DEF TransferInv, HandlerOK, Action
<1>3. t \in Did("transfer")
  BY <1>2 DEF Did, Recorded, TransferInv, TransferTypeOK
<1>4. Edits' = Edits
  BY <1>1, SameEdits DEF Edits, Idle
<1>5. CASE UNCHANGED <<place, log>>
  BY <1>1, <1>4, <1>5 DEF CustodyVars, Did, Recorded
<1>6. CASE /\ tx[s].dest \in routed \cup {NoPlace}
           /\ place' = IF tx[s].dest = NoPlace THEN place ELSE tx[s].dest
           /\ log' = [log EXCEPT ![t] = @ \cup {[op |-> "accept", by |-> u]}]
  <2>1. Did("approve")' = Did("approve") /\ Did("transfer")' = Did("transfer")
    BY <1>2, <1>6, DidGrows
  <2>2. place' \in Place
    BY <1>6 DEF TransferInv, TransferTypeOK
  <2> QED BY <1>1, <1>2, <1>3, <1>4, <2>1, <2>2 DEF Custody!Next, Custody!Receive
<1> QED BY <1>1, <1>5, <1>6

LEMMA EditCustody ==
  ASSUME TransferInv, NEW s \in Slot, CommitEdit(s) \/ \E p \in Place : BeginEdit(s, p)
  PROVE  [Custody!Next]_CustodyVars
<1>1. CASE CommitEdit(s)
  <2>1. /\ s \in Edits /\ tx' = [tx EXCEPT ![s] = Idle] /\ UNCHANGED <<phase, log>>
        /\ place' \in Place
    BY <1>1 DEF CommitEdit, Done, Edits, TransferInv, TransferTypeOK
  <2>i. Idle.op # "edit"
    BY DEF Idle
  <2>2. Edits' = Edits \ {s}
    BY <2>1, <2>i, EditsAfter
  <2>3. Did("approve")' = Did("approve") /\ Did("transfer")' = Did("transfer")
    BY <2>1 DEF Did, Recorded
  <2> QED BY <2>1, <2>2, <2>3 DEF Custody!Next, Custody!EndEdit
<1>2. ASSUME NEW p \in Place, BeginEdit(s, p) PROVE [Custody!Next]_CustodyVars
  <2> DEFINE x == [pc |-> "run", op |-> "edit", by |-> NoUser, transfer |-> "none",
                   row |-> NoTransfer, dest |-> p]
  <2>1. phase = "editable" /\ tx' = [tx EXCEPT ![s] = x] /\ UNCHANGED <<place, phase, log>>
    BY <1>2 DEF BeginEdit, Begin
  <2>2. x.pc = "run" /\ x.op = "edit"
    OBVIOUS
  <2>3. Edits' = Edits \cup {s}
    BY <2>1, <2>2, EditsAfter
  <2>4. Did("approve")' = Did("approve") /\ Did("transfer")' = Did("transfer")
    BY <2>1 DEF Did, Recorded
  <2> QED BY <2>1, <2>3, <2>4 DEF Custody!Next, Custody!BeginEdit
<1> QED BY <1>1, <1>2

LEMMA CustodyStep ==
  ASSUME TransferInv, [Next]_tvars
  PROVE  [Custody!Next]_CustodyVars
<1>1. ASSUME NEW s \in Slot, NEW x, x.op # "edit", s \notin Edits,
             tx' = [tx EXCEPT ![s] = x], UNCHANGED <<place, phase, log>>
      PROVE  [Custody!Next]_CustodyVars
  BY <1>1, SameEdits DEF CustodyVars, Did, Recorded
<1>2. ASSUME NEW s \in Slot, CommitCreate(s) PROVE [Custody!Next]_CustodyVars
  BY <1>1, <1>2 DEF CommitCreate, Done, Edits, Idle
<1>3. ASSUME NEW s \in Slot, NEW t \in Transfer, NEW u \in User, NEW v \in User,
             NEW a \in Approvers, NEW p \in Place, BeginCreate(s, t, u, v, a, p)
      PROVE  [Custody!Next]_CustodyVars
  <2> DEFINE row == [status |-> "Draft", requester |-> u, recipient |-> v,
                     approver |-> a, dest |-> IF p \in routed THEN p ELSE NoPlace]
             x == [pc |-> "run", op |-> "create", by |-> u, transfer |-> t, row |-> row,
                   dest |-> NoPlace]
  <2>1. s \notin Edits /\ tx' = [tx EXCEPT ![s] = x] /\ UNCHANGED <<place, phase, log>>
    BY <1>3 DEF BeginCreate, Begin, Free, Edits
  <2>2. x.op # "edit"
    OBVIOUS
  <2> HIDE DEF x
  <2> QED BY <1>1, <2>1, <2>2
<1>4. ASSUME NEW s \in Slot, NEW t \in Transfer, NEW u \in User, NEW o \in Action,
             BeginAction(s, u, t, o)
      PROVE  [Custody!Next]_CustodyVars
  <2> DEFINE x == [pc |-> "run", op |-> o, by |-> u, transfer |-> t, row |-> NoTransfer,
                   dest |-> IF o = "accept" THEN transfers[t].dest ELSE NoPlace]
  <2>1. s \notin Edits /\ tx' = [tx EXCEPT ![s] = x] /\ UNCHANGED <<place, phase, log>>
    BY <1>4 DEF BeginAction, Begin, Free, Edits
  <2>2. x.op # "edit"
    BY DEF Action, RequesterOps, ReviewOps, DispatchOps
  <2> HIDE DEF x
  <2> QED BY <1>1, <2>1, <2>2
<1>5. CASE Approve
  BY <1>5 DEF Approve, Custody!Next, Custody!Close, Did, Recorded, Edits
<1>6. CASE DisposeOrRestore \/ (\E p \in Place : RemoveArea(p)) \/ UNCHANGED tvars
  BY <1>6 DEF DisposeOrRestore, RemoveArea, tvars, CustodyVars, Did, Recorded, Edits
<1> QED BY <1>2, <1>3, <1>4, <1>5, <1>6, StatusCustody, AcceptCustody, EditCustody
        DEF Next, Handler

\* Whatever overlaps, the copy changes places only by transfers that were approved
\* and sent before, and by edits that began before the document was approved.
THEOREM CustodyImplemented == Spec => ImplementsCustody
<1>1. Init => Custody!Init
  BY DEF Init, Custody!Init, Did, Recorded, Edits, Idle
<1>2. TransferInv /\ [Next]_tvars =>
        [Custody!Next]_<<place, Did("approve"), Did("transfer"), phase = "editable", Edits>>
  BY CustodyStep DEF CustodyVars
<1> QED BY <1>1, <1>2, TransfersSafe, PTL DEF Spec, ImplementsCustody, Custody!Spec

-----------------------------------------------------------------------------
(* Imports of hardcopies *)

\* The maps that an import reads know every name, by rows that there are.
LEMMA KnownNames ==
  ASSUME NEW rows
  PROVE  Known(rows) \subseteq rows /\ \A r \in rows : \E e \in Known(rows) : e.name = r.name
BY DEF Known

\* A name is resolved to an entry of the map, or to a new row if there is none.
LEMMA Resolves ==
  ASSUME NEW map, NEW name, NEW i, NEW x, x = Resolve(map, name, i)
  PROVE  /\ x.name = name
         /\ x \notin map => /\ \A e \in map : e.name # name
                            /\ x = [name |-> name, by |-> i, nr |-> imports[i].nr]
BY DEF Resolve

LEMMA ImportStarts == ASSUME ImportInv, NEW i \in Import, Start(i) PROVE ImportInv'
<1> DEFINE m == [imports[i] EXCEPT !.running = TRUE, !.areaMap = Known(areas), !.locationMap = Known(locations)]
           b == [areas |-> areas, locations |-> locations]
<1>1. /\ ImportTypeOK /\ MadeByImports /\ ErrorsExplained /\ AreasDoubledByOverlap
      /\ \A j \in Import : MapsExplained(j) /\ (imports[j].running => MapsKnow(j))
  BY DEF ImportInv, ImportsExplained
<1>2. /\ UNCHANGED <<areas, locations, outcomes>> /\ ~imports[i].running
      /\ imports' = [imports EXCEPT ![i] = m] /\ before' = [before EXCEPT ![i] = b]
  BY DEF Start, Waiting
<1>3. /\ m.running /\ m.areaMap = Known(areas) /\ m.locationMap = Known(locations) /\ m.nr = imports[i].nr
      /\ m.processed = imports[i].processed
  BY <1>1 DEF ImportTypeOK
<1>4. m \in [running : BOOLEAN, areaMap : SUBSET AreaRow, locationMap : SUBSET LocationRow,
             processed : SUBSET Row, nr : Nat]
  <2>1. Known(areas) \in SUBSET AreaRow /\ Known(locations) \in SUBSET LocationRow
    BY <1>1, KnownNames DEF ImportTypeOK
  <2>2. imports[i] \in [running : BOOLEAN, areaMap : SUBSET AreaRow, locationMap : SUBSET LocationRow,
                        processed : SUBSET Row, nr : Nat]
    BY <1>1 DEF ImportTypeOK
  <2> QED BY <2>1, <2>2
<1>5. b.areas = areas /\ b.locations = locations /\ b \in [areas : SUBSET AreaRow, locations : SUBSET LocationRow]
  BY <1>1 DEF ImportTypeOK
<1> HIDE DEF m, b
<1>6. /\ imports'[i] = m /\ before'[i] = b
      /\ \A j \in Import \ {i} : imports'[j] = imports[j] /\ before'[j] = before[j]
  BY <1>1, <1>2 DEF ImportTypeOK
<1>7. Known(areas) \subseteq areas /\ Known(locations) \subseteq locations
      /\ (\A a \in areas : \E e \in Known(areas) : e.name = a.name)
      /\ (\A l \in locations : \E e \in Known(locations) : e.name = l.name)
  BY KnownNames
<1>8. ImportTypeOK'
  BY <1>1, <1>2, <1>4, <1>5 DEF ImportTypeOK
<1>9. (\A r \in areas \cup locations : r.by # i) /\ \A o \in outcomes : o.by # i
  BY <1>1, <1>2 DEF MadeByImports
<1>10. MadeByImports'
  <2>1. \A r \in areas \cup locations : r.by \in Import
    BY <1>1 DEF ImportTypeOK, AreaRow, LocationRow
  <2>2. \A o \in outcomes : o.by \in Import
    BY <1>1 DEF ImportTypeOK
  <2> QED BY <1>1, <1>2, <1>5, <1>6, <1>9, <2>1, <2>2 DEF MadeByImports
<1>11. ErrorsExplained'
  <2>1. \A o \in outcomes : before'[o.by] = before[o.by]
    BY <1>1, <1>6, <1>9 DEF ImportTypeOK
  <2> QED BY <1>1, <1>2, <2>1 DEF ErrorsExplained
<1>12. AreasDoubledByOverlap'
  <2>1. \A a \in areas : before'[a.by] = before[a.by]
    BY <1>1, <1>6, <1>9 DEF ImportTypeOK, AreaRow
  <2> QED BY <1>1, <1>2, <2>1 DEF AreasDoubledByOverlap
<1>13. ASSUME NEW j \in Import PROVE MapsExplained(j)' /\ (imports'[j].running => MapsKnow(j)')
  <2>1. CASE j = i
    BY <1>2, <1>3, <1>6, <1>7, <2>1 DEF MapsExplained, MapsKnow
  <2>2. CASE j # i
    BY <1>1, <1>2, <1>6, <2>2 DEF MapsExplained, MapsKnow
  <2> QED BY <2>1, <2>2
<1> QED BY <1>8, <1>10, <1>11, <1>12, <1>13 DEF ImportInv, ImportsExplained

\* One row: what it creates is in the maps of its import, and what fails has a reason.
LEMMA RowIsImported ==
  ASSUME ImportInv, NEW i \in Import, NEW row \in Row, NEW breaks \in BOOLEAN, ImportRow(i, row, breaks)
  PROVE  ImportInv'
<1> DEFINE import == imports[i]
           area == Resolve(import.areaMap, row.area, i)
           location == Resolve(import.locationMap, row.location, i)
           taken == location \notin import.locationMap /\ \E l \in locations : l.name = row.location
           dangling == \/ ~(area \notin import.areaMap) /\ area \notin areas
                       \/ ~(location \notin import.locationMap) /\ location \notin locations
           created == ~taken /\ ~dangling /\ ~breaks
           status == IF taken THEN "taken" ELSE IF dangling THEN "dangling"
                     ELSE IF breaks THEN "broken" ELSE "created"
           o == [by |-> i, nr |-> import.nr, row |-> row, status |-> status]
           m == [import EXCEPT !.areaMap = Remembered(@, area),
                               !.locationMap = IF taken THEN @ ELSE @ \cup {location},
                               !.processed = @ \cup {row}, !.nr = @ + 1]
<1>1. /\ ImportTypeOK /\ MadeByImports /\ ErrorsExplained /\ AreasDoubledByOverlap
      /\ \A j \in Import : MapsExplained(j) /\ (imports[j].running => MapsKnow(j))
  BY DEF ImportInv, ImportsExplained
<1>2. /\ import.running /\ outcomes' = outcomes \cup {o} /\ before' = before
      /\ imports' = [imports EXCEPT ![i] = m]
      /\ areas' = IF created THEN areas \cup {area} ELSE areas
      /\ locations' = IF created THEN locations \cup {location} ELSE locations
  <2>1. import.running /\ before' = before
    BY DEF ImportRow
  <2>2. /\ areas' = IF created THEN areas \cup {area} ELSE areas
        /\ locations' = IF created THEN locations \cup {location} ELSE locations
    BY Zenon DEF ImportRow
  <2>3. outcomes' = outcomes \cup {o}
    BY Zenon DEF ImportRow
  <2>4. imports' = [imports EXCEPT ![i] = m]
    BY Zenon DEF ImportRow
  <2> QED BY <2>1, <2>2, <2>3, <2>4
<1>3. /\ import \in [running : BOOLEAN, areaMap : SUBSET AreaRow, locationMap : SUBSET LocationRow,
                     processed : SUBSET Row, nr : Nat]
      /\ row.area \in Area /\ row.location \in Location
  BY <1>1 DEF ImportTypeOK, Row
<1>4. /\ area.name = row.area
      /\ area \notin import.areaMap => /\ \A e \in import.areaMap : e.name # row.area
                                       /\ area = [name |-> row.area, by |-> i, nr |-> import.nr]
  BY Resolves
<1>5. /\ location.name = row.location
      /\ location \notin import.locationMap =>
           /\ \A e \in import.locationMap : e.name # row.location
           /\ location = [name |-> row.location, by |-> i, nr |-> import.nr]
  BY Resolves
<1> HIDE DEF area, location
<1>6. area \in AreaRow /\ location \in LocationRow
  BY <1>3, <1>4, <1>5 DEF AreaRow, LocationRow
<1>7. /\ m.running /\ m.areaMap = import.areaMap \cup {area} /\ m.nr = import.nr + 1
      /\ m.locationMap = IF taken THEN import.locationMap ELSE import.locationMap \cup {location}
      /\ m \in [running : BOOLEAN, areaMap : SUBSET AreaRow, locationMap : SUBSET LocationRow,
                processed : SUBSET Row, nr : Nat]
  <2>1. import.areaMap \cup {area} \in SUBSET AreaRow /\ import.locationMap \cup {location} \in SUBSET LocationRow
        /\ import.processed \cup {row} \in SUBSET Row /\ import.nr + 1 \in Nat
    BY <1>3, <1>6
  <2> QED BY <1>2, <1>3, <2>1 DEF Remembered
<1>8. /\ o.by = i /\ o.nr = import.nr /\ o.row = row /\ o.status = status
      /\ o \in [by : Import, nr : Nat, row : Row, status : {"taken", "dangling", "broken", "created"}]
  BY <1>3
<1>9. /\ status = "created" => created
      /\ status = "taken" => taken
      /\ status = "dangling" => dangling
      /\ created => ~taken /\ ~dangling
  OBVIOUS
<1> HIDE DEF m, o, status, created
<1>10. /\ imports'[i] = m /\ \A j \in Import \ {i} : imports'[j] = imports[j]
       /\ areas \subseteq areas' /\ locations \subseteq locations' /\ outcomes \subseteq outcomes'
       /\ o \in outcomes'
  BY <1>1, <1>2 DEF ImportTypeOK
<1>11. ImportTypeOK'
  BY <1>1, <1>2, <1>6, <1>7, <1>8 DEF ImportTypeOK
\* A row that is new was not there, and no row of its name that the import could know
<1>12. areas' # areas => /\ area.by = i /\ areas' = areas \cup {area} /\ area \notin areas
                         /\ \A a \in areas : a.name = area.name => a.by # i /\ a \notin before[i].areas
  <2> SUFFICES ASSUME areas' # areas
               PROVE  /\ area.by = i /\ areas' = areas \cup {area} /\ area \notin areas
                      /\ \A a \in areas : a.name = area.name => a.by # i /\ a \notin before[i].areas
    OBVIOUS
  <2>1. created /\ areas' = areas \cup {area} /\ area \notin areas
    BY <1>2
  <2>2. area \notin import.areaMap
    BY <1>9, <2>1
  <2>3. area.by = i /\ \A e \in import.areaMap : e.name # area.name
    BY <1>4, <2>2
  <2> QED BY <1>1, <1>2, <2>1, <2>3 DEF MapsKnow
<1>13. locations' # locations => location.by = i /\ locations' = locations \cup {location}
  <2> SUFFICES ASSUME locations' # locations PROVE location.by = i /\ locations' = locations \cup {location}
    OBVIOUS
  <2>1. created /\ locations' = locations \cup {location} /\ location \notin locations
    BY <1>2
  <2>2. location \notin import.locationMap
    BY <1>9, <2>1
  <2> QED BY <1>5, <2>1, <2>2
<1>14. MadeByImports'
  <2>1. \A r \in areas' \cup locations' : r.by \in Import /\ imports'[r.by].running
    BY <1>1, <1>7, <1>10, <1>12, <1>13 DEF ImportTypeOK, MadeByImports, AreaRow, LocationRow
  <2>2. ASSUME NEW p \in outcomes' PROVE imports'[p.by].running /\ p.nr < imports'[p.by].nr
    <3>1. CASE p = o
      BY <1>3, <1>7, <1>8, <1>10, <3>1
    <3>2. CASE p \in outcomes
      <4>1. p.by \in Import /\ p.nr \in Nat /\ imports[p.by].running /\ p.nr < imports[p.by].nr
        BY <1>1, <3>2 DEF ImportTypeOK, MadeByImports
      <4>2. imports[i].nr \in Nat
        BY <1>3
      <4>3. CASE p.by = i
        BY <1>7, <1>10, <4>1, <4>2, <4>3
      <4>4. CASE p.by # i
        BY <1>10, <4>1, <4>4
      <4> QED BY <4>3, <4>4
    <3> QED BY <1>2, <3>1, <3>2
  <2> QED BY <1>1, <1>2, <1>10, <2>1, <2>2 DEF MadeByImports
<1>15. ErrorsExplained'
  <2>1. ASSUME status = "taken"
        PROVE  \E l \in locations : l.name = row.location /\ l.by # i /\ l \notin before[i].locations
    <3>1. taken
      BY <1>9, <2>1
    <3>2. PICK l \in locations : l.name = row.location
      BY <3>1
    <3>3. \A e \in import.locationMap : e.name # l.name
      BY <1>5, <3>1, <3>2
    <3>4. l.by # i /\ l \notin before[i].locations
      BY <1>1, <1>2, <3>3 DEF MapsKnow
    <3> QED BY <3>2, <3>4
  <2>2. ASSUME status = "dangling"
        PROVE  \E p \in outcomes : /\ p.by = i /\ p.nr < import.nr /\ p.status # "created"
                                   /\ (p.row.area = row.area \/ p.row.location = row.location)
    <3>1. \/ area \in import.areaMap /\ area \notin areas
          \/ location \in import.locationMap /\ location \notin locations
      BY <1>9, <2>2
    <3>2. PICK p \in outcomes : /\ p.by = i /\ p.status # "created"
                                /\ (p.row.area = row.area \/ p.row.location = row.location)
      BY <1>1, <1>4, <1>5, <3>1 DEF MapsExplained
    <3>3. p.nr < import.nr
      BY <1>1, <3>2 DEF MadeByImports
    <3> QED BY <3>2, <3>3
  <2> QED BY <1>1, <1>2, <1>8, <1>10, <2>1, <2>2 DEF ErrorsExplained
<1>16. AreasDoubledByOverlap'
  <2>1. CASE areas' = areas
    BY <1>1, <1>2, <2>1 DEF AreasDoubledByOverlap
  <2>2. CASE areas' # areas
    <3>1. \A j \in Import : area \notin before[j].areas
      BY <1>1, <1>12, <2>2 DEF MadeByImports
    <3>2. \A a \in areas : a.by \in Import
      BY <1>1 DEF ImportTypeOK, AreaRow
    <3> QED BY <1>1, <1>2, <1>12, <2>2, <3>1, <3>2 DEF AreasDoubledByOverlap
  <2> QED BY <2>1, <2>2
<1>17. MapsExplained(i)'
  <2>1. created \/ status # "created"
    BY <1>9
  <2>2. ASSUME NEW e \in import.areaMap \cup {area}
        PROVE  e \in areas' \/ \E p \in outcomes' : p.by = i /\ p.status # "created" /\ p.row.area = e.name
    BY <1>1, <1>2, <1>4, <1>8, <1>10, <2>1, <2>2 DEF MapsExplained
  <2>3. ASSUME NEW e \in import.locationMap \cup {location}
        PROVE  e \in locations' \/ \E p \in outcomes' : p.by = i /\ p.status # "created" /\ p.row.location = e.name
    BY <1>1, <1>2, <1>5, <1>8, <1>10, <2>1, <2>3 DEF MapsExplained
  <2>4. m.locationMap \subseteq import.locationMap \cup {location}
    BY <1>7
  <2> QED BY <1>7, <1>10, <2>2, <2>3, <2>4 DEF MapsExplained
<1>18. MapsKnow(i)'
  <2>1. ASSUME NEW a \in areas', a.by = i \/ a \in before[i].areas
        PROVE  \E e \in m.areaMap : e.name = a.name
    BY <1>1, <1>2, <1>7, <2>1 DEF MapsKnow
  <2>2. ASSUME NEW l \in locations', l.by = i \/ l \in before[i].locations
        PROVE  \E e \in m.locationMap : e.name = l.name
    BY <1>1, <1>2, <1>7, <1>9, <2>2 DEF MapsKnow
  <2> QED BY <1>2, <1>10, <2>1, <2>2 DEF MapsKnow
<1>19. ASSUME NEW j \in Import \ {i} PROVE MapsExplained(j)' /\ (imports'[j].running => MapsKnow(j)')
  <2>1. \A a \in areas' : a.by = j \/ a \in before[j].areas => a \in areas
    BY <1>1, <1>12 DEF MadeByImports
  <2>2. \A l \in locations' : l.by = j \/ l \in before[j].locations => l \in locations
    BY <1>1, <1>13 DEF MadeByImports
  <2>3. MapsExplained(j)'
    BY <1>1, <1>10 DEF MapsExplained
  <2>4. imports'[j].running => MapsKnow(j)'
    BY <1>1, <1>2, <1>10, <2>1, <2>2 DEF MapsKnow
  <2> QED BY <2>3, <2>4
<1>20. \A j \in Import : MapsExplained(j)' /\ (imports'[j].running => MapsKnow(j)')
  BY <1>17, <1>18, <1>19
<1> QED BY <1>11, <1>14, <1>15, <1>16, <1>20 DEF ImportInv, ImportsExplained

\* batchImport: a row fails only for a reason that lies in the order of rows and imports,
\* and two areas of one name come only from imports that overlapped.
THEOREM FailedRowsAreExplained == ImportSpec => []ImportsExplained
<1>1. ImportInit => ImportInv
  <2> SUFFICES ASSUME ImportInit PROVE ImportInv
    OBVIOUS
  <2>1. /\ areas = {} /\ locations = {} /\ outcomes = {}
        /\ before = [i \in Import |-> [areas |-> {}, locations |-> {}]]
        /\ imports = [i \in Import |-> Waiting]
    BY DEF ImportInit
  <2>2. /\ Waiting \in [running : BOOLEAN, areaMap : SUBSET AreaRow, locationMap : SUBSET LocationRow,
                        processed : SUBSET Row, nr : Nat]
        /\ ~Waiting.running /\ Waiting.areaMap = {} /\ Waiting.locationMap = {}
    BY DEF Waiting
  <2> QED BY <2>1, <2>2 DEF ImportInv, ImportTypeOK, MadeByImports, ImportsExplained, ErrorsExplained,
                            AreasDoubledByOverlap, MapsExplained, MapsKnow
<1>2. ImportInv /\ [ImportNext]_ivars => ImportInv'
  <2> SUFFICES ASSUME ImportInv, [ImportNext]_ivars PROVE ImportInv'
    OBVIOUS
  <2>1. CASE UNCHANGED ivars
    BY <2>1 DEF ivars, ImportInv, ImportTypeOK, MadeByImports, ImportsExplained, ErrorsExplained,
                AreasDoubledByOverlap, MapsExplained, MapsKnow
  <2>2. ASSUME NEW i \in Import, NEW row \in Row, Duplicate(i, row) PROVE ImportInv'
    <3>1. /\ UNCHANGED <<areas, locations, outcomes, before>> /\ imports[i].nr \in Nat
          /\ imports' = [imports EXCEPT ![i].nr = @ + 1]
      BY <2>2 DEF Duplicate, ImportInv, ImportTypeOK
    <3>2. ImportTypeOK'
      <4>1. imports[i].nr + 1 \in Nat
        BY <3>1
      <4>2. imports' \in [Import -> [running : BOOLEAN, areaMap : SUBSET AreaRow, locationMap : SUBSET LocationRow,
                                    processed : SUBSET Row, nr : Nat]]
        BY <3>1, <4>1 DEF ImportInv, ImportTypeOK
      <4> QED BY <3>1, <4>2 DEF ImportInv, ImportTypeOK
    <3>3. \A j \in Import : /\ imports'[j].running = imports[j].running
                            /\ imports'[j].areaMap = imports[j].areaMap
                            /\ imports'[j].locationMap = imports[j].locationMap
                            /\ imports'[j].nr \in {imports[j].nr, imports[j].nr + 1} /\ imports[j].nr \in Nat
      BY <3>1 DEF ImportInv, ImportTypeOK
    <3>4. \A k, n \in Nat : k < n => k < n + 1
      OBVIOUS
    <3>5. (\A r \in areas \cup locations : r.by \in Import) /\ \A o \in outcomes : o.by \in Import /\ o.nr \in Nat
      BY DEF ImportInv, ImportTypeOK, AreaRow, LocationRow
    <3>6. MadeByImports'
      BY <3>1, <3>3, <3>4, <3>5 DEF ImportInv, MadeByImports
    <3>7. ImportsExplained' /\ \A j \in Import : MapsExplained(j)' /\ (imports'[j].running => MapsKnow(j)')
      BY <3>1, <3>3 DEF ImportInv, ImportsExplained, ErrorsExplained, AreasDoubledByOverlap, MapsExplained, MapsKnow
    <3> QED BY <3>2, <3>6, <3>7 DEF ImportInv
  <2> QED BY <2>1, <2>2, ImportStarts, RowIsImported DEF ImportNext
<1>3. ImportInv => ImportsExplained
  BY DEF ImportInv
<1> QED BY <1>1, <1>2, <1>3, PTL DEF ImportSpec

-----------------------------------------------------------------------------
(* Imports from a directory *)

\* The paths of directories, one or two parts.
LEMMA PathShapes ==
  ASSUME NEW path \in Paths
  PROVE  /\ path \in Seq(Part) /\ path # <<>> /\ Head(path) = path[1] /\ Tail(path) \in Seq(Part)
         /\ \/ Len(path) = 1 /\ Tail(path) = <<>>
            \/ /\ Len(path) = 2 /\ Tail(path) # <<>> /\ Head(Tail(path)) = path[2]
               /\ Tail(Tail(path)) = <<>>
<1>1. ASSUME NEW a \in Part, path = <<a>> PROVE path \in Seq(Part) /\ Len(path) = 1 /\ Tail(path) = <<>>
  BY <1>1
<1>2. ASSUME NEW a \in Part, NEW b \in Part, path = <<a, b>>
      PROVE  path \in Seq(Part) /\ Len(path) = 2 /\ Tail(path) = <<b>> /\ path[2] = b
  BY <1>2
<1>3. ASSUME NEW a \in Part PROVE <<a>> \in Seq(Part) /\ Head(<<a>>) = a /\ Tail(<<a>>) = <<>> /\ <<a>> # <<>>
  OBVIOUS
<1>4. (\E a \in Part : path = <<a>>) \/ \E a, b \in Part : path = <<a, b>>
  BY DEF Paths
<1>5. path \in Seq(Part) /\ path # <<>> /\ Head(path) = path[1] /\ Tail(path) \in Seq(Part)
  BY <1>1, <1>2, <1>4
<1>6. \/ Len(path) = 1 /\ Tail(path) = <<>>
      \/ /\ Len(path) = 2 /\ Tail(path) # <<>> /\ Head(Tail(path)) = path[2]
         /\ Tail(Tail(path)) = <<>>
  BY <1>1, <1>2, <1>3, <1>4
<1> QED BY <1>5, <1>6

LEMMA NotBegunOK ==
  /\ NotBegun \in ImportRecord /\ NotBegun.at = "new" /\ NotBegun.map = {} /\ NotBegun.found = {}
  /\ Top.id = 0
BY DEF NotBegun, ImportRecord, Top

\* A folder found or created for the next part is where the walk goes on.
LEMMA WalkOn ==
  ASSUME NEW r \in ImportRecord, NEW cs, NEW ds, cs \subseteq ds, r.path \in Paths, OnPath(r, cs), r.rest # <<>>,
         NEW c \in ds, c.parent = r.parent.id, c.name = Head(r.rest),
         NEW t, t.path = r.path, t.rest = Tail(r.rest), t.parent = c
  PROVE  OnPath(t, ds)
<1>1. CASE r.rest = r.path /\ r.parent = Top
  BY <1>1, PathShapes, NotBegunOK DEF OnPath, FiledAt
<1>2. CASE /\ Len(r.path) = 2 /\ r.rest = Tail(r.path)
           /\ r.parent \in cs /\ r.parent.parent = 0 /\ r.parent.name = r.path[1]
  <2>1. c.name = r.path[Len(r.path)] /\ t.rest = <<>>
    BY <1>2, PathShapes
  <2>2. FiledAt(c, r.path, ds)
    BY <1>2, <2>1 DEF FiledAt
  <2> QED BY <2>1, <2>2 DEF OnPath
<1> QED BY <1>1, <1>2 DEF OnPath

LEMMA OnPathStays ==
  ASSUME NEW r, NEW cs, NEW ds, cs \subseteq ds, OnPath(r, cs)
  PROVE  OnPath(r, ds)
BY DEF OnPath, FiledAt

LEMMA ImportSet ==
  ASSUME FolderImportTypeOK, NEW i \in Importer, NEW r \in ImportRecord, Set(i, r)
  PROVE  /\ importers' \in [Importer -> ImportRecord] /\ Me(i)' = r
         /\ \A v \in Importer \ {i} : Me(v)' = Me(v)
BY DEF FolderImportTypeOK, Set, Me

\* What an import knows, of itself.
Knows(i, r) ==
  /\ r.map \subseteq categories /\ r.found \subseteq categories
  /\ r.at # "over" => /\ r.found \subseteq r.map
                      /\ \A c \in categories : c.by = i => c \in r.map
  /\ r.at \in {"walk", "create", "add"} => r.path \in Paths /\ OnPath(r, categories)
  /\ r.at = "create" => r.rest # <<>> /\ \A c \in r.map : ~(c.parent = r.parent.id /\ c.name = Head(r.rest))
  /\ r.at = "add" => r.rest = <<>>

LEMMA ImportKnowsItself == ASSUME NEW i PROVE ImportKnows(i) <=> Knows(i, Me(i))
BY DEF ImportKnows, Knows, InMap

\* A step of one import that creates no folder.
LEMMA KnowsMore ==
  ASSUME FolderImportInv, NEW i \in Importer, NEW r \in ImportRecord, Set(i, r), UNCHANGED <<categories, finished>>,
         r.found = Me(i).found \/ \A c \in categories : c.by # i, Knows(i, r)
  PROVE  FolderImportTypeOK' /\ DoubledByOverlap' /\ \A v \in Importer : ImportKnows(v)'
<1>1. /\ importers' \in [Importer -> ImportRecord] /\ Me(i)' = r
      /\ \A v \in Importer \ {i} : Me(v)' = Me(v)
  BY ImportSet DEF FolderImportInv
<1>2. FolderImportTypeOK'
  BY <1>1 DEF FolderImportInv, FolderImportTypeOK
<1>3. ASSUME NEW v \in Importer PROVE ImportKnows(v)'
  <2>1. CASE v = i
    <3>1. Knows(i, Me(i))'
      BY <1>1 DEF Knows
    <3> QED BY <2>1, <3>1 DEF ImportKnows, Knows, InMap
  <2>2. CASE v # i
    BY <1>1, <2>2 DEF FolderImportInv, ImportKnows, InMap
  <2> QED BY <2>1, <2>2
<1>4. DoubledByOverlap'
  <2> SUFFICES ASSUME NEW c \in categories, NEW d \in categories, c # d, c.parent = d.parent, c.name = d.name
               PROVE  /\ c.parent = 0 /\ c.by # d.by
                      /\ c \notin Me(d.by)'.found /\ d \notin Me(c.by)'.found
    BY DEF DoubledByOverlap
  <2>1. /\ c.parent = 0 /\ c.by # d.by /\ c.by \in Importer /\ d.by \in Importer
        /\ c \notin Me(d.by).found /\ d \notin Me(c.by).found
    BY DEF FolderImportInv, FilesAreFiled, DoubledByOverlap, FolderImportTypeOK, Category
  <2>2. Me(d.by)'.found = Me(d.by).found /\ Me(c.by)'.found = Me(c.by).found
    BY <1>1, <2>1
  <2> QED BY <2>1, <2>2
<1> QED BY <1>2, <1>3, <1>4

\* The walk creates a folder in one place twice only at the root, and an import never does.
LEMMA FolderCreated ==
  ASSUME FolderImportInv, NEW i \in Importer, CreateFolder(i), ~FolderRefused(i)
  PROVE  FolderImportTypeOK' /\ DoubledByOverlap' /\ \A v \in Importer : ImportKnows(v)'
<1> DEFINE c == [id |-> Cardinality(categories) + 1, parent |-> Me(i).parent.id,
                 name |-> Head(Me(i).rest), folder |-> Me(i).folder, by |-> i]
           r == [Me(i) EXCEPT !.at = "walk", !.map = Mapped(i, c), !.rest = Tail(@), !.parent = c]
<1>1. /\ Me(i) \in ImportRecord /\ Me(i).at = "create" /\ Me(i).rest # <<>> /\ Me(i).rest \in Seq(Part)
      /\ Me(i).parent.id \in Nat /\ Knows(i, Me(i)) /\ Me(i).folder \in Seq(Nat)
      /\ Me(i).map \subseteq Category
  <2>1. Me(i) \in ImportRecord /\ Me(i).at = "create" /\ ImportKnows(i)
    BY DEF FolderImportInv, FolderImportTypeOK, CreateFolder, Me
  <2>2. Me(i).parent.id \in Nat
    BY <2>1, NotBegunOK DEF ImportRecord, Category
  <2> QED BY <2>1, <2>2, ImportKnowsItself DEF ImportRecord, Knows
<1>2. Cardinality(categories) + 1 \in Nat /\ Head(Me(i).rest) \in Part /\ Tail(Me(i).rest) \in Seq(Part)
  BY <1>1, FS_CardinalityType DEF FolderImportInv, FolderImportTypeOK
<1>3. /\ c \in Category /\ c.parent = Me(i).parent.id /\ c.name = Head(Me(i).rest)
      /\ c.folder = Me(i).folder /\ c.by = i
  BY <1>1, <1>2 DEF Category
<1>4. categories' = categories \cup {c} /\ Set(i, r) /\ finished' = finished
  BY DEF CreateFolder, StepInto
<1> HIDE DEF c
<1>5. /\ r \in ImportRecord /\ r.at = "walk" /\ r.map = Me(i).map \cup {c} /\ r.found = Me(i).found
      /\ r.rest = Tail(Me(i).rest) /\ r.parent = c /\ r.path = Me(i).path
  BY <1>1, <1>2, <1>3 DEF ImportRecord, Mapped
<1> HIDE DEF r
<1>6. /\ importers' \in [Importer -> ImportRecord] /\ Me(i)' = r
      /\ \A v \in Importer \ {i} : Me(v)' = Me(v)
  BY <1>4, <1>5, ImportSet DEF FolderImportInv
<1>7. c \notin categories /\ \A d \in categories : ~(d.parent # 0 /\ d.parent = c.parent /\ d.name = c.name)
  BY <1>3 DEF FolderRefused
<1>8. FolderImportTypeOK'
  BY <1>3, <1>4, <1>6, FS_AddElement DEF FolderImportInv, FolderImportTypeOK
<1>9. ASSUME NEW v \in Importer PROVE ImportKnows(v)'
  <2>1. CASE v = i
    <3>1. /\ r.map \subseteq categories' /\ r.found \subseteq categories' /\ r.found \subseteq r.map
          /\ \A d \in categories' : d.by = i => d \in r.map
      BY <1>1, <1>4, <1>5 DEF Knows
    <3>2. r.path \in Paths /\ OnPath(r, categories')
      <4>1. Me(i).path \in Paths /\ OnPath(Me(i), categories)
        BY <1>1 DEF Knows
      <4>2. categories \subseteq categories' /\ c \in categories'
        BY <1>4
      <4> QED BY <1>1, <1>3, <1>5, <4>1, <4>2, WalkOn
    <3> QED BY <1>5, <1>6, <2>1, <3>1, <3>2 DEF ImportKnows
  <2>2. CASE v # i
    <3>1. ImportKnows(v) /\ Me(v)' = Me(v) /\ categories \subseteq categories'
      BY <1>4, <1>6, <2>2 DEF FolderImportInv
    <3>2. OnPath(Me(v), categories) => OnPath(Me(v), categories')
      BY <3>1, OnPathStays
    <3>3. \A d \in categories' : d.by = v => d \in categories
      BY <1>3, <1>4, <2>2
    <3> QED BY <3>1, <3>2, <3>3 DEF ImportKnows, InMap
  <2> QED BY <2>1, <2>2
<1>10. \A v \in Importer : Me(v)'.found = Me(v).found
  BY <1>5, <1>6
<1>11. ASSUME NEW d \in categories, c.parent = d.parent, c.name = d.name
       PROVE  /\ c.parent = 0 /\ c.by # d.by
              /\ c \notin importers'[d.by].found /\ d \notin importers'[c.by].found
  <2>1. d \notin Me(i).map /\ d.by \in Importer
    BY <1>1, <1>3, <1>11 DEF Knows, FolderImportInv, FolderImportTypeOK, Category
  <2>2. d.by # i /\ d \notin Me(i).found /\ c.parent = 0
    BY <1>1, <1>7, <1>11, <2>1 DEF Knows
  <2>3. c \notin Me(d.by).found
    BY <1>7, <2>1 DEF FolderImportInv, ImportKnows
  <2> QED BY <1>3, <1>10, <2>1, <2>2, <2>3 DEF Me
<1>12. DoubledByOverlap'
  <2> SUFFICES ASSUME NEW a \in categories', NEW d \in categories', a # d, a.parent = d.parent, a.name = d.name
               PROVE  /\ a.parent = 0 /\ a.by # d.by
                      /\ a \notin Me(d.by)'.found /\ d \notin Me(a.by)'.found
    BY DEF DoubledByOverlap
  <2>1. CASE a = c
    BY <1>4, <1>11, <2>1 DEF Me
  <2>2. CASE d = c
    BY <1>4, <1>11, <2>2 DEF Me
  <2>3. CASE a # c /\ d # c
    <3>1. /\ a \in categories /\ d \in categories /\ a.by \in Importer /\ d.by \in Importer
      BY <1>4, <2>3 DEF FolderImportInv, FolderImportTypeOK, Category
    <3>2. /\ a.parent = 0 /\ a.by # d.by /\ a \notin Me(d.by).found /\ d \notin Me(a.by).found
      BY <3>1 DEF FolderImportInv, FilesAreFiled, DoubledByOverlap
    <3> QED BY <1>10, <3>1, <3>2
  <2> QED BY <2>1, <2>2, <2>3
<1> QED BY <1>8, <1>9, <1>12

\* What an import knows and where its walk is, step by step.
LEMMA ImportsKnow ==
  ASSUME FolderImportInv, [FolderImportNext]_dvars
  PROVE  FolderImportTypeOK' /\ DoubledByOverlap' /\ \A v \in Importer : ImportKnows(v)'
<1>1. \A i \in Importer : Me(i) \in ImportRecord /\ Knows(i, Me(i))
  BY ImportKnowsItself DEF FolderImportInv, FolderImportTypeOK, Me
<1>2. CASE UNCHANGED dvars
  BY <1>2 DEF dvars, FolderImportInv, FolderImportTypeOK, FilesAreFiled, DoubledByOverlap, ImportKnows, InMap, Me
<1>3. CASE EndImports
  <2>1. /\ importers' = [i \in Importer |-> [NotBegun EXCEPT !.at = "over", !.found = Me(i).found]]
        /\ categories' = categories /\ finished' \in BOOLEAN
    BY <1>3 DEF EndImports
  <2>2. \A i \in Importer : /\ [NotBegun EXCEPT !.at = "over", !.found = Me(i).found] \in ImportRecord
                            /\ [NotBegun EXCEPT !.at = "over", !.found = Me(i).found].at = "over"
                            /\ [NotBegun EXCEPT !.at = "over", !.found = Me(i).found].map = {}
                            /\ [NotBegun EXCEPT !.at = "over", !.found = Me(i).found].found = Me(i).found
    BY <1>1, NotBegunOK DEF NotBegun, ImportRecord
  <2>3. /\ importers' \in [Importer -> ImportRecord]
        /\ \A i \in Importer : Me(i)'.at = "over" /\ Me(i)'.map = {} /\ Me(i)'.found = Me(i).found
    BY <2>1, <2>2 DEF Me
  <2>4. FolderImportTypeOK'
    BY <2>1, <2>3 DEF FolderImportInv, FolderImportTypeOK
  <2>5. \A v \in Importer : ImportKnows(v)'
    BY <1>1, <2>1, <2>3 DEF ImportKnows, Knows
  <2>6. DoubledByOverlap'
    <3> SUFFICES ASSUME NEW c \in categories, NEW d \in categories, c # d, c.parent = d.parent, c.name = d.name
                 PROVE  /\ c.parent = 0 /\ c.by # d.by
                        /\ c \notin Me(d.by)'.found /\ d \notin Me(c.by)'.found
      BY <2>1 DEF DoubledByOverlap
    <3>1. /\ c.parent = 0 /\ c.by # d.by /\ c.by \in Importer /\ d.by \in Importer
          /\ c \notin Me(d.by).found /\ d \notin Me(c.by).found
      BY DEF FolderImportInv, FilesAreFiled, DoubledByOverlap, FolderImportTypeOK, Category
    <3> QED BY <2>3, <3>1
  <2> QED BY <2>4, <2>5, <2>6
<1> DEFINE Goal == FolderImportTypeOK' /\ DoubledByOverlap' /\ \A v \in Importer : ImportKnows(v)'
<1>4. ASSUME NEW i \in Importer, BeginImport(i) PROVE Goal
  <2> DEFINE r == [NotBegun EXCEPT !.at = "file", !.map = categories, !.found = categories]
  <2>1. r \in ImportRecord /\ r.at = "file" /\ r.map = categories /\ r.found = categories
    BY NotBegunOK DEF NotBegun, ImportRecord, FolderImportInv, FolderImportTypeOK
  <2>2. Set(i, r) /\ UNCHANGED <<categories, finished>> /\ \A c \in categories : c.by # i
    BY <1>1, <1>4, NotBegunOK DEF BeginImport, Knows
  <2> HIDE DEF r
  <2>3. Knows(i, r)
    BY <2>1 DEF Knows
  <2> QED BY <2>1, <2>2, <2>3, KnowsMore
<1>5. ASSUME NEW i \in Importer, NEW path \in Paths, NextFile(i, path) PROVE Goal
  <2> DEFINE r == [Me(i) EXCEPT !.at = "walk", !.file = @ + 1, !.path = path, !.rest = path, !.parent = Top]
  <2>1. /\ r \in ImportRecord /\ r.at = "walk" /\ r.map = Me(i).map /\ r.found = Me(i).found
        /\ r.path = path /\ r.rest = path /\ r.parent = Top
    <3>1. path \in Seq(Part) /\ path \in Paths \cup {<<>>} /\ Top \in Category \cup {Top}
      BY PathShapes
    <3>2. Me(i) \in ImportRecord /\ Me(i).file + 1 \in Nat
      BY <1>1 DEF ImportRecord
    <3> QED BY <3>1, <3>2 DEF ImportRecord
  <2>2. Set(i, r) /\ UNCHANGED <<categories, finished>> /\ Me(i).at = "file"
    BY <1>5 DEF NextFile
  <2> HIDE DEF r
  <2>3. Knows(i, r)
    BY <1>1, <2>1, <2>2 DEF Knows, OnPath
  <2> QED BY <2>1, <2>2, <2>3, KnowsMore
<1>6. ASSUME NEW i \in Importer, KnownFolder(i) PROVE Goal
  <2>1. PICK c \in InMap(i) : StepInto(i, c)
    BY <1>6 DEF KnownFolder
  <2> DEFINE r == [Me(i) EXCEPT !.at = "walk", !.map = Mapped(i, c), !.rest = Tail(@), !.parent = c]
  <2>2. /\ Me(i).at = "walk" /\ Me(i).rest # <<>> /\ Me(i).rest \in Seq(Part) /\ Me(i).map \subseteq Category
        /\ c \in Me(i).map /\ c.parent = Me(i).parent.id /\ c.name = Head(Me(i).rest)
    BY <1>1, <1>6 DEF KnownFolder, InMap, ImportRecord
  <2>3. /\ r \in ImportRecord /\ r.at = "walk" /\ r.map = Me(i).map /\ r.found = Me(i).found
        /\ r.path = Me(i).path /\ r.rest = Tail(Me(i).rest) /\ r.parent = c
    <3>1. Tail(Me(i).rest) \in Seq(Part) /\ c \in Category \cup {Top} /\ Mapped(i, c) = Me(i).map
      BY <2>2 DEF Mapped
    <3> QED BY <1>1, <3>1 DEF ImportRecord
  <2>4. Set(i, r) /\ UNCHANGED <<categories, finished>>
    BY <1>6, <2>1 DEF KnownFolder, StepInto
  <2> HIDE DEF r
  <2>5. OnPath(r, categories)
    BY <1>1, <2>2, <2>3, WalkOn DEF Knows
  <2>6. Knows(i, r)
    BY <1>1, <2>2, <2>3, <2>5 DEF Knows
  <2> QED BY <2>3, <2>4, <2>6, KnowsMore
<1>7. ASSUME NEW i \in Importer, FreeName(i) PROVE Goal
  <2>1. PICK k \in 1 .. MaxSuffix : Set(i, [Me(i) EXCEPT !.at = "create", !.folder = Append(Me(i).parent.folder, k)])
    BY <1>7 DEF FreeName
  <2> DEFINE r == [Me(i) EXCEPT !.at = "create", !.folder = Append(Me(i).parent.folder, k)]
  <2>2. Me(i).parent.folder \in Seq(Nat) /\ k \in Nat
    <3>1. Me(i).parent \in Category \cup {Top}
      BY <1>1 DEF ImportRecord
    <3>2. Top.folder \in Seq(Nat)
      BY DEF Top
    <3> QED BY <3>1, <3>2, FolderImportAssumption DEF Category
  <2>3. Append(Me(i).parent.folder, k) \in Seq(Nat)
    BY <2>2
  <2>4. /\ r \in ImportRecord /\ r.at = "create" /\ r.map = Me(i).map /\ r.found = Me(i).found
        /\ r.path = Me(i).path /\ r.rest = Me(i).rest /\ r.parent = Me(i).parent
    BY <1>1, <2>3 DEF ImportRecord
  <2>5. /\ Set(i, r) /\ UNCHANGED <<categories, finished>>
        /\ Me(i).at = "walk" /\ Me(i).rest # <<>> /\ InMap(i) = {}
    BY <1>7, <2>1 DEF FreeName
  <2> HIDE DEF r
  <2>6. Knows(i, r)
    BY <1>1, <2>4, <2>5 DEF Knows, InMap, OnPath
  <2> QED BY <2>4, <2>5, <2>6, KnowsMore
<1>8. ASSUME NEW i \in Importer, NEW at \in {"file", "unlink"}, Set(i, [Me(i) EXCEPT !.at = at]),
             UNCHANGED <<categories, finished>>, Me(i).at # "over"
      PROVE  Goal
  <2> DEFINE r == [Me(i) EXCEPT !.at = at]
  <2>1. r \in ImportRecord /\ r.at = at /\ r.map = Me(i).map /\ r.found = Me(i).found
    BY <1>1 DEF ImportRecord
  <2> HIDE DEF r
  <2>2. Knows(i, r)
    BY <1>1, <1>8, <2>1 DEF Knows
  <2>3. Set(i, r)
    BY <1>8 DEF r
  <2> QED BY <1>8, <2>1, <2>2, <2>3, KnowsMore
<1>9. ASSUME NEW i \in Importer, CreateFolder(i) PROVE Goal
  <2>1. CASE FolderRefused(i)
    BY <1>8, <1>9, <2>1 DEF CreateFolder
  <2>2. CASE ~FolderRefused(i)
    BY <1>9, <2>2, FolderCreated
  <2> QED BY <2>1, <2>2
<1>10. ASSUME NEW i \in Importer, MoveUpload(i) PROVE Goal
  <2> DEFINE r == [Me(i) EXCEPT !.at = "add"]
  <2>1. /\ r \in ImportRecord /\ r.at = "add" /\ r.map = Me(i).map /\ r.found = Me(i).found
        /\ r.path = Me(i).path /\ r.rest = Me(i).rest /\ r.parent = Me(i).parent
    BY <1>1 DEF ImportRecord
  <2>2. Set(i, r) /\ UNCHANGED <<categories, finished>> /\ Me(i).at = "walk" /\ Me(i).rest = <<>>
    BY <1>10 DEF MoveUpload
  <2> HIDE DEF r
  <2>3. Knows(i, r)
    BY <1>1, <2>1, <2>2 DEF Knows, OnPath
  <2> QED BY <2>1, <2>2, <2>3, KnowsMore
<1>11. ASSUME NEW i \in Importer, AddDocument(i) \/ TransactionFails(i) \/ Unlink(i) PROVE Goal
  BY <1>8, <1>11 DEF AddDocument, TransactionFails, Unlink, AfterFailure
<1> QED BY <1>2, <1>3, <1>4, <1>5, <1>6, <1>7, <1>9, <1>10, <1>11 DEF FolderImportNext

\* A document is filed where the walk of its import ended.
LEMMA FiledStep == ASSUME FolderImportInv, [FolderImportNext]_dvars PROVE FiledByPath'
<1>1. \A d \in documents : \E c \in categories : c.id = d.category /\ FiledAt(c, d.path, categories)
  BY DEF FolderImportInv, FilesAreFiled, FiledByPath
<1>2. categories \subseteq categories'
  BY DEF FolderImportNext, dvars, EndImports, BeginImport, NextFile, KnownFolder, FreeName, CreateFolder,
         MoveUpload, AddDocument, TransactionFails, Unlink
<1>3. CASE documents' = documents
  BY <1>1, <1>2, <1>3 DEF FiledByPath, FiledAt
<1>4. ASSUME NEW i \in Importer, AddDocument(i) PROVE FiledByPath'
  <2> DEFINE d == [file |-> File(i), category |-> Me(i).parent.id, path |-> Me(i).path]
  <2>1. /\ documents' = documents \cup {d} /\ categories' = categories
        /\ Me(i).at = "add" /\ d.category = Me(i).parent.id /\ d.path = Me(i).path
    BY <1>4 DEF AddDocument
  <2> HIDE DEF d
  <2>2. Me(i).path \in Paths /\ OnPath(Me(i), categories) /\ Me(i).rest = <<>>
    BY <2>1 DEF FolderImportInv, ImportKnows
  <2>3. Me(i).parent \in categories /\ FiledAt(Me(i).parent, Me(i).path, categories)
    BY <2>2, PathShapes DEF OnPath
  <2> QED BY <1>1, <2>1, <2>3 DEF FiledByPath
<1>5. documents' = documents \/ \E i \in Importer : AddDocument(i)
  BY DEF FolderImportNext, dvars, EndImports, BeginImport, NextFile, KnownFolder, FreeName, CreateFolder,
         MoveUpload, TransactionFails, Unlink
<1> QED BY <1>3, <1>4, <1>5

\* Who a stored file belongs to.
Owned(f) ==
  \/ \E d \in documents : d.file = f
  \/ \E i \in Importer : Me(i).at \in {"add", "unlink"} /\ f = <<i, Me(i).file>>

\* A step of import i to r keeps or removes files so that none loses its owner.
Leaves(i, r) ==
  \A f \in stored' : \/ f \in stored /\ f # <<i, Me(i).file>>
                     \/ \E d \in documents' : d.file = f
                     \/ r.at \in {"add", "unlink"} /\ f = <<i, r.file>>
                     \/ f \in stored /\ Me(i).at \notin {"add", "unlink"}

LEMMA StoredStep == ASSUME FolderImportInv, [FolderImportNext]_dvars PROVE StoredHasDocument'
<1> SUFFICES ASSUME ~finished' PROVE \A f \in stored' : Owned(f)'
  BY DEF StoredHasDocument, Owned
<1>1. ~finished /\ ~EndImports
  <2>1. CASE UNCHANGED finished
    BY <2>1, Zenon DEF EndImports
  <2>2. CASE EndImports
    BY <2>2, Zenon DEF EndImports
  <2>3. UNCHANGED finished \/ EndImports
    BY DEF FolderImportNext, dvars, BeginImport, NextFile, KnownFolder, FreeName, CreateFolder,
           MoveUpload, AddDocument, TransactionFails, Unlink
  <2> QED BY <2>1, <2>2, <2>3
<1>2. \A f \in stored : Owned(f)
  BY <1>1 DEF FolderImportInv, FilesAreFiled, StoredHasDocument, Owned
<1>3. \A i \in Importer : Me(i) \in ImportRecord
  BY DEF FolderImportInv, FolderImportTypeOK, Me
<1>4. CASE UNCHANGED dvars
  BY <1>2, <1>4 DEF dvars, Owned, Me
<1>5. ASSUME NEW i \in Importer, NEW r \in ImportRecord, Set(i, r), documents \subseteq documents', Leaves(i, r)
      PROVE  \A f \in stored' : Owned(f)'
  <2>1. Me(i)' = r /\ \A v \in Importer \ {i} : Me(v)' = Me(v)
    BY <1>5, ImportSet DEF FolderImportInv
  <2> SUFFICES ASSUME NEW f \in stored' PROVE Owned(f)'
    OBVIOUS
  <2>2. CASE \E d \in documents' : d.file = f
    BY <2>2 DEF Owned
  <2>3. CASE r.at \in {"add", "unlink"} /\ f = <<i, r.file>>
    BY <2>1, <2>3 DEF Owned
  <2>4. CASE f \in stored /\ (f # <<i, Me(i).file>> \/ Me(i).at \notin {"add", "unlink"})
    <3>1. CASE \E d \in documents : d.file = f
      BY <1>5, <3>1 DEF Owned
    <3>2. ASSUME NEW v \in Importer, Me(v).at \in {"add", "unlink"}, f = <<v, Me(v).file>> PROVE Owned(f)'
      <4>1. v # i
        BY <2>4, <3>2
      <4> QED BY <2>1, <3>2, <4>1 DEF Owned
    <3> QED BY <1>2, <2>4, <3>1, <3>2 DEF Owned
  <2> QED BY <1>5, <2>2, <2>3, <2>4 DEF Leaves
<1>7. ASSUME NEW i \in Importer,
             BeginImport(i) \/ (\E path \in Paths : NextFile(i, path)) \/ KnownFolder(i) \/ FreeName(i) \/ CreateFolder(i)
      PROVE  \A f \in stored' : Owned(f)'
  <2>1. Me(i).at \notin {"add", "unlink"} /\ UNCHANGED <<documents, stored>>
    BY <1>7, NotBegunOK DEF BeginImport, NextFile, KnownFolder, FreeName, CreateFolder
  <2>2. \E r : Set(i, r)
    BY <1>7 DEF BeginImport, NextFile, KnownFolder, FreeName, CreateFolder, StepInto
  <2>3. \A v \in Importer \ {i} : Me(v)' = Me(v)
    BY <2>2 DEF Set, Me, FolderImportInv, FolderImportTypeOK
  <2> SUFFICES ASSUME NEW f \in stored' PROVE Owned(f)'
    OBVIOUS
  <2> QED BY <1>2, <2>1, <2>3 DEF Owned
<1>8. ASSUME NEW i \in Importer, MoveUpload(i) PROVE \A f \in stored' : Owned(f)'
  <2> DEFINE r == [Me(i) EXCEPT !.at = "add"]
  <2>1. r \in ImportRecord /\ r.at = "add" /\ r.file = Me(i).file
    BY <1>3 DEF ImportRecord
  <2>2. /\ Set(i, r) /\ documents' = documents /\ stored' = stored \cup {<<i, Me(i).file>>} /\ Me(i).at = "walk"
    BY <1>8 DEF MoveUpload, File
  <2> HIDE DEF r
  <2>3. Leaves(i, r) /\ documents \subseteq documents'
    BY <2>1, <2>2 DEF Leaves
  <2> QED BY <1>5, <2>1, <2>2, <2>3
<1>9. ASSUME NEW i \in Importer, AddDocument(i) PROVE \A f \in stored' : Owned(f)'
  <2> DEFINE r == [Me(i) EXCEPT !.at = "file"]
             d == [file |-> File(i), category |-> Me(i).parent.id, path |-> Me(i).path]
  <2>1. r \in ImportRecord /\ d.file = <<i, Me(i).file>>
    BY <1>3 DEF ImportRecord, File
  <2>2. Set(i, r) /\ documents' = documents \cup {d} /\ stored' = stored
    BY <1>9 DEF AddDocument
  <2> HIDE DEF r, d
  <2>3. Leaves(i, r) /\ documents \subseteq documents'
    BY <2>1, <2>2 DEF Leaves
  <2> QED BY <1>5, <2>1, <2>2, <2>3
<1>10. ASSUME NEW i \in Importer, TransactionFails(i) PROVE \A f \in stored' : Owned(f)'
  <2> DEFINE r == [Me(i) EXCEPT !.at = "unlink"]
  <2>1. r \in ImportRecord /\ r.at = "unlink" /\ r.file = Me(i).file
    BY <1>3 DEF ImportRecord
  <2>2. Set(i, r) /\ documents' = documents /\ stored' = stored
    BY <1>10 DEF TransactionFails, AfterFailure
  <2> HIDE DEF r
  <2>3. Leaves(i, r) /\ documents \subseteq documents'
    BY <2>1, <2>2 DEF Leaves
  <2> QED BY <1>5, <2>1, <2>2, <2>3
<1>11. ASSUME NEW i \in Importer, Unlink(i) PROVE \A f \in stored' : Owned(f)'
  <2> DEFINE r == [Me(i) EXCEPT !.at = "file"]
  <2>1. r \in ImportRecord
    BY <1>3 DEF ImportRecord
  <2>2. Set(i, r) /\ documents' = documents /\ stored' = stored \ {<<i, Me(i).file>>}
    BY <1>11 DEF Unlink, File
  <2> HIDE DEF r
  <2>3. Leaves(i, r) /\ documents \subseteq documents'
    BY <2>1, <2>2 DEF Leaves
  <2> QED BY <1>5, <2>1, <2>2, <2>3
<1> QED BY <1>1, <1>4, <1>7, <1>8, <1>9, <1>10, <1>11 DEF FolderImportNext

\* resolveFolderCategoryPath and batchSoftcopyFolderImport: documents are filed at the path of
\* their file, no file stays without its document, and only overlapping imports double a
\* folder, whatever the transactions that fail.
THEOREM ImportedFilesAreFiled == FolderImportSpec => []FilesAreFiled
<1>1. FolderImportInit => FolderImportInv
  <2> SUFFICES ASSUME FolderImportInit PROVE FolderImportInv
    OBVIOUS
  <2>1. /\ categories = {} /\ documents = {} /\ stored = {} /\ finished = FALSE
        /\ importers \in [Importer -> ImportRecord] /\ \A i \in Importer : Me(i) = NotBegun
    BY NotBegunOK DEF FolderImportInit, Me
  <2>2. FolderImportTypeOK
    BY <2>1, FS_EmptySet DEF FolderImportTypeOK
  <2>3. FilesAreFiled
    BY <2>1 DEF FilesAreFiled, FiledByPath, StoredHasDocument, DoubledByOverlap
  <2>4. \A i \in Importer : ImportKnows(i)
    BY <2>1, NotBegunOK DEF ImportKnows
  <2> QED BY <2>2, <2>3, <2>4 DEF FolderImportInv
<1>2. FolderImportInv /\ [FolderImportNext]_dvars => FolderImportInv'
  BY ImportsKnow, FiledStep, StoredStep DEF FolderImportInv, FilesAreFiled
<1>3. FolderImportInv => FilesAreFiled
  BY DEF FolderImportInv
<1> QED BY <1>1, <1>2, <1>3, PTL DEF FolderImportSpec

=============================================================================
