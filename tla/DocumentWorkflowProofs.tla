----------------------- MODULE DocumentWorkflowProofs -----------------------
(***************************************************************************)
(* Proofs about DocumentWorkflow and its refinement of ApprovalProtocol,   *)
(* for any number of handlers in flight, users, workflow versions, nodes   *)
(* and attachments.                                                        *)
(***************************************************************************)
EXTENDS DocumentWorkflow, FiniteSetTheorems, TLAPS

\* The two results a handler can leave in its slot are well formed.
LEMMA IdleOK ==
  /\ Idle \in TxRecord /\ Refused \in TxRecord
  /\ HandlerOK(Idle) /\ HandlerOK(Refused)
BY DEF Idle, Refused, TxRecord, HandlerOK

\* What a handler keeps of the documents row is well formed.
LEMMA ReadingOK ==
  ASSUME TypeOK, NEW o \in Operation, NEW u \in User \cup {NoUser}
  PROVE  Reading(o, u) \in TxRecord
BY DEF TypeOK, DocRecord, Reading, TxRecord

\* Every stage of a step has a status of its own among the approval statuses.
LEMMA StageStatusOK == \A s \in Stages : StageStatus[s] \in InApproval
BY DEF StageStatus, Stages, InApproval

\* Changing one slot keeps the invariant if what is put there is well formed.
LEMMA SlotChange ==
  ASSUME WorkflowInv, NEW r \in Req, NEW t, t \in TxRecord, HandlerOK(t),
         tx' = [tx EXCEPT ![r] = t],
         UNCHANGED <<doc, steps, stepPlan, audit, atts, files>>
  PROVE  WorkflowInv'
<1>1. TypeOK'
  BY DEF WorkflowInv, TypeOK
<1>2. RowsExist' /\ OneActiveStep' /\ CreatorNeverDecides'
  BY DEF WorkflowInv, RowsExist, KnownStep, OneActiveStep, Pending, CreatorNeverDecides
<1>3. \A q \in Req : HandlerOK(tx'[q])
  BY DEF WorkflowInv, TypeOK
<1>4. \A q \in Req : HandlerOK(tx[q])'
  BY <1>3 DEF HandlerOK, KnownStep, HasSteps
<1> QED BY <1>1, <1>2, <1>4 DEF WorkflowInv

-----------------------------------------------------------------------------
(* Handlers that begin: they read and check rows, and write nothing *)

LEMMA BeginSubmitInv ==
  ASSUME WorkflowInv, NEW r \in Req, BeginSubmit(r)
  PROVE  WorkflowInv'
<1> DEFINE fresh == ~HasSteps
           t == [Reading("submit", Creator) EXCEPT !.fresh = fresh]
<1>1. fresh \in BOOLEAN
  BY DEF HasSteps
<1>2. fresh \/ HasSteps
  OBVIOUS
<1> HIDE DEF fresh
<1>3. Reading("submit", Creator) \in TxRecord
  BY ReadingOK, ActorAssumption DEF WorkflowInv, Operation
<1>4. t \in TxRecord
  BY <1>1, <1>3 DEF TxRecord
<1>5. t.pc = "run" /\ t.op = "submit" /\ t.status = doc.status /\ t.fresh = fresh
  BY DEF Reading
<1>6. HandlerOK(t)
  BY <1>2, <1>5 DEF HandlerOK, WorkflowInv, TypeOK, DocRecord, Outcome
<1> QED BY <1>4, <1>6, SlotChange DEF BeginSubmit, Begin, fresh

LEMMA BeginDecideInv ==
  ASSUME WorkflowInv, NEW r \in Req, NEW u \in User, NEW a \in Outcome,
         BeginDecide(r, u, a)
  PROVE  WorkflowInv'
<1>1. PICK n \in Node :
        LET next == Graph[stepPlan].next[a][n] IN
        /\ IsActive(n)
        /\ u # Creator
        /\ Begin(r, a,
             [Reading(a, u) EXCEPT
                !.step = n, !.next = next, !.soft = IsSoftcopy,
                !.to = IF next # NoNode THEN StageStatus[Stage[next]] ELSE EndStatus(a)])
  BY DEF BeginDecide, MayDecide
<1> DEFINE next == Graph[stepPlan].next[a][n]
           to == IF next # NoNode THEN StageStatus[Stage[next]] ELSE EndStatus(a)
           t == [Reading(a, u) EXCEPT
                   !.step = n, !.next = next, !.soft = IsSoftcopy, !.to = to]
<1>2. stepPlan \in Plan /\ n \in Graph[stepPlan].nodes
  BY <1>1 DEF IsActive, WorkflowInv, RowsExist, KnownStep, TypeOK
<1>3. next \in (Graph[stepPlan].nodes \ {n}) \cup {NoNode}
  BY <1>2, GraphAssumption
<1>4. Graph[stepPlan].nodes \subseteq Node
  BY <1>2, GraphAssumption DEF PlanRecord
<1>5. EndStatus(a) \in Status \ InApproval
  BY DEF EndStatus, Outcome, Status, InApproval, Editable, Finalized, Closed
<1>6. next # NoNode => StageStatus[Stage[next]] \in Status
  <2> SUFFICES ASSUME next # NoNode PROVE StageStatus[Stage[next]] \in Status
    OBVIOUS
  <2>1. Stage[next] \in Stages
    BY <1>3, <1>4, GraphAssumption
  <2> QED BY <2>1, StageStatusOK DEF Status
<1>7. to \in Status
  BY <1>5, <1>6
<1> HIDE DEF next, to
<1>8. t \in TxRecord
  <2>1. IsSoftcopy \in BOOLEAN
    BY DEF IsSoftcopy
  <2>2. Reading(a, u) \in TxRecord
    BY ReadingOK DEF WorkflowInv, Operation
  <2>3. next \in Node \cup {NoNode}
    BY <1>3, <1>4
  <2> QED BY <1>7, <2>1, <2>2, <2>3 DEF TxRecord
<1>9. /\ t.pc = "run" /\ t.op = a /\ t.by = u /\ t.status = doc.status
      /\ t.step = n /\ t.next = next /\ t.to = to
  BY DEF Reading
<1>10. HandlerOK(t)
  <2>1. next = NoNode => to \in Status \ InApproval
    BY <1>5 DEF to
  <2>2. next # NoNode => to = StageStatus[Stage[next]] /\ KnownStep(next) /\ next # n
    BY <1>2, <1>3, GraphAssumption DEF to, KnownStep
  <2>3. doc.status \in Status
    BY DEF WorkflowInv, TypeOK, DocRecord
  <2> HIDE DEF t
  <2> QED BY <1>1, <1>2, <1>9, <2>1, <2>2, <2>3, GraphAssumption DEF HandlerOK, KnownStep, Outcome
<1> QED BY <1>1, <1>8, <1>10, SlotChange DEF Begin, next, to

LEMMA BeginCancelInv ==
  ASSUME WorkflowInv, NEW r \in Req, BeginCancel(r)
  PROVE  WorkflowInv'
<1> DEFINE t == [Reading("cancel", Creator) EXCEPT !.to = "Cancelled"]
<1>1. t \in TxRecord
  BY ReadingOK, ActorAssumption DEF WorkflowInv, Operation, TxRecord, Status, Closed
<1>2. /\ t.pc = "run" /\ t.op = "cancel" /\ t.by = Creator /\ t.status = doc.status
      /\ t.to = "Cancelled"
  BY DEF Reading
<1>3. "Cancelled" \in Status \ InApproval
  BY DEF Status, Closed, InApproval
<1>4. HandlerOK(t)
  BY <1>2, <1>3, ActorAssumption DEF HandlerOK, WorkflowInv, TypeOK, DocRecord, Outcome
<1> QED BY <1>1, <1>4, SlotChange DEF BeginCancel, Begin

LEMMA BeginCompleteInv ==
  ASSUME WorkflowInv, NEW r \in Req, NEW u \in User, BeginComplete(r, u)
  PROVE  WorkflowInv'
<1> DEFINE t == [Reading("complete", u) EXCEPT !.to = "Completed"]
<1>1. t \in TxRecord
  BY ReadingOK DEF WorkflowInv, Operation, TxRecord, Status, Finalized
<1>2. /\ t.pc = "run" /\ t.op = "complete" /\ t.by = u /\ t.status = doc.status
      /\ t.to = "Completed"
  BY DEF Reading
<1>3. "Completed" \in Status \ InApproval
  BY DEF Status, Finalized, InApproval
<1>4. HandlerOK(t)
  BY <1>2, <1>3 DEF HandlerOK, WorkflowInv, TypeOK, DocRecord, Outcome
<1> QED BY <1>1, <1>4, SlotChange DEF BeginComplete, Begin

LEMMA BeginReviseInv ==
  ASSUME WorkflowInv, NEW r \in Req, NEW u \in User, BeginRevise(r, u)
  PROVE  WorkflowInv'
<1> DEFINE t == [Reading("revise", u) EXCEPT !.to = "ForRevision"]
<1>1. t \in TxRecord
  BY ReadingOK DEF WorkflowInv, Operation, TxRecord, Status, Editable
<1>2. /\ t.pc = "run" /\ t.op = "revise" /\ t.by = u /\ t.status = doc.status
      /\ t.to = "ForRevision"
  BY DEF Reading
<1>3. "ForRevision" \in Status \ InApproval
  BY DEF Status, Editable, InApproval
<1>4. HandlerOK(t)
  BY <1>2, <1>3 DEF HandlerOK, WorkflowInv, TypeOK, DocRecord, Outcome
<1> QED BY <1>1, <1>4, SlotChange DEF BeginRevise, Begin

LEMMA BeginReassignInv ==
  ASSUME WorkflowInv, NEW r \in Req, NEW n \in Node, NEW v \in User,
         BeginReassign(r, n, v)
  PROVE  WorkflowInv'
<1> DEFINE t == [Reading("reassign", NoUser) EXCEPT !.step = n, !.user = v]
<1>0. Reading("reassign", NoUser) \in TxRecord
  BY ReadingOK DEF WorkflowInv, Operation
<1>1. t \in TxRecord
  BY <1>0 DEF TxRecord
<1>2. /\ t.pc = "run" /\ t.op = "reassign" /\ t.status = doc.status
      /\ t.step = n /\ t.user = v
  BY DEF Reading
<1>3. HandlerOK(t)
  BY <1>2 DEF HandlerOK, WorkflowInv, TypeOK, DocRecord, Outcome
<1> QED BY <1>1, <1>3, SlotChange DEF BeginReassign, Begin

LEMMA BeginEditInv ==
  ASSUME WorkflowInv, NEW r \in Req, NEW d \in Data, BeginEdit(r, d)
  PROVE  WorkflowInv'
<1> DEFINE t == [Reading("edit", NoUser) EXCEPT !.data = {d}]
<1>1. t \in TxRecord
  BY ReadingOK DEF WorkflowInv, Operation, TxRecord
<1>2. t.pc = "run" /\ t.op = "edit" /\ t.status = doc.status /\ t.data = {d}
  BY DEF Reading
<1>3. HandlerOK(t)
  BY <1>2 DEF HandlerOK, WorkflowInv, TypeOK, DocRecord, Outcome
<1> QED BY <1>1, <1>3, SlotChange DEF BeginEdit, Begin

LEMMA BeginReselectInv ==
  ASSUME WorkflowInv, NEW r \in Req, NEW p \in Plan, BeginReselect(r, p)
  PROVE  WorkflowInv'
<1> DEFINE t == [Reading("reselect", NoUser) EXCEPT !.plan = p]
<1>1. t \in TxRecord
  BY ReadingOK DEF WorkflowInv, Operation, TxRecord
<1>2. t.pc = "run" /\ t.op = "reselect" /\ t.status = doc.status /\ t.plan = p
  BY DEF Reading
<1>3. HandlerOK(t)
  BY <1>2 DEF HandlerOK, WorkflowInv, TypeOK, DocRecord, Outcome
<1> QED BY <1>1, <1>3, SlotChange DEF BeginReselect, Begin

LEMMA BeginAttachInv ==
  ASSUME WorkflowInv, NEW r \in Req, NEW a \in Att, BeginAttach(r, a)
  PROVE  WorkflowInv'
<1> DEFINE t == [Reading("attach", NoUser) EXCEPT !.atts = {a}]
<1>1. t \in TxRecord
  BY ReadingOK DEF WorkflowInv, Operation, TxRecord
<1>2. t.pc = "run" /\ t.op = "attach" /\ t.status = doc.status
  BY DEF Reading
<1>3. HandlerOK(t)
  BY <1>2 DEF HandlerOK, WorkflowInv, TypeOK, DocRecord, Outcome
<1> QED BY <1>1, <1>3, SlotChange DEF BeginAttach, Begin

-----------------------------------------------------------------------------
(* Handlers that write *)

\* The handlers in flight stay well formed when one of them ends and the step
\* rows keep their plan or get their first one.
LEMMA OthersKeep ==
  ASSUME WorkflowInv, NEW r \in Req, NEW t, t \in TxRecord, t.pc # "run",
         tx' = [tx EXCEPT ![r] = t],
         stepPlan' = stepPlan \/ stepPlan = NoPlan
  PROVE  tx' \in [Req -> TxRecord] /\ \A q \in Req : HandlerOK(tx[q])'
<1>1. tx \in [Req -> TxRecord] /\ \A q \in Req : HandlerOK(tx[q])
  BY DEF WorkflowInv, TypeOK
<1>2. tx' \in [Req -> TxRecord]
  BY <1>1
<1>3. ASSUME NEW q \in Req PROVE HandlerOK(tx[q])'
  <2>1. CASE q = r
    BY <1>1, <2>1 DEF HandlerOK
  <2>2. CASE q # r
    <3>1. tx'[q] = tx[q]
      BY <1>1, <2>2
    <3> QED BY <1>1, <3>1 DEF HandlerOK, KnownStep, HasSteps
  <2> QED BY <2>1, <2>2
<1> QED BY <1>2, <1>3

\* The rows of a plan whose first step is pending satisfy the invariant's parts.
LEMMA StartedInv ==
  ASSUME NEW p \in Plan, stepPlan' = p,
         \A n \in Node : steps'[n].status # "NONE" <=> n \in Graph[p].nodes,
         \A n \in Node : steps'[n].status = "PENDING" <=> n = Graph[p].first,
         \A n \in Node : steps'[n].actedBy = NoUser,
         doc'.status = FirstStatus(p), doc'.node = Graph[p].first
  PROVE  RowsExist' /\ OneActiveStep' /\ CreatorNeverDecides'
<1>1. Graph[p].first \in Node /\ p # NoPlan
  BY GraphAssumption DEF PlanRecord
<1>2. RowsExist'
  BY <1>1 DEF RowsExist, KnownStep
<1>3. OneActiveStep'
  BY <1>1 DEF OneActiveStep, Pending, FirstStatus
<1>4. CreatorNeverDecides'
  BY ActorAssumption DEF CreatorNeverDecides
<1> QED BY <1>2, <1>3, <1>4

LEMMA FirstStatusOK == \A p \in Plan : FirstStatus(p) \in Status
<1> TAKE p \in Plan
<1>1. Stage[Graph[p].first] \in Stages
  BY GraphAssumption DEF PlanRecord
<1> QED BY <1>1, StageStatusOK DEF FirstStatus, Status

LEMMA RefuseInv ==
  ASSUME WorkflowInv, NEW r \in Req, Refuse(r)
  PROVE  WorkflowInv'
BY IdleOK, SlotChange DEF Refuse

LEMMA FirstSubmitInv ==
  ASSUME WorkflowInv, NEW r \in Req, FirstSubmit(r)
  PROVE  WorkflowInv'
<1> DEFINE p == doc.plan
<1>1. p \in Plan /\ doc \in DocRecord
  BY DEF WorkflowInv, TypeOK, DocRecord
<1>2. CASE ~Submittable(p)
  BY <1>2, IdleOK, SlotChange DEF FirstSubmit, Done
<1>3. CASE Refuse(r)
  BY <1>3, RefuseInv
<1>4. CASE /\ Submittable(p) /\ ~HasSteps
           /\ steps' = InitialSteps(p) /\ stepPlan' = p
           /\ doc' = [doc EXCEPT !.status = FirstStatus(p), !.node = Graph[p].first]
           /\ audit' = [from |-> tx[r].status, to |-> FirstStatus(p),
                        action |-> "submit", by |-> Creator]
           /\ Done(r) /\ UNCHANGED <<atts, files>>
  <2>1. tx[r].status \in Status
    BY DEF FirstSubmit, Running, WorkflowInv, HandlerOK
  <2>2. audit' \in AuditRecord
    BY <1>1, <1>4, <2>1, FirstStatusOK, ActorAssumption DEF AuditRecord, Operation
  <2>3. doc' \in DocRecord
    <3>1. FirstStatus(p) \in Status /\ Graph[p].first \in Node
      BY <1>1, FirstStatusOK, GraphAssumption DEF PlanRecord
    <3> QED BY <1>1, <1>4, <3>1 DEF DocRecord
  <2>4. steps' \in [Node -> StepRecord]
    BY <1>4, ActorAssumption DEF InitialSteps, NewStep, NoRow, StepRecord, StepStatus
  <2>5. RowsExist' /\ OneActiveStep' /\ CreatorNeverDecides'
    <3>1. \A n \in Node : /\ steps'[n].status # "NONE" <=> n \in Graph[p].nodes
                          /\ steps'[n].status = "PENDING" <=> n = Graph[p].first
                          /\ steps'[n].actedBy = NoUser
      BY <1>1, <1>4, GraphAssumption DEF InitialSteps, NewStep, NoRow
    <3>2. doc'.status = FirstStatus(p) /\ doc'.node = Graph[p].first
      BY <1>1, <1>4 DEF DocRecord
    <3> QED BY <1>1, <1>4, <3>1, <3>2, StartedInv
  <2>6. tx' \in [Req -> TxRecord] /\ \A q \in Req : HandlerOK(tx[q])'
    <3>1. Idle \in TxRecord /\ Idle.pc # "run"
      BY IdleOK DEF Idle
    <3> QED BY <1>4, <3>1, OthersKeep DEF Done, HasSteps
  <2> QED BY <1>1, <1>4, <2>2, <2>3, <2>4, <2>5, <2>6 DEF WorkflowInv, TypeOK
<1> QED BY <1>2, <1>3, <1>4 DEF FirstSubmit

LEMMA ResubmitInv ==
  ASSUME WorkflowInv, NEW r \in Req, Resubmit(r)
  PROVE  WorkflowInv'
<1> DEFINE p == stepPlan
           first == Graph[p].first
           row(n) == [steps[n] EXCEPT !.status = IF n = first THEN "PENDING" ELSE "QUEUED",
                                      !.actedBy = NoUser, !.at = 0]
<1>1. p \in Plan
  BY DEF Resubmit, Running, WorkflowInv, TypeOK, HandlerOK, HasSteps, Outcome
<1>2. doc \in DocRecord /\ steps \in [Node -> StepRecord]
  BY DEF WorkflowInv, TypeOK
<1>3. CASE Refuse(r)
  BY <1>3, RefuseInv
<1>4. CASE /\ steps' = [n \in Node |-> IF steps[n].status = "NONE" THEN steps[n] ELSE row(n)]
           /\ doc' = [doc EXCEPT !.status = FirstStatus(p), !.node = first]
           /\ audit' = [from |-> tx[r].status, to |-> FirstStatus(p),
                        action |-> "submit", by |-> Creator]
           /\ Done(r) /\ UNCHANGED <<stepPlan, atts, files>>
  <2>1. tx[r].status \in Status
    BY DEF Resubmit, Running, WorkflowInv, HandlerOK
  <2>2. audit' \in AuditRecord
    BY <1>1, <1>4, <2>1, FirstStatusOK, ActorAssumption DEF AuditRecord, Operation
  <2>3. doc' \in DocRecord
    <3>1. FirstStatus(p) \in Status /\ Graph[p].first \in Node
      BY <1>1, FirstStatusOK, GraphAssumption DEF PlanRecord
    <3> QED BY <1>2, <1>4, <3>1 DEF DocRecord
  <2>4. \A n \in Node : /\ row(n) \in StepRecord
                        /\ row(n).status = (IF n = first THEN "PENDING" ELSE "QUEUED")
                        /\ row(n).actedBy = NoUser
    BY <1>2 DEF StepRecord, StepStatus
  <2>5. steps' \in [Node -> StepRecord]
    BY <1>2, <1>4, <2>4
  <2>6. RowsExist' /\ OneActiveStep' /\ CreatorNeverDecides'
    <3> HIDE DEF row
    <3>1. \A n \in Node : steps[n].status # "NONE" <=> n \in Graph[p].nodes
      BY <1>1, GraphAssumption DEF WorkflowInv, RowsExist, KnownStep
    <3>2. first \in Graph[p].nodes /\ first \in Node
      BY <1>1, GraphAssumption DEF PlanRecord
    <3>3. \A n \in Node : /\ steps'[n].status # "NONE" <=> n \in Graph[p].nodes
                          /\ steps'[n].status = "PENDING" <=> n = first
      BY <1>4, <2>4, <3>1, <3>2
    <3>4. RowsExist'
      BY <1>1, <1>4, <3>3, GraphAssumption DEF RowsExist, KnownStep
    <3>5. doc'.status = FirstStatus(p) /\ doc'.node = first
      BY <1>2, <1>4 DEF DocRecord
    <3>6. OneActiveStep'
      BY <3>2, <3>3, <3>5 DEF OneActiveStep, Pending, FirstStatus
    <3>7. CreatorNeverDecides'
      BY <1>4, <2>4, ActorAssumption DEF CreatorNeverDecides, WorkflowInv
    <3> QED BY <3>4, <3>6, <3>7
  <2>7. tx' \in [Req -> TxRecord] /\ \A q \in Req : HandlerOK(tx[q])'
    <3>1. Idle \in TxRecord /\ Idle.pc # "run"
      BY IdleOK DEF Idle
    <3> QED BY <1>4, <3>1, OthersKeep DEF Done
  <2> QED BY <1>1, <1>4, <2>2, <2>3, <2>5, <2>6, <2>7 DEF WorkflowInv, TypeOK
<1> QED BY <1>3, <1>4 DEF Resubmit, ResetSteps

\* Positions in the order of decisions are natural numbers.
LEMMA DecisionCountNat == DecisionCount \in Nat
<1>1. IsFiniteSet({n \in Node : steps[n].at # 0})
  BY ActorAssumption, FS_Subset
<1> QED BY <1>1, FS_CardinalityType DEF DecisionCount

LEMMA CommitDecideInv ==
  ASSUME WorkflowInv, NEW r \in Req, CommitDecide(r)
  PROVE  WorkflowInv'
<1> DEFINE t == tx[r]
           left == IF RejectsAttachments(t)
                   THEN [Idle EXCEPT !.pc = "cleanup", !.atts = LiveAtts] ELSE Idle
           row == [steps[t.step] EXCEPT !.status = DecidedStatus[t.op], !.actedBy = t.by,
                                        !.at = DecisionCount + 1]
<1>1. t.pc = "run" /\ t.op \in Outcome
  BY DEF CommitDecide, Running
<1>2. /\ t \in TxRecord /\ HandlerOK(t)
      /\ doc \in DocRecord /\ steps \in [Node -> StepRecord] /\ stepPlan \in Plan \cup {NoPlan}
      /\ atts \in [Att -> AttStatus] /\ files \subseteq Att
  BY DEF WorkflowInv, TypeOK
<1>3. /\ KnownStep(t.step) /\ t.by \in User \ {Creator} /\ t.status \in Status
      /\ t.next = NoNode => t.to \in Status \ InApproval
      /\ t.next # NoNode => /\ KnownStep(t.next) /\ t.next # t.step
                            /\ t.to = StageStatus[Stage[t.next]]
  BY <1>1, <1>2 DEF HandlerOK
<1>4. stepPlan \in Plan /\ Graph[stepPlan].nodes \subseteq Node
  BY <1>2, <1>3, GraphAssumption DEF KnownStep, PlanRecord
<1>5. t.step \in Node /\ (t.next # NoNode => t.next \in Node)
  BY <1>3, <1>4 DEF KnownStep
<1>6. t.to \in Status
  <2>1. t.next # NoNode => Stage[t.next] \in Stages
    BY <1>5, GraphAssumption
  <2> QED BY <1>3, <2>1, StageStatusOK DEF Status
<1>7. CASE Refuse(r)
  BY <1>7, RefuseInv
<1>8. CASE /\ steps' = DecidedSteps(t)
           /\ doc' = [doc EXCEPT !.status = t.to, !.node = t.next]
           /\ atts' = DecidedAtts(t)
           /\ Logged(r)
           /\ tx' = [tx EXCEPT ![r] = left]
           /\ UNCHANGED <<stepPlan, files>>
  <2>1. audit' \in AuditRecord
    BY <1>1, <1>3, <1>6, <1>8 DEF Logged, AuditRecord, Operation
  <2>2. doc' \in DocRecord
    BY <1>2, <1>5, <1>6, <1>8 DEF DocRecord
  <2>3. atts' \in [Att -> AttStatus]
    BY <1>2, <1>8 DEF DecidedAtts, AttStatus
  <2>4. /\ row \in StepRecord /\ row.actedBy = t.by
        /\ row.status \in {"APPROVED", "REJECTED", "RETURNED"}
    <3>1. DecidedStatus[t.op] \in {"APPROVED", "REJECTED", "RETURNED"}
      BY <1>1 DEF DecidedStatus, Outcome
    <3>2. DecisionCount + 1 \in Nat
      BY DecisionCountNat
    <3>3. steps[t.step] \in StepRecord
      BY <1>2, <1>5
    <3> QED BY <1>3, <3>1, <3>2, <3>3 DEF StepRecord, StepStatus
  <2>5. \A n \in Node :
          /\ n = t.step => steps'[n] = row
          /\ n # t.step => /\ steps'[n] \in StepRecord
                           /\ steps'[n].actedBy = steps[n].actedBy
                           /\ steps'[n].status = "NONE" <=> steps[n].status = "NONE"
                           /\ t.next # NoNode => (steps'[n].status = "PENDING" <=> n = t.next)
    <3> SUFFICES ASSUME NEW n \in Node
                 PROVE  /\ n = t.step => steps'[n] = row
                        /\ n # t.step =>
                           /\ steps'[n] \in StepRecord
                           /\ steps'[n].actedBy = steps[n].actedBy
                           /\ steps'[n].status = "NONE" <=> steps[n].status = "NONE"
                           /\ t.next # NoNode => (steps'[n].status = "PENDING" <=> n = t.next)
      OBVIOUS
    <3>1. steps[n] \in StepRecord
      BY <1>2
    <3>2. n = t.next => steps[n].status # "NONE"
      BY <1>3, GraphAssumption DEF WorkflowInv, RowsExist
    <3>3. CASE n = t.step
      BY <1>8, <3>3 DEF DecidedSteps
    <3>4. CASE n # t.step
      BY <1>8, <3>1, <3>2, <3>4 DEF DecidedSteps, Onward, StepRecord, StepStatus
    <3> QED BY <3>3, <3>4
  <2> HIDE DEF row
  <2>6. steps' \in [Node -> StepRecord]
    <3>1. \A n \in Node : steps'[n] \in StepRecord
      BY <2>4, <2>5
    <3>2. steps' = [n \in Node |-> steps'[n]]
      BY <1>8 DEF DecidedSteps
    <3> QED BY <3>1, <3>2
  <2>7. RowsExist'
    BY <1>3, <1>8, <2>4, <2>5 DEF RowsExist, KnownStep, WorkflowInv
  <2>8. CreatorNeverDecides'
    BY <1>3, <2>4, <2>5 DEF CreatorNeverDecides, WorkflowInv
  <2>9. OneActiveStep'
    <3>1. doc'.status = t.to /\ doc'.node = t.next
      BY <1>2, <1>8 DEF DocRecord
    <3>2. CASE t.next = NoNode
      BY <1>3, <3>1, <3>2 DEF OneActiveStep
    <3>3. CASE t.next # NoNode
      BY <1>3, <1>5, <2>4, <2>5, <3>1, <3>3 DEF OneActiveStep, Pending
    <3> QED BY <3>2, <3>3
  <2>10. tx' \in [Req -> TxRecord] /\ \A q \in Req : HandlerOK(tx[q])'
    <3>1. Idle \in TxRecord /\ Idle.pc # "run" /\ LiveAtts \in SUBSET Att
      BY IdleOK DEF Idle, LiveAtts
    <3>2. \A x \in SUBSET Att : /\ [Idle EXCEPT !.pc = "cleanup", !.atts = x] \in TxRecord
                               /\ [Idle EXCEPT !.pc = "cleanup", !.atts = x].pc = "cleanup"
      BY <3>1 DEF TxRecord
    <3>3. left \in TxRecord /\ left.pc # "run"
      BY <3>1, <3>2
    <3> HIDE DEF left
    <3> QED BY <1>8, <3>3, OthersKeep
  <2> QED BY <1>2, <1>8, <2>1, <2>2, <2>3, <2>6, <2>7, <2>8, <2>9, <2>10
          DEF WorkflowInv, TypeOK
<1> QED BY <1>7, <1>8 DEF CommitDecide

LEMMA CommitStatusInv ==
  ASSUME WorkflowInv, NEW r \in Req, CommitStatus(r)
  PROVE  WorkflowInv'
<1>1. CASE Refuse(r)
  BY <1>1, RefuseInv
<1>2. CASE /\ doc' = [doc EXCEPT !.status = tx[r].to, !.node = NoNode]
           /\ Logged(r) /\ Done(r) /\ UNCHANGED <<steps, stepPlan, atts, files>>
  <2>1. /\ tx[r].pc = "run" /\ tx[r].op \in {"cancel", "complete", "revise"}
        /\ tx[r].status \in Status /\ tx[r].to \in Status \ InApproval /\ tx[r].by \in User
    BY DEF CommitStatus, Running, WorkflowInv, HandlerOK
  <2>2. doc \in DocRecord
    BY DEF WorkflowInv, TypeOK
  <2>3. doc' \in DocRecord /\ doc'.status = tx[r].to
    BY <1>2, <2>1, <2>2 DEF DocRecord
  <2>4. audit' \in AuditRecord
    BY <1>2, <2>1 DEF Logged, AuditRecord, Operation
  <2>5. OneActiveStep'
    BY <2>1, <2>3 DEF OneActiveStep
  <2>6. RowsExist' /\ CreatorNeverDecides'
    BY <1>2 DEF RowsExist, KnownStep, CreatorNeverDecides, WorkflowInv
  <2>7. Idle \in TxRecord /\ Idle.pc # "run"
    BY IdleOK DEF Idle
  <2>8. tx' \in [Req -> TxRecord] /\ \A q \in Req : HandlerOK(tx[q])'
    BY <1>2, <2>7, OthersKeep DEF Done
  <2> QED BY <1>2, <2>3, <2>4, <2>5, <2>6, <2>8 DEF WorkflowInv, TypeOK
<1> QED BY <1>1, <1>2 DEF CommitStatus

LEMMA CommitReassignInv ==
  ASSUME WorkflowInv, NEW r \in Req, CommitReassign(r)
  PROVE  WorkflowInv'
<1>1. tx[r].step \in Node /\ tx[r].user \in User
  BY DEF CommitReassign, Running, WorkflowInv, HandlerOK, Outcome
<1>2. steps \in [Node -> StepRecord]
  BY DEF WorkflowInv, TypeOK
<1>3. \A n \in Node : /\ steps'[n] \in StepRecord
                      /\ steps'[n].status = steps[n].status
                      /\ steps'[n].actedBy = steps[n].actedBy
  BY <1>1, <1>2 DEF CommitReassign, StepRecord
<1>4. steps' \in [Node -> StepRecord]
  BY <1>2, <1>3 DEF CommitReassign
<1>5. RowsExist' /\ OneActiveStep' /\ CreatorNeverDecides'
  BY <1>3 DEF CommitReassign, WorkflowInv, RowsExist, KnownStep, OneActiveStep, Pending,
              CreatorNeverDecides
<1>6. Idle \in TxRecord /\ Idle.pc # "run"
  BY IdleOK DEF Idle
<1>7. tx' \in [Req -> TxRecord] /\ \A q \in Req : HandlerOK(tx[q])'
  BY <1>6, OthersKeep DEF CommitReassign, Done
<1> QED BY <1>4, <1>5, <1>7 DEF CommitReassign, WorkflowInv, TypeOK

LEMMA CommitEditInv ==
  ASSUME WorkflowInv, NEW r \in Req, CommitEdit(r)
  PROVE  WorkflowInv'
<1>1. doc \in DocRecord
  BY DEF WorkflowInv, TypeOK
<1>2. doc' \in DocRecord /\ doc'.status = doc.status /\ doc'.node \in {doc.node, NoNode}
  <2>1. CASE tx[r].op = "edit"
    <3>1. PICK d \in Data : tx[r].data = {d}
      BY <2>1 DEF CommitEdit, Running, WorkflowInv, HandlerOK
    <3>2. (CHOOSE x \in tx[r].data : TRUE) = d
      BY <3>1
    <3> QED BY <1>1, <2>1, <3>2 DEF CommitEdit, DocRecord
  <2>2. CASE tx[r].op # "edit"
    <3>1. tx[r].plan \in Plan
      BY <2>2 DEF CommitEdit, Running, WorkflowInv, HandlerOK
    <3> QED BY <1>1, <2>2, <3>1 DEF CommitEdit, DocRecord
  <2> QED BY <2>1, <2>2
<1>3. RowsExist' /\ OneActiveStep' /\ CreatorNeverDecides'
  BY <1>2 DEF CommitEdit, WorkflowInv, RowsExist, KnownStep, OneActiveStep, Pending,
              CreatorNeverDecides
<1>4. Idle \in TxRecord /\ Idle.pc # "run"
  BY IdleOK DEF Idle
<1>5. tx' \in [Req -> TxRecord] /\ \A q \in Req : HandlerOK(tx[q])'
  BY <1>4, OthersKeep DEF CommitEdit, Done
<1> QED BY <1>2, <1>3, <1>5 DEF CommitEdit, WorkflowInv, TypeOK

\* Steps that leave the request and its rows alone: attachments and files.
LEMMA FileStepInv ==
  ASSUME WorkflowInv, NEW r \in Req, NEW t, t \in TxRecord, t.pc # "run",
         tx' = [tx EXCEPT ![r] = t],
         atts' \in [Att -> AttStatus], files' \subseteq Att,
         UNCHANGED <<doc, steps, stepPlan, audit>>
  PROVE  WorkflowInv'
<1>1. RowsExist' /\ OneActiveStep' /\ CreatorNeverDecides'
  BY DEF WorkflowInv, RowsExist, KnownStep, OneActiveStep, Pending, CreatorNeverDecides
<1>2. tx' \in [Req -> TxRecord] /\ \A q \in Req : HandlerOK(tx[q])'
  BY OthersKeep
<1> QED BY <1>1, <1>2 DEF WorkflowInv, TypeOK

LEMMA AttachmentsInv ==
  ASSUME WorkflowInv, NEW r \in Req,
         \/ RemoveFiles(r) \/ StoreFile(r) \/ CommitAttach(r) \/ Crash(r)
         \/ \E a \in Att : Detach(r, a)
  PROVE  WorkflowInv'
<1>1. /\ tx[r] \in TxRecord /\ atts \in [Att -> AttStatus] /\ files \subseteq Att
      /\ tx[r].atts \subseteq Att
  BY DEF WorkflowInv, TypeOK, TxRecord
<1>2. Idle \in TxRecord /\ Idle.pc # "run"
  BY IdleOK DEF Idle
<1>3. CASE RemoveFiles(r)
  BY <1>1, <1>2, <1>3, FileStepInv DEF RemoveFiles, Done
<1>4. CASE StoreFile(r)
  <2> DEFINE t == [tx[r] EXCEPT !.pc = "stored"]
  <2>1. t \in TxRecord /\ t.pc # "run"
    BY <1>1 DEF TxRecord
  <2>2. tx' = [tx EXCEPT ![r] = t]
    BY <1>4 DEF StoreFile
  <2> QED BY <1>1, <1>4, <2>1, <2>2, FileStepInv DEF StoreFile
<1>5. CASE CommitAttach(r)
  <2>1. atts' \in [Att -> AttStatus]
    BY <1>1, <1>5 DEF CommitAttach, AttStatus
  <2> QED BY <1>1, <1>2, <1>5, <2>1, FileStepInv DEF CommitAttach, Done
<1>6. CASE Crash(r)
  BY <1>1, <1>2, <1>6, FileStepInv DEF Crash, Done
<1>7. ASSUME NEW a \in Att, Detach(r, a) PROVE WorkflowInv'
  <2>1. atts' \in [Att -> AttStatus]
    BY <1>1, <1>7 DEF Detach, AttStatus
  <2> QED BY <1>1, <1>2, <1>7, <2>1, FileStepInv DEF Detach, Done
<1> QED BY <1>3, <1>4, <1>5, <1>6, <1>7

-----------------------------------------------------------------------------
(* The invariant *)

LEMMA InitInv == Init => WorkflowInv
<1> SUFFICES ASSUME Init PROVE WorkflowInv
  OBVIOUS
<1>1. PICK p \in Plan, d \in Data :
       \/ /\ doc = Created("Draft", Graph[p].first, p, d, FALSE)
          /\ steps = [n \in Node |-> NoRow] /\ stepPlan = NoPlan
       \/ /\ Submittable(p)
          /\ doc = Created(FirstStatus(p), Graph[p].first, p, d, FALSE)
          /\ steps = InitialSteps(p) /\ stepPlan = p
       \/ /\ d.type = "SOFTCOPY"
          /\ doc = Created("Completed", NoNode, p, d, TRUE)
          /\ steps = [n \in Node |-> NoRow] /\ stepPlan = NoPlan
  BY DEF Init
<1>2. Graph[p].first \in Node /\ FirstStatus(p) \in Status
  BY GraphAssumption, FirstStatusOK DEF PlanRecord
<1>3. doc \in DocRecord
  <2>1. ASSUME NEW s \in Status, NEW n \in Node \cup {NoNode}, NEW c \in BOOLEAN
        PROVE  Created(s, n, p, d, c) \in DocRecord
    BY DEF Created, DocRecord
  <2>2. "Draft" \in Status /\ "Completed" \in Status
    BY DEF Status, Editable, Finalized
  <2> QED BY <1>1, <1>2, <2>1, <2>2
<1>4. steps \in [Node -> StepRecord]
  <2>1. NoRow \in StepRecord
    BY DEF NoRow, StepRecord, StepStatus
  <2>2. \A n \in Node : NewStep(p, n) \in StepRecord
    BY ActorAssumption DEF NewStep, StepRecord, StepStatus
  <2> QED BY <1>1, <2>1, <2>2 DEF InitialSteps
<1>5. audit \in AuditRecord
  BY <1>3, ActorAssumption DEF Init, AuditRecord, DocRecord
<1>6. TypeOK
  BY <1>1, <1>3, <1>4, <1>5, IdleOK DEF Init, TypeOK, AttStatus
<1>7. RowsExist /\ OneActiveStep /\ CreatorNeverDecides
  <2>1. CASE steps = [n \in Node |-> NoRow] /\ stepPlan = NoPlan /\ doc.status \notin InApproval
    BY <2>1, ActorAssumption DEF NoRow, RowsExist, KnownStep, OneActiveStep, CreatorNeverDecides
  <2>2. CASE /\ doc.status = FirstStatus(p) /\ doc.node = Graph[p].first
             /\ steps = InitialSteps(p) /\ stepPlan = p
    <3>1. \A n \in Node : /\ steps[n].status # "NONE" <=> n \in Graph[p].nodes
                          /\ steps[n].status = "PENDING" <=> n = Graph[p].first
                          /\ steps[n].actedBy = NoUser
      BY <2>2, GraphAssumption DEF InitialSteps, NewStep, NoRow
    <3> QED BY <1>2, <2>2, <3>1, GraphAssumption, ActorAssumption
            DEF RowsExist, KnownStep, OneActiveStep, Pending, FirstStatus, CreatorNeverDecides
  <2> QED BY <1>1, <2>1, <2>2 DEF Created, InApproval
<1>8. \A r \in Req : HandlerOK(tx[r])
  BY IdleOK DEF Init
<1> QED BY <1>6, <1>7, <1>8 DEF WorkflowInv

LEMMA NextInv == WorkflowInv /\ [Next]_vars => WorkflowInv'
<1> SUFFICES ASSUME WorkflowInv, [Next]_vars PROVE WorkflowInv'
  OBVIOUS
<1>1. ASSUME NEW r \in Req, Transition(r) PROVE WorkflowInv'
  BY <1>1, BeginSubmitInv, FirstSubmitInv, ResubmitInv, BeginDecideInv, CommitDecideInv,
     AttachmentsInv, BeginCancelInv, BeginCompleteInv, BeginReviseInv, CommitStatusInv
  DEF Transition
<1>2. ASSUME NEW r \in Req, Editing(r) PROVE WorkflowInv'
  BY <1>2, BeginReassignInv, CommitReassignInv, BeginEditInv, BeginReselectInv, CommitEditInv
  DEF Editing
<1>3. ASSUME NEW r \in Req, Attachments(r) PROVE WorkflowInv'
  BY <1>3, BeginAttachInv, AttachmentsInv DEF Attachments
<1>4. ASSUME NEW r \in Req, Crash(r) PROVE WorkflowInv'
  BY <1>4, AttachmentsInv
<1>5. CASE UNCHANGED vars
  BY <1>5 DEF vars, WorkflowInv, TypeOK, RowsExist, KnownStep, OneActiveStep, Pending,
              CreatorNeverDecides, HandlerOK, HasSteps
<1> QED BY <1>1, <1>2, <1>3, <1>4, <1>5 DEF Next, Step

\* In every reachable state the rows are well formed, a request under approval
\* has exactly one pending step, which its status and its current node name, and
\* no step has been decided by the creator: whatever the workflow graph, the
\* users and the number of requests that overlap.
THEOREM WorkflowSafe == Spec => []WorkflowInv
BY InitInv, NextInv, PTL DEF Spec

\* The rows and what handlers keep of them are of the kinds the schema names, and the
\* current node is always one of the graph: edits and resubmissions included.
THEOREM WorkflowTyped == Spec => []TypeOK
<1>1. WorkflowInv => TypeOK
  BY DEF WorkflowInv
<1> QED BY <1>1, WorkflowSafe, PTL

\* transition(): exactly one pending step per request under approval.
THEOREM OnePendingStep == Spec => []OneActiveStep
<1>1. WorkflowInv => OneActiveStep
  BY DEF WorkflowInv
<1> QED BY <1>1, WorkflowSafe, PTL

\* transition(): the creator decides no step, not even one that
\* reassignWorkflowStep() gives to the creator.
THEOREM CreatorDecidesNothing == Spec => []CreatorNeverDecides
<1>1. WorkflowInv => CreatorNeverDecides
  BY DEF WorkflowInv
<1> QED BY <1>1, WorkflowSafe, PTL

-----------------------------------------------------------------------------
(* The status history *)

LEMMA RecordedStep ==
  ASSUME WorkflowInv, [Next]_vars, doc'.status # doc.status
  PROVE  audit'.from = doc.status /\ audit'.to = doc'.status
<1>1. doc \in DocRecord
  BY DEF WorkflowInv, TypeOK
<1>2. PICK r \in Req : Transition(r) \/ Editing(r) \/ Attachments(r) \/ Crash(r)
  BY DEF Next, Step, vars
<1>3. CASE FirstSubmit(r)
  <2>1. /\ doc.status = tx[r].status
        /\ doc' = [doc EXCEPT !.status = FirstStatus(doc.plan), !.node = Graph[doc.plan].first]
        /\ audit' = [from |-> tx[r].status, to |-> FirstStatus(doc.plan),
                     action |-> "submit", by |-> Creator]
    BY <1>3 DEF FirstSubmit, Refuse
  <2> QED BY <1>1, <2>1 DEF DocRecord
<1>4. CASE Resubmit(r)
  <2>1. /\ doc.status = tx[r].status
        /\ doc' = [doc EXCEPT !.status = FirstStatus(stepPlan), !.node = Graph[stepPlan].first]
        /\ audit' = [from |-> tx[r].status, to |-> FirstStatus(stepPlan),
                     action |-> "submit", by |-> Creator]
    BY <1>4 DEF Resubmit, Refuse, Unmoved
  <2> QED BY <1>1, <2>1 DEF DocRecord
<1>5. CASE CommitDecide(r)
  <2>1. /\ doc.status = tx[r].status /\ Logged(r)
        /\ doc' = [doc EXCEPT !.status = tx[r].to, !.node = tx[r].next]
    BY <1>5 DEF CommitDecide, Refuse, Unmoved
  <2> QED BY <1>1, <2>1 DEF DocRecord, Logged
<1>6. CASE CommitStatus(r)
  <2>1. /\ doc.status = tx[r].status /\ Logged(r)
        /\ doc' = [doc EXCEPT !.status = tx[r].to, !.node = NoNode]
    BY <1>6 DEF CommitStatus, Refuse, Unmoved
  <2> QED BY <1>1, <2>1 DEF DocRecord, Logged
<1>7. CASE CommitEdit(r)
  BY <1>1, <1>7 DEF CommitEdit, DocRecord
<1> QED BY <1>2, <1>3, <1>4, <1>5, <1>6, <1>7
        DEF Transition, Editing, Attachments, Begin, BeginSubmit, BeginDecide, BeginCancel,
            BeginComplete, BeginRevise, RemoveFiles, BeginReassign, CommitReassign, BeginEdit,
            BeginReselect, BeginAttach, StoreFile, CommitAttach, Detach, Crash

\* transition(): the conditional update makes every status change go on record
\* with the status it really replaced; no transition overwrites another.
THEOREM HistoryIsTrue == Spec => EveryChangeRecorded
<1>1. WorkflowInv /\ [Next]_vars =>
        [doc'.status # doc.status => audit'.from = doc.status /\ audit'.to = doc'.status]_vars
  BY RecordedStep
<1> QED BY <1>1, WorkflowSafe, PTL DEF Spec, EveryChangeRecorded

-----------------------------------------------------------------------------
(* What the handlers in flight have checked *)

Begins(r) ==
  \/ BeginSubmit(r) \/ BeginCancel(r)
  \/ \E u \in User, a \in Outcome : BeginDecide(r, u, a)
  \/ \E u \in User : BeginComplete(r, u) \/ BeginRevise(r, u)
  \/ \E n \in Node, v \in User : BeginReassign(r, n, v)
  \/ \E d \in Data : BeginEdit(r, d)
  \/ \E p \in Plan : BeginReselect(r, p)
  \/ \E a \in Att : BeginAttach(r, a)

\* A step begins one handler, or leaves at most one slot changed and not running.
LEMMA Slots ==
  ASSUME WorkflowInv, [Next]_vars
  PROVE  \/ UNCHANGED vars
         \/ \E r \in Req : Begins(r)
         \/ \E r \in Req : /\ tx' = [tx EXCEPT ![r] = tx'[r]] /\ tx'[r].pc # "run"
                           /\ stepPlan' = stepPlan \/ stepPlan = NoPlan
<1> SUFFICES ASSUME ~UNCHANGED vars, NEW r \in Req, Step(r), ~Begins(r)
             PROVE  /\ tx' = [tx EXCEPT ![r] = tx'[r]] /\ tx'[r].pc # "run"
                    /\ stepPlan' = stepPlan \/ stepPlan = NoPlan
  BY DEF Next
<1>1. tx \in [Req -> TxRecord]
  BY DEF WorkflowInv, TypeOK
<1>2. ASSUME NEW t, t.pc # "run", tx' = [tx EXCEPT ![r] = t]
      PROVE  tx' = [tx EXCEPT ![r] = tx'[r]] /\ tx'[r].pc # "run"
  BY <1>1, <1>2
<1>3. Idle.pc # "run" /\ Refused.pc # "run"
  BY DEF Idle, Refused
<1>4. CASE FirstSubmit(r)
  BY <1>2, <1>3, <1>4 DEF FirstSubmit, Refuse, Done, HasSteps
<1>5. CASE CommitDecide(r)
  BY <1>2, <1>3, <1>5 DEF CommitDecide, Refuse, Idle
<1>6. CASE \/ Resubmit(r) \/ RemoveFiles(r) \/ CommitStatus(r) \/ CommitReassign(r)
           \/ CommitEdit(r) \/ CommitAttach(r) \/ Crash(r)
  BY <1>2, <1>3, <1>6 DEF Resubmit, RemoveFiles, CommitStatus, CommitReassign, CommitEdit,
                          CommitAttach, Crash, Refuse, Done
<1>7. CASE StoreFile(r)
  <2>1. [tx[r] EXCEPT !.pc = "stored"].pc # "run"
    BY <1>1 DEF TxRecord
  <2> QED BY <1>2, <1>7, <2>1 DEF StoreFile
<1>8. ASSUME NEW a \in Att, Detach(r, a)
      PROVE  /\ tx' = [tx EXCEPT ![r] = tx'[r]] /\ tx'[r].pc # "run"
             /\ stepPlan' = stepPlan
  BY <1>2, <1>3, <1>8 DEF Detach, Done
<1> QED BY <1>4, <1>5, <1>6, <1>7, <1>8
        DEF Step, Transition, Editing, Attachments, Begins

\* The handlers in flight still know what they checked when one of them changes its
\* slot and the step rows keep their plan or get their first one.
LEMMA OthersChecked ==
  ASSUME WorkflowInv, \A q \in Req : Checked(tx[q]),
         NEW r \in Req, NEW t, tx' = [tx EXCEPT ![r] = t],
         t.pc # "run" \/ (Checked(t) /\ stepPlan' = stepPlan),
         stepPlan' = stepPlan \/ stepPlan = NoPlan
  PROVE  \A q \in Req : Checked(tx[q])'
<1>1. tx \in [Req -> TxRecord] /\ \A q \in Req : HandlerOK(tx[q])
  BY DEF WorkflowInv, TypeOK
<1> SUFFICES ASSUME NEW q \in Req PROVE Checked(tx[q])'
  OBVIOUS
<1>2. CASE q = r
  BY <1>1, <1>2 DEF Checked
<1>3. CASE q # r
  <2>1. tx'[q] = tx[q]
    BY <1>1, <1>3
  <2>2. tx[q].pc = "run" /\ tx[q].op \in Outcome => stepPlan' = stepPlan
    BY <1>1 DEF HandlerOK, KnownStep
  <2> QED BY <2>1, <2>2 DEF Checked
<1> QED BY <1>2, <1>3

\* Handlers that begin have checked the status they read.
LEMMA BeginChecked ==
  ASSUME WorkflowInv, \A q \in Req : Checked(tx[q]), NEW r \in Req,
         Begins(r)
  PROVE  \A q \in Req : Checked(tx[q])'
<1>1. ASSUME NEW o \in Operation, NEW t, Begin(r, o, t), Checked(t)
      PROVE  \A q \in Req : Checked(tx[q])'
  BY <1>1, OthersChecked DEF Begin
<1>2. CASE BeginSubmit(r)
  <2> DEFINE t == [Reading("submit", Creator) EXCEPT !.fresh = ~HasSteps]
  <2>1. t.op = "submit" /\ t.status = doc.status
    BY DEF Reading
  <2>2. Checked(t)
    BY <1>2, <2>1 DEF BeginSubmit, Checked, Outcome
  <2> QED BY <1>1, <1>2, <2>2 DEF BeginSubmit, Operation
<1>3. CASE BeginCancel(r)
  <2> DEFINE t == [Reading("cancel", Creator) EXCEPT !.to = "Cancelled"]
  <2>1. t.op = "cancel" /\ t.status = doc.status /\ t.to = "Cancelled"
    BY DEF Reading
  <2>2. Checked(t)
    BY <1>3, <2>1 DEF BeginCancel, Checked, Outcome
  <2> QED BY <1>1, <1>3, <2>2 DEF BeginCancel, Operation
<1>4. ASSUME NEW u \in User, NEW a \in Outcome, BeginDecide(r, u, a)
      PROVE  \A q \in Req : Checked(tx[q])'
  <2>1. PICK n \in Node :
          /\ doc.status \in InApproval
          /\ Begin(r, a,
               [Reading(a, u) EXCEPT
                  !.step = n, !.next = Graph[stepPlan].next[a][n], !.soft = IsSoftcopy,
                  !.to = IF Graph[stepPlan].next[a][n] # NoNode
                         THEN StageStatus[Stage[Graph[stepPlan].next[a][n]]]
                         ELSE EndStatus(a)])
    BY <1>4 DEF BeginDecide
  <2> DEFINE next == Graph[stepPlan].next[a][n]
             to == IF next # NoNode THEN StageStatus[Stage[next]] ELSE EndStatus(a)
             t == [Reading(a, u) EXCEPT
                     !.step = n, !.next = next, !.soft = IsSoftcopy, !.to = to]
  <2>2. next = NoNode => to \in EndStatuses(a)
    BY DEF EndStatus, EndStatuses, Outcome
  <2> HIDE DEF to
  <2>3. /\ t.pc = "run" /\ t.op = a /\ t.status = doc.status /\ t.step = n
        /\ t.next = next /\ t.to = to
    BY DEF Reading
  <2> HIDE DEF t
  <2>4. Checked(t)
    BY <2>1, <2>2, <2>3 DEF Checked, Outcome
  <2> USE DEF t, to
  <2> QED BY <1>1, <2>1, <2>4 DEF Operation
<1>5. ASSUME NEW u \in User, BeginComplete(r, u)
      PROVE  \A q \in Req : Checked(tx[q])'
  <2> DEFINE t == [Reading("complete", u) EXCEPT !.to = "Completed"]
  <2>1. t.op = "complete" /\ t.status = doc.status /\ t.to = "Completed"
    BY DEF Reading
  <2>2. Checked(t)
    BY <1>5, <2>1 DEF BeginComplete, Checked, Outcome
  <2> QED BY <1>1, <1>5, <2>2 DEF BeginComplete, Operation
<1>6. ASSUME NEW u \in User, BeginRevise(r, u)
      PROVE  \A q \in Req : Checked(tx[q])'
  <2> DEFINE t == [Reading("revise", u) EXCEPT !.to = "ForRevision"]
  <2>1. t.op = "revise" /\ t.status = doc.status /\ t.to = "ForRevision"
    BY DEF Reading
  <2>2. Checked(t)
    BY <1>6, <2>1 DEF BeginRevise, Checked, Outcome
  <2> QED BY <1>1, <1>6, <2>2 DEF BeginRevise, Operation
<1>7. ASSUME NEW t, t.op \in {"reassign", "edit", "reselect", "attach"}, Begin(r, t.op, t)
      PROVE  \A q \in Req : Checked(tx[q])'
  BY <1>1, <1>7 DEF Checked, Outcome, Operation
<1>8. ASSUME NEW n \in Node, NEW v \in User, BeginReassign(r, n, v)
      PROVE  \A q \in Req : Checked(tx[q])'
  <2> DEFINE t == [Reading("reassign", NoUser) EXCEPT !.step = n, !.user = v]
  <2>1. t.op = "reassign"
    BY DEF Reading
  <2>2. Begin(r, "reassign", t)
    BY <1>8 DEF BeginReassign
  <2> HIDE DEF t
  <2> QED BY <1>7, <2>1, <2>2
<1>9. ASSUME NEW d \in Data, BeginEdit(r, d)
      PROVE  \A q \in Req : Checked(tx[q])'
  BY <1>7, <1>9 DEF BeginEdit, Reading
<1>10. ASSUME NEW p \in Plan, BeginReselect(r, p)
       PROVE  \A q \in Req : Checked(tx[q])'
  BY <1>7, <1>10 DEF BeginReselect, Reading
<1>11. ASSUME NEW a \in Att, BeginAttach(r, a)
       PROVE  \A q \in Req : Checked(tx[q])'
  BY <1>7, <1>11 DEF BeginAttach, Reading
<1> QED BY <1>2, <1>3, <1>4, <1>5, <1>6, <1>8, <1>9, <1>10, <1>11 DEF Begins

\* What every handler in flight has checked stays so.
LEMMA CheckedStep ==
  ASSUME WorkflowInv, \A q \in Req : Checked(tx[q]), [Next]_vars
  PROVE  \A q \in Req : Checked(tx[q])'
<1>1. CASE UNCHANGED vars
  BY <1>1 DEF vars, Checked
<1>2. ASSUME NEW r \in Req, tx' = [tx EXCEPT ![r] = tx'[r]], tx'[r].pc # "run",
             stepPlan' = stepPlan \/ stepPlan = NoPlan
      PROVE  \A q \in Req : Checked(tx[q])'
  BY <1>2, OthersChecked
<1> QED BY <1>1, <1>2, Slots, BeginChecked

-----------------------------------------------------------------------------
(* What a step can do to the request and its step rows *)

FirstSubmitted(r) ==
  /\ tx[r].pc = "run" /\ tx[r].op = "submit" /\ ~HasSteps /\ doc.status = tx[r].status
  /\ steps' = InitialSteps(doc.plan) /\ stepPlan' = doc.plan
  /\ doc' = [doc EXCEPT !.status = FirstStatus(doc.plan), !.node = Graph[doc.plan].first]

Resubmitted(r) ==
  /\ tx[r].pc = "run" /\ tx[r].op = "submit" /\ HasSteps /\ doc.status = tx[r].status
  /\ steps' = ResetSteps(Graph[stepPlan].first) /\ stepPlan' = stepPlan
  /\ doc' = [doc EXCEPT !.status = FirstStatus(stepPlan), !.node = Graph[stepPlan].first]

Decided(r) ==
  /\ tx[r].pc = "run" /\ tx[r].op \in Outcome /\ Unmoved(r)
  /\ steps' = DecidedSteps(tx[r]) /\ stepPlan' = stepPlan
  /\ doc' = [doc EXCEPT !.status = tx[r].to, !.node = tx[r].next]

Moved(r) ==
  /\ tx[r].pc = "run" /\ tx[r].op \in {"cancel", "complete", "revise"}
  /\ doc.status = tx[r].status
  /\ doc' = [doc EXCEPT !.status = tx[r].to, !.node = NoNode]
  /\ UNCHANGED <<steps, stepPlan>>

Reassigned(r) ==
  /\ steps' = [steps EXCEPT ![tx[r].step].assignee = tx[r].user]
  /\ UNCHANGED <<doc, stepPlan>>

Edited(r) ==
  /\ tx[r].pc = "run"
  /\ \/ tx[r].op = "edit" /\ \E d \in Data : doc' = [doc EXCEPT !.data = d]
     \/ tx[r].op = "reselect" /\ \E p \in Plan : doc' = [doc EXCEPT !.plan = p, !.node = NoNode]
  /\ UNCHANGED <<steps, stepPlan>>

\* Only six steps write the request or its step rows.
LEMMA Effects ==
  ASSUME WorkflowInv, [Next]_vars
  PROVE  \/ UNCHANGED <<doc, steps, stepPlan>>
         \/ \E r \in Req : \/ FirstSubmitted(r) \/ Resubmitted(r) \/ Decided(r)
                           \/ Moved(r) \/ Reassigned(r) \/ Edited(r)
<1> SUFFICES ASSUME ~UNCHANGED <<doc, steps, stepPlan>>
             PROVE  \E r \in Req : \/ FirstSubmitted(r) \/ Resubmitted(r) \/ Decided(r)
                                   \/ Moved(r) \/ Reassigned(r) \/ Edited(r)
  OBVIOUS
<1>1. PICK r \in Req : \/ FirstSubmit(r) \/ Resubmit(r) \/ CommitDecide(r)
                       \/ CommitStatus(r) \/ CommitReassign(r) \/ CommitEdit(r)
  BY DEF Next, Step, Transition, Editing, Attachments, Begin, BeginSubmit, BeginDecide,
         BeginCancel, BeginComplete, BeginRevise, RemoveFiles, BeginReassign, BeginEdit,
         BeginReselect, BeginAttach, StoreFile, CommitAttach, Detach, Crash, vars
<1>2. HandlerOK(tx[r])
  BY DEF WorkflowInv
<1>3. CASE FirstSubmit(r)
  BY <1>3 DEF FirstSubmit, Refuse, Running, FirstSubmitted
<1>4. CASE Resubmit(r)
  BY <1>2, <1>4 DEF Resubmit, Refuse, Running, Unmoved, HandlerOK, Resubmitted
<1>5. CASE CommitDecide(r)
  BY <1>5 DEF CommitDecide, Refuse, Running, Decided
<1>6. CASE CommitStatus(r)
  BY <1>6 DEF CommitStatus, Refuse, Running, Unmoved, Moved
<1>7. CASE CommitReassign(r)
  BY <1>7 DEF CommitReassign, Reassigned
<1>8. CASE CommitEdit(r)
  <2>1. CASE tx[r].op = "edit"
    <3>1. PICK d \in Data : tx[r].data = {d}
      BY <1>2, <1>8, <2>1 DEF CommitEdit, Running, HandlerOK
    <3>2. (CHOOSE x \in tx[r].data : TRUE) = d
      BY <3>1
    <3> QED BY <1>8, <2>1, <3>2 DEF CommitEdit, Running, Edited
  <2>2. CASE tx[r].op # "edit"
    BY <1>2, <1>8, <2>2 DEF CommitEdit, Running, HandlerOK, Edited
  <2> QED BY <2>1, <2>2
<1> QED BY <1>1, <1>3, <1>4, <1>5, <1>6, <1>7, <1>8

-----------------------------------------------------------------------------
(* The last decision *)

\* The rows after a decision.
LEMMA DecidedRows ==
  ASSUME WorkflowInv, NEW r \in Req, Decided(r)
  PROVE  /\ KnownStep(tx[r].step) /\ tx[r].step \in Node /\ stepPlan \in Plan
         /\ tx[r].next # NoNode => tx[r].next \in Node \ {tx[r].step}
         /\ tx[r].next # NoNode => KnownStep(tx[r].next)
         /\ steps'[tx[r].step].status = DecidedStatus[tx[r].op]
         /\ steps'[tx[r].step].at = DecisionCount + 1
         /\ \A n \in Node \ {tx[r].step} :
              /\ steps'[n].at = steps[n].at
              /\ steps'[n].status =
                   IF tx[r].next = NoNode THEN steps[n].status
                   ELSE IF n = tx[r].next THEN "PENDING"
                   ELSE IF steps[n].status = "PENDING" THEN "QUEUED" ELSE steps[n].status
<1> DEFINE t == tx[r]
<1>1. /\ HandlerOK(t) /\ steps \in [Node -> StepRecord] /\ stepPlan \in Plan \cup {NoPlan}
      /\ t.pc = "run" /\ t.op \in Outcome
  BY DEF WorkflowInv, TypeOK, Decided
<1>2. /\ KnownStep(t.step)
      /\ t.next # NoNode => KnownStep(t.next) /\ t.next # t.step
  BY <1>1 DEF HandlerOK
<1>3. stepPlan \in Plan /\ Graph[stepPlan].nodes \subseteq Node
  BY <1>1, <1>2, GraphAssumption DEF KnownStep, PlanRecord
<1>4. t.step \in Node /\ (t.next # NoNode => t.next \in Node)
  BY <1>2, <1>3 DEF KnownStep
<1>5. DecisionCount + 1 \in Nat
  BY DecisionCountNat
<1> HIDE DEF t
<1>6. steps' = DecidedSteps(t)
  BY DEF Decided, t
<1>7. /\ steps'[t.step].status = DecidedStatus[t.op]
      /\ steps'[t.step].at = DecisionCount + 1
  <2>1. steps[t.step] \in StepRecord
    BY <1>1, <1>4
  <2>2. steps'[t.step] = [steps[t.step] EXCEPT !.status = DecidedStatus[t.op],
                                               !.actedBy = t.by, !.at = DecisionCount + 1]
    BY <1>4, <1>6 DEF DecidedSteps
  <2> HIDE DEF DecidedStatus
  <2> QED BY <2>1, <2>2 DEF StepRecord
<1>8. ASSUME NEW n \in Node \ {t.step}
      PROVE  /\ steps'[n].at = steps[n].at
             /\ steps'[n].status =
                  IF t.next = NoNode THEN steps[n].status
                  ELSE IF n = t.next THEN "PENDING"
                  ELSE IF steps[n].status = "PENDING" THEN "QUEUED" ELSE steps[n].status
  <2>1. steps[n] \in StepRecord
    BY <1>1
  <2>2. steps'[n] = IF t.next = NoNode THEN steps[n] ELSE Onward(n, t)
    BY <1>6 DEF DecidedSteps
  <2> QED BY <2>1, <2>2 DEF Onward, StepRecord
<1> QED BY <1>2, <1>3, <1>4, <1>7, <1>8 DEF t

\* The rows after a submission: nothing is decided, and the first step is pending.
LEMMA SubmittedRows ==
  ASSUME WorkflowInv, Positions, NEW r \in Req, FirstSubmitted(r) \/ Resubmitted(r)
  PROVE  /\ stepPlan' \in Plan /\ stepPlan \in {NoPlan, stepPlan'}
         /\ Graph[stepPlan'].first \in Node
         /\ doc'.status = FirstStatus(stepPlan') /\ doc'.status \in InApproval
         /\ doc'.node = Graph[stepPlan'].first
         /\ \A n \in Node : /\ steps'[n].at = 0 /\ ~Acted(n)'
                            /\ Pending(n)' <=> n = Graph[stepPlan'].first
<1>1. doc \in DocRecord /\ steps \in [Node -> StepRecord] /\ stepPlan \in Plan \cup {NoPlan}
  BY DEF WorkflowInv, TypeOK
<1>2. stepPlan' \in Plan /\ stepPlan \in {NoPlan, stepPlan'}
  BY <1>1 DEF FirstSubmitted, Resubmitted, HasSteps, DocRecord
<1> DEFINE p == stepPlan'
           first == Graph[p].first
<1>3. first \in Node /\ first \in Graph[p].nodes
  BY <1>2, GraphAssumption DEF PlanRecord
<1>4. FirstStatus(p) \in InApproval
  BY <1>3, StageStatusOK, GraphAssumption DEF FirstStatus
<1>5. doc'.status = FirstStatus(p) /\ doc'.node = first
  BY <1>1 DEF FirstSubmitted, Resubmitted, DocRecord
<1>6. ASSUME NEW n \in Node
      PROVE  /\ steps'[n].at = 0 /\ steps'[n].status \in {"NONE", "QUEUED", "PENDING"}
             /\ steps'[n].status = "PENDING" <=> n = first
  <2>1. CASE FirstSubmitted(r)
    <3>1. steps'[n] = IF n \in Graph[p].nodes THEN NewStep(p, n) ELSE NoRow
      BY <2>1 DEF FirstSubmitted, InitialSteps
    <3> QED BY <1>3, <3>1 DEF NewStep, NoRow
  <2>2. CASE Resubmitted(r)
    <3>1. steps[n] \in StepRecord
      BY <1>1
    <3>2. steps'[n] = IF steps[n].status = "NONE" THEN steps[n]
                      ELSE [steps[n] EXCEPT !.status = IF n = first THEN "PENDING" ELSE "QUEUED",
                                            !.actedBy = NoUser, !.at = 0]
      BY <2>2 DEF Resubmitted, ResetSteps
    <3>3. p = stepPlan
      BY <2>2 DEF Resubmitted
    <3>4. steps[first].status # "NONE"
      BY <1>2, <1>3, <3>3, GraphAssumption DEF WorkflowInv, RowsExist, KnownStep
    <3>5. steps[n].status = "NONE" => steps[n].at = 0
      BY DEF Positions
    <3> QED BY <3>1, <3>2, <3>4, <3>5 DEF StepRecord
  <2> QED BY <2>1, <2>2
<1> QED BY <1>2, <1>3, <1>4, <1>5, <1>6 DEF Acted, Pending

\* Decisions only add positions.
LEMMA CountGrows ==
  ASSUME WorkflowInv, NEW r \in Req, Decided(r)
  PROVE  DecisionCount \in Nat /\ DecisionCount' \in Nat /\ DecisionCount <= DecisionCount'
<1> DEFINE D == {n \in Node : steps[n].at # 0}
           E == {n \in Node : steps'[n].at # 0}
<1>1. D \subseteq E
  <2>1. DecisionCount + 1 # 0
    BY DecisionCountNat
  <2>2. ASSUME NEW n \in Node, steps[n].at # 0 PROVE steps'[n].at # 0
    BY <2>1, <2>2, DecidedRows
  <2> QED BY <2>2
<1>2. IsFiniteSet(E)
  BY ActorAssumption, FS_Subset
<1>3. Cardinality(D) \in Nat /\ Cardinality(E) \in Nat /\ Cardinality(D) <= Cardinality(E)
  BY <1>1, <1>2, FS_Subset, FS_CardinalityType
<1> QED BY <1>3 DEF DecisionCount

LEMMA PositionsStep ==
  ASSUME WorkflowInv, Positions, [Next]_vars
  PROVE  Positions'
<1>1. steps \in [Node -> StepRecord]
  BY DEF WorkflowInv, TypeOK
<1>2. CASE UNCHANGED steps
  BY <1>2 DEF Positions, DecisionCount
<1>3. ASSUME NEW r \in Req, FirstSubmitted(r) \/ Resubmitted(r) PROVE Positions'
  <2>1. \A n \in Node : steps'[n].at = 0
    BY <1>3, SubmittedRows
  <2>2. DecisionCount' = Cardinality({})
    <3>1. {n \in Node : steps'[n].at # 0} = {}
      BY <2>1
    <3> QED BY <3>1 DEF DecisionCount
  <2> QED BY <2>1, <2>2, FS_EmptySet DEF Positions
<1>4. ASSUME NEW r \in Req, Decided(r) PROVE Positions'
  <2> SUFFICES ASSUME NEW n \in Node
               PROVE  /\ steps'[n].at <= DecisionCount' + 1
                      /\ steps'[n].status = "NONE" => steps'[n].at = 0
    BY DEF Positions
  <2>1. DecisionCount \in Nat /\ DecisionCount' \in Nat /\ DecisionCount <= DecisionCount'
    BY <1>4, CountGrows
  <2>2. CASE n = tx[r].step
    <3>1. steps'[n].at = DecisionCount + 1
      BY <1>4, <2>2, DecidedRows
    <3>2. steps'[n].status = DecidedStatus[tx[r].op]
      BY <1>4, <2>2, DecidedRows
    <3>3. DecidedStatus[tx[r].op] # "NONE"
      BY <1>4 DEF Decided, DecidedStatus, Outcome
    <3>4. steps'[n].at <= DecisionCount' + 1
      <4>1. DecisionCount + 1 <= DecisionCount' + 1
        <5> DEFINE c == DecisionCount
                   d == DecisionCount'
        <5>1. c \in Nat /\ d \in Nat /\ c <= d
          BY <2>1
        <5> HIDE DEF c, d
        <5>2. c + 1 <= d + 1
          BY <5>1
        <5> QED BY <5>2 DEF c, d
      <4> QED BY <3>1, <4>1
    <3> QED BY <3>2, <3>3, <3>4
  <2>3. CASE n # tx[r].step
    <3>1. /\ steps'[n].at = steps[n].at
          /\ steps'[n].status = "NONE" => steps[n].status = "NONE"
      BY <1>4, <2>3, DecidedRows
    <3>2. /\ steps[n].at \in Nat /\ steps[n].at <= DecisionCount + 1
          /\ steps[n].status = "NONE" => steps[n].at = 0
      BY <1>1 DEF Positions, StepRecord
    <3> QED BY <2>1, <3>1, <3>2
  <2> QED BY <2>2, <2>3
<1>5. ASSUME NEW r \in Req, Reassigned(r) PROVE Positions'
  <2>1. \A n \in Node : steps'[n].at = steps[n].at /\ steps'[n].status = steps[n].status
    BY <1>1, <1>5 DEF Reassigned, StepRecord
  <2>2. {n \in Node : steps'[n].at # 0} = {n \in Node : steps[n].at # 0}
    BY <2>1
  <2> QED BY <2>1, <2>2 DEF Positions, DecisionCount
<1> QED BY <1>2, <1>3, <1>4, <1>5, Effects DEF Moved, Edited

\* A request is approved by a decision that the plan ends at, and keeps its rows until
\* it is completed or revised.
LEMMA FinalApprovalStep ==
  ASSUME ApprovalInv, [Next]_vars
  PROVE  FinalApproval'
<1> SUFFICES ASSUME doc'.status \in Finalized, HasSteps'
             PROVE  \E n \in Node : /\ IsFinalStep(n)'
                                    /\ Graph[stepPlan'].next["approve"][n] = NoNode
                                    /\ \A m \in Node : steps'[m].at <= steps'[n].at
  BY DEF FinalApproval
<1>1. /\ steps \in [Node -> StepRecord] /\ doc \in DocRecord
      /\ WorkflowInv /\ Positions /\ \A q \in Req : Checked(tx[q])
  BY DEF ApprovalInv, WorkflowInv, TypeOK
<1>2. ASSUME doc.status \in Finalized, stepPlan' = stepPlan,
             \A n \in Node : steps'[n].at = steps[n].at /\ steps'[n].status = steps[n].status
      PROVE  \E n \in Node : /\ IsFinalStep(n)'
                             /\ Graph[stepPlan'].next["approve"][n] = NoNode
                             /\ \A m \in Node : steps'[m].at <= steps'[n].at
  BY <1>2 DEF ApprovalInv, FinalApproval, IsFinalStep, HasSteps
<1>3. CASE UNCHANGED <<doc, steps, stepPlan>>
  BY <1>2, <1>3
<1>4. ASSUME NEW r \in Req, FirstSubmitted(r) \/ Resubmitted(r) PROVE FALSE
  <2>1. doc'.status \in InApproval
    BY <1>1, <1>4, SubmittedRows
  <2> QED BY <2>1 DEF InApproval, Finalized
<1>5. ASSUME NEW r \in Req, Decided(r)
      PROVE  \E n \in Node : /\ IsFinalStep(n)'
                             /\ Graph[stepPlan'].next["approve"][n] = NoNode
                             /\ \A m \in Node : steps'[m].at <= steps'[n].at
  <2> DEFINE t == tx[r]
  <2>1. /\ t.pc = "run" /\ t.op \in Outcome /\ doc'.status = t.to /\ stepPlan' = stepPlan
        /\ Checked(t) /\ HandlerOK(t)
    BY <1>1, <1>5 DEF Decided, DocRecord, WorkflowInv
  <2>2. t.step \in Node /\ (t.next # NoNode => t.next \in Node)
    BY <1>1, <1>5, DecidedRows
  <2>3. t.next = NoNode
    <3> SUFFICES ASSUME t.next # NoNode PROVE FALSE
      OBVIOUS
    <3>1. t.to = StageStatus[Stage[t.next]]
      BY <2>1 DEF HandlerOK
    <3>2. Stage[t.next] \in Stages
      BY <2>2, GraphAssumption
    <3>3. t.to \in InApproval
      BY <3>1, <3>2, StageStatusOK
    <3> QED BY <2>1, <3>3 DEF InApproval, Finalized
  <2>4. t.op = "approve" /\ Graph[stepPlan].next["approve"][t.step] = NoNode
    BY <2>1, <2>3 DEF Checked, EndStatuses, Outcome, Finalized
  <2>5. /\ steps'[t.step].at = DecisionCount + 1 /\ steps'[t.step].status = "APPROVED"
        /\ \A m \in Node \ {t.step} : steps'[m].at = steps[m].at
    BY <1>1, <1>5, <2>4, DecidedRows DEF DecidedStatus, Outcome
  <2>6. \A m \in Node : steps'[m].at <= steps'[t.step].at
    BY <1>1, <2>5, DecisionCountNat DEF Positions
  <2> QED BY <2>1, <2>2, <2>4, <2>5, <2>6 DEF IsFinalStep
<1>6. ASSUME NEW r \in Req, Moved(r)
      PROVE  \E n \in Node : /\ IsFinalStep(n)'
                             /\ Graph[stepPlan'].next["approve"][n] = NoNode
                             /\ \A m \in Node : steps'[m].at <= steps'[n].at
  <2>1. doc'.status = tx[r].to /\ Checked(tx[r])
    BY <1>1, <1>6 DEF Moved, DocRecord
  <2>2. doc.status = "Approved"
    BY <1>6, <2>1 DEF Moved, Checked, Finalized
  <2> QED BY <1>2, <1>6, <2>2 DEF Moved, Finalized
<1>7. ASSUME NEW r \in Req, Reassigned(r)
      PROVE  \E n \in Node : /\ IsFinalStep(n)'
                             /\ Graph[stepPlan'].next["approve"][n] = NoNode
                             /\ \A m \in Node : steps'[m].at <= steps'[n].at
  <2>1. \A n \in Node : steps'[n].at = steps[n].at /\ steps'[n].status = steps[n].status
    BY <1>1, <1>7 DEF Reassigned, StepRecord
  <2> QED BY <1>2, <1>7, <2>1 DEF Reassigned
<1>8. ASSUME NEW r \in Req, Edited(r)
      PROVE  \E n \in Node : /\ IsFinalStep(n)'
                             /\ Graph[stepPlan'].next["approve"][n] = NoNode
                             /\ \A m \in Node : steps'[m].at <= steps'[n].at
  <2>1. doc'.status = doc.status
    BY <1>1, <1>8 DEF Edited, DocRecord
  <2> QED BY <1>2, <1>8, <2>1 DEF Edited
<1> QED BY <1>1, <1>3, <1>4, <1>5, <1>6, <1>7, <1>8, Effects

LEMMA ApprovalInit == Init => ApprovalInv
<1> SUFFICES ASSUME Init PROVE ApprovalInv
  OBVIOUS
<1>1. WorkflowInv
  BY InitInv
<1>2. \A n \in Node : steps[n].at = 0
  <2>1. \E p \in Plan : steps = [n \in Node |-> NoRow] \/ steps = InitialSteps(p)
    BY DEF Init
  <2> QED BY <2>1 DEF InitialSteps, NewStep, NoRow
<1>3. Positions
  BY <1>2, DecisionCountNat DEF Positions
<1>4. FinalApproval
  <2>1. doc.status \in Finalized => stepPlan = NoPlan
    <3>1. \A p \in Plan : FirstStatus(p) \in InApproval
      BY StageStatusOK, GraphAssumption DEF FirstStatus, PlanRecord
    <3>2. \A s \in InApproval : s \notin Finalized
      BY DEF InApproval, Finalized
    <3> QED BY <3>1, <3>2 DEF Init, Created
  <2> QED BY <2>1 DEF FinalApproval, HasSteps
<1>5. \A r \in Req : Checked(tx[r])
  BY DEF Init, Idle, Checked
<1> QED BY <1>1, <1>3, <1>4, <1>5 DEF ApprovalInv

LEMMA ApprovalNext == ApprovalInv /\ [Next]_vars => ApprovalInv'
BY NextInv, CheckedStep, PositionsStep, FinalApprovalStep DEF ApprovalInv

\* An approved or completed request was approved at a step that no other follows, and
\* nothing was decided after it, whatever the graph and the requests that overlap.
THEOREM ApprovedAtTheEnd == Spec => []FinalApproval
<1>1. ApprovalInv => FinalApproval
  BY DEF ApprovalInv
<1> QED BY <1>1, ApprovalInit, ApprovalNext, PTL DEF Spec

-----------------------------------------------------------------------------
(* The walk through the graph *)

LEMMA OthersAtNode ==
  ASSUME SelectedAlone, TrailInv, NEW r \in Req, NEW t, tx' = [tx EXCEPT ![r] = t],
         t.pc # "run" \/ (AtNode(t) /\ doc' = doc)
  PROVE  \A q \in Req : AtNode(tx[q])'
<1>1. tx \in [Req -> TxRecord] /\ \A q \in Req : AtNode(tx[q])
  BY DEF TrailInv, ApprovalInv, WorkflowInv, TypeOK
<1> SUFFICES ASSUME NEW q \in Req PROVE AtNode(tx[q])'
  OBVIOUS
<1>2. CASE q = r
  BY <1>1, <1>2 DEF AtNode
<1>3. CASE q # r
  <2>1. tx'[q] = tx[q] /\ Reselectable = {}
    BY <1>1, <1>3 DEF SelectedAlone, OneAtATime
  <2> QED BY <1>1, <2>1 DEF AtNode
<1> QED BY <1>2, <1>3

\* A decision begins for the current node, and a version is selected for a draft.
LEMMA AtNodeStep ==
  ASSUME SelectedAlone, TrailInv, [Next]_vars
  PROVE  \A q \in Req : AtNode(tx[q])'
<1>1. CASE UNCHANGED vars
  BY <1>1 DEF vars, TrailInv, AtNode
<1>2. ASSUME NEW r \in Req, tx' = [tx EXCEPT ![r] = tx'[r]], tx'[r].pc # "run"
      PROVE  \A q \in Req : AtNode(tx[q])'
  BY <1>2, OthersAtNode
<1>3. ASSUME NEW r \in Req, NEW o, NEW t, Begin(r, o, t), AtNode(t)
      PROVE  \A q \in Req : AtNode(tx[q])'
  BY <1>3, OthersAtNode DEF Begin
<1>4. ASSUME NEW r \in Req, NEW o, NEW t, Begin(r, o, t),
             t.op \in {"submit", "cancel", "complete", "revise", "reassign", "edit", "attach"}
      PROVE  \A q \in Req : AtNode(tx[q])'
  BY <1>3, <1>4 DEF AtNode, Outcome
<1>5. ASSUME NEW r \in Req, NEW u \in User, NEW a \in Outcome, BeginDecide(r, u, a)
      PROVE  \A q \in Req : AtNode(tx[q])'
  <2>1. PICK n \in Node :
          /\ doc.status \in InApproval /\ IsActive(n)
          /\ Begin(r, a,
               [Reading(a, u) EXCEPT
                  !.step = n, !.next = Graph[stepPlan].next[a][n], !.soft = IsSoftcopy,
                  !.to = IF Graph[stepPlan].next[a][n] # NoNode
                         THEN StageStatus[Stage[Graph[stepPlan].next[a][n]]]
                         ELSE EndStatus(a)])
    BY <1>5 DEF BeginDecide
  <2> DEFINE next == Graph[stepPlan].next[a][n]
             to == IF next # NoNode THEN StageStatus[Stage[next]] ELSE EndStatus(a)
             t == [Reading(a, u) EXCEPT
                     !.step = n, !.next = next, !.soft = IsSoftcopy, !.to = to]
  <2>2. t.op = a /\ t.step = n /\ t.node = doc.node
    BY DEF Reading
  <2>3. n = doc.node
    BY <2>1 DEF TrailInv, OnTrail, IsActive, Pending
  <2>4. Begin(r, a, t)
    BY <2>1
  <2> HIDE DEF t
  <2>5. AtNode(t)
    BY <2>2, <2>3 DEF AtNode, Outcome
  <2> QED BY <1>3, <2>4, <2>5
<1>6. ASSUME NEW r \in Req, NEW p \in Plan, BeginReselect(r, p)
      PROVE  \A q \in Req : AtNode(tx[q])'
  <2> DEFINE t == [Reading("reselect", NoUser) EXCEPT !.plan = p]
  <2>1. t.op = "reselect"
    BY DEF Reading
  <2>2. Reselectable # {} /\ doc.status \notin InApproval
    BY <1>6 DEF BeginReselect, InApproval
  <2>3. Begin(r, "reselect", t)
    BY <1>6 DEF BeginReselect
  <2> HIDE DEF t
  <2>4. AtNode(t)
    BY <2>1, <2>2 DEF AtNode, Outcome
  <2> QED BY <1>3, <2>3, <2>4
<1>7. ASSUME NEW r \in Req, BeginSubmit(r) \/ BeginCancel(r)
      PROVE  \A q \in Req : AtNode(tx[q])'
  BY <1>4, <1>7 DEF BeginSubmit, BeginCancel, Reading
<1>8. ASSUME NEW r \in Req, NEW u \in User, BeginComplete(r, u) \/ BeginRevise(r, u)
      PROVE  \A q \in Req : AtNode(tx[q])'
  BY <1>4, <1>8 DEF BeginComplete, BeginRevise, Reading
<1>9. ASSUME NEW r \in Req, NEW n \in Node, NEW v \in User, BeginReassign(r, n, v)
      PROVE  \A q \in Req : AtNode(tx[q])'
  <2> DEFINE t == [Reading("reassign", NoUser) EXCEPT !.step = n, !.user = v]
  <2>1. t.op = "reassign" /\ Begin(r, "reassign", t)
    BY <1>9 DEF BeginReassign, Reading
  <2> HIDE DEF t
  <2> QED BY <1>4, <2>1
<1>10. ASSUME NEW r \in Req, NEW d \in Data, BeginEdit(r, d)
       PROVE  \A q \in Req : AtNode(tx[q])'
  BY <1>4, <1>10 DEF BeginEdit, Reading
<1>11. ASSUME NEW r \in Req, NEW a \in Att, BeginAttach(r, a)
       PROVE  \A q \in Req : AtNode(tx[q])'
  BY <1>4, <1>11 DEF BeginAttach, Reading
<1> QED BY <1>1, <1>2, <1>5, <1>6, <1>7, <1>8, <1>9, <1>10, <1>11, Slots
        DEF Begins, TrailInv, ApprovalInv

\* The outcome on record for a decided step is the one that gave its status.
LEMMA TakenOf ==
  ASSUME NEW n \in Node, NEW a \in Outcome, steps[n].status = DecidedStatus[a]
  PROVE  Acted(n) /\ Taken(n) = Graph[stepPlan].next[a][n]
<1>1. \A o \in Outcome : DecidedStatus[o] = DecidedStatus[a] <=> o = a
  BY DEF DecidedStatus, Outcome
<1>2. (CHOOSE o \in Outcome : DecidedStatus[o] = steps[n].status) = a
  BY <1>1
<1>3. Acted(n)
  BY DEF Acted, DecidedStatus, Outcome
<1> QED BY <1>2, <1>3 DEF Taken

LEMMA ActedBy ==
  ASSUME NEW n \in Node, Acted(n)
  PROVE  \E a \in Outcome : steps[n].status = DecidedStatus[a]
BY DEF Acted, DecidedStatus, Outcome

\* The plan being acyclic, a decision never leads to a step that was decided before.
LEMMA LeadsOnward ==
  ASSUME TrailInv, NEW r \in Req, Decided(r), tx[r].next # NoNode
  PROVE  ~Acted(tx[r].next)
<1> DEFINE t == tx[r]
           S == {n \in Node : Acted(n)} \cup {t.step}
<1> SUFFICES ASSUME Acted(t.next) PROVE FALSE
  OBVIOUS
<1>1. /\ WorkflowInv /\ Checked(t) /\ AtNode(t) /\ t.pc = "run" /\ t.op \in Outcome
      /\ doc.status = t.status /\ doc.node = t.node
  BY DEF TrailInv, ApprovalInv, Decided, Unmoved
<1>2. /\ stepPlan \in Plan /\ KnownStep(t.step) /\ t.step \in Node
      /\ t.next \in Node
  BY <1>1, DecidedRows
<1>3. doc.status \in InApproval /\ doc.node = t.step /\ Pending(t.step)
      /\ t.next = Graph[stepPlan].next[t.op][t.step]
  BY <1>1 DEF Checked, AtNode, TrailInv, OnTrail
<1>4. \A m \in Node : Pending(m) => m = t.step
  BY <1>1, <1>2, <1>3 DEF WorkflowInv, OneActiveStep
<1>5. S \in (SUBSET Graph[stepPlan].nodes) \ {{}}
  BY <1>1, <1>2 DEF Acted, WorkflowInv, RowsExist, KnownStep
<1>6. ASSUME NEW n \in S PROVE \E a \in Outcome : Graph[stepPlan].next[a][n] \in S
  <2>1. CASE n = t.step
    BY <1>1, <1>2, <1>3, <2>1
  <2>2. CASE n # t.step
    <3>1. n \in Node /\ Acted(n)
      BY <2>2
    <3>2. PICK a \in Outcome : steps[n].status = DecidedStatus[a]
      BY <3>1, ActedBy
    <3>3. Taken(n) = Graph[stepPlan].next[a][n] /\ Taken(n) # NoNode
      BY <1>3, <3>1, <3>2, TakenOf DEF TrailInv, OnTrail
    <3>4. Acted(Taken(n)) \/ Pending(Taken(n))
      BY <1>3, <3>1, <3>3 DEF TrailInv, DecisionTrail
    <3>5. Taken(n) \in Node
      BY <1>2, <1>5, <3>3, GraphAssumption DEF PlanRecord
    <3> QED BY <1>4, <3>3, <3>4, <3>5
  <2> QED BY <2>1, <2>2
<1> QED BY <1>2, <1>5, <1>6, AcyclicAssumption

LEMMA TrailKept ==
  ASSUME TrailInv, stepPlan' = stepPlan,
         \A n \in Node : steps'[n].status = steps[n].status,
         \/ doc'.status = doc.status /\ (doc.status \in InApproval => doc'.node = doc.node)
         \/ doc'.status \notin InApproval /\ (doc'.status \in Finalized => doc.status \in Finalized)
  PROVE  DecisionTrail' /\ OnTrail'
<1>1. \A n \in Node : (Acted(n)' <=> Acted(n)) /\ (Pending(n)' <=> Pending(n)) /\ Taken(n)' = Taken(n)
  BY DEF Acted, Pending, Taken
<1>2. \A n \in Node : Acted(n) => Taken(n) \in Node \cup {NoNode}
  <2> SUFFICES ASSUME NEW n \in Node, Acted(n) PROVE Taken(n) \in Node \cup {NoNode}
    OBVIOUS
  <2>1. PICK a \in Outcome : steps[n].status = DecidedStatus[a]
    BY ActedBy
  <2>2. KnownStep(n) /\ stepPlan \in Plan
    BY DEF Acted, TrailInv, ApprovalInv, WorkflowInv, RowsExist, KnownStep, TypeOK
  <2>3. Taken(n) = Graph[stepPlan].next[a][n]
    BY <2>1, TakenOf
  <2> QED BY <2>2, <2>3, GraphAssumption DEF KnownStep, PlanRecord
<1>3. \A n \in Node :
        Acted(n)' \/ (Pending(n)' /\ doc'.status \in InApproval) =>
          n = Graph[stepPlan'].first \/ \E m \in Node : Acted(m)' /\ Taken(m)' = n
  BY <1>1 DEF TrailInv, DecisionTrail
<1>4. doc'.status \in InApproval \cup Finalized =>
        \A n \in Node : Acted(n)' /\ Taken(n)' # NoNode => Acted(Taken(n))' \/ Pending(Taken(n))'
  <2> SUFFICES ASSUME doc'.status \in InApproval \cup Finalized, NEW n \in Node,
                      Acted(n)', Taken(n)' # NoNode
               PROVE  Acted(Taken(n))' \/ Pending(Taken(n))'
    OBVIOUS
  <2>1. Acted(n) /\ Taken(n) \in Node /\ Taken(n)' = Taken(n)
    BY <1>1, <1>2
  <2>2. Acted(Taken(n)) \/ Pending(Taken(n))
    BY <2>1, GraphAssumption DEF TrailInv, DecisionTrail
  <2> QED BY <2>1, <2>2 DEF Acted, Pending
<1>5. DecisionTrail'
  BY <1>3, <1>4 DEF DecisionTrail
<1>6. OnTrail'
  BY <1>1 DEF TrailInv, OnTrail
<1> QED BY <1>5, <1>6

\* A decision lengthens the walk by one step, and the step it leads to is pending.
LEMMA TrailDecided ==
  ASSUME TrailInv, NEW r \in Req, Decided(r)
  PROVE  DecisionTrail' /\ OnTrail'
<1> DEFINE t == tx[r]
<1>0. PICK s, x : s = t.step /\ x = t.next
  OBVIOUS
<1>1. /\ WorkflowInv /\ Checked(t) /\ AtNode(t) /\ HandlerOK(t) /\ t.pc = "run"
      /\ t.op \in Outcome /\ doc.status = t.status /\ doc.node = t.node /\ doc \in DocRecord
      /\ stepPlan' = stepPlan
  BY DEF TrailInv, ApprovalInv, WorkflowInv, TypeOK, Decided, Unmoved
<1>2. /\ stepPlan \in Plan /\ s \in Node
      /\ x # NoNode => x \in Node \ {s} /\ ~Acted(x)
  BY <1>0, <1>1, DecidedRows, LeadsOnward
<1>3. /\ doc.status \in InApproval /\ doc.node = s /\ Pending(s)
      /\ x = Graph[stepPlan].next[t.op][s]
  BY <1>0, <1>1 DEF Checked, AtNode, TrailInv, OnTrail
<1>4. \A m \in Node : Pending(m) => m = s
  BY <1>1, <1>2, <1>3 DEF WorkflowInv, OneActiveStep
<1>5. doc'.status = t.to /\ doc'.node = x
  BY <1>0, <1>1 DEF Decided, DocRecord
<1>6. doc'.status \in InApproval => x # NoNode
  BY <1>0, <1>1, <1>5 DEF HandlerOK
<1>7. steps'[s].status = DecidedStatus[t.op]
  BY <1>0, <1>1, DecidedRows
<1>8. Acted(s)' /\ ~Pending(s)' /\ Taken(s)' = x
  <2>1. Taken(s)' = Graph[stepPlan].next[t.op][s]
    <3>1. \A o \in Outcome : DecidedStatus[o] = steps'[s].status <=> o = t.op
      BY <1>1, <1>7 DEF DecidedStatus, Outcome
    <3>2. (CHOOSE o \in Outcome : DecidedStatus[o] = steps'[s].status) = t.op
      BY <1>1, <3>1
    <3> QED BY <1>1, <3>2 DEF Taken
  <2>2. DecidedStatus[t.op] \in {"APPROVED", "REJECTED", "RETURNED"}
    BY <1>1 DEF DecidedStatus, Outcome
  <2> QED BY <1>3, <1>7, <2>1, <2>2 DEF Acted, Pending
<1>9. \A n \in Node \ {s} :
        /\ Acted(n)' <=> Acted(n)
        /\ Acted(n) => Taken(n)' = Taken(n)
        /\ Pending(n)' <=> n = x
  <2> SUFFICES ASSUME NEW n \in Node \ {s}
               PROVE  /\ Acted(n)' <=> Acted(n)
                      /\ Acted(n) => Taken(n)' = Taken(n)
                      /\ Pending(n)' <=> n = x
    OBVIOUS
  <2>1. steps'[n].status = IF x = NoNode THEN steps[n].status
                           ELSE IF n = x THEN "PENDING"
                           ELSE IF steps[n].status = "PENDING" THEN "QUEUED" ELSE steps[n].status
    BY <1>0, <1>1, DecidedRows
  <2>2. ~Pending(n) /\ n # NoNode
    BY <1>4, GraphAssumption
  <2>3. CASE n = x
    BY <1>2, <2>1, <2>2, <2>3 DEF Acted, Pending
  <2>4. CASE n # x
    <3>1. steps'[n].status = steps[n].status
      BY <2>1, <2>2, <2>4 DEF Pending
    <3> QED BY <1>1, <2>2, <2>4, <3>1 DEF Acted, Pending, Taken
  <2> QED BY <2>3, <2>4
<1>10. ASSUME NEW n \in Node, Acted(n)' \/ (Pending(n)' /\ doc'.status \in InApproval)
       PROVE  n = Graph[stepPlan'].first \/ \E m \in Node : Acted(m)' /\ Taken(m)' = n
  <2>1. CASE n = x
    BY <1>2, <1>8, <2>1
  <2>2. CASE n # x
    <3>1. Acted(n) \/ (Pending(n) /\ doc.status \in InApproval)
      BY <1>3, <1>8, <1>9, <1>10, <2>2
    <3>2. n = Graph[stepPlan].first \/ \E m \in Node : Acted(m) /\ Taken(m) = n
      BY <3>1 DEF TrailInv, DecisionTrail
    <3>3. ~Acted(s)
      BY <1>3 DEF Acted, Pending
    <3> QED BY <1>1, <1>9, <3>2, <3>3
  <2> QED BY <2>1, <2>2
<1>11. ASSUME NEW n \in Node, Acted(n)', Taken(n)' # NoNode
       PROVE  Acted(Taken(n))' \/ Pending(Taken(n))'
  <2>1. CASE n = s
    <3>1. Pending(x)'
      BY <1>2, <1>8, <1>9, <1>11, <2>1
    <3>2. Taken(n)' = x
      BY <1>8, <2>1
    <3> QED BY <3>1, <3>2 DEF Pending
  <2>2. CASE n # s
    <3>1. Acted(n) /\ Taken(n)' = Taken(n)
      BY <1>9, <1>11, <2>2
    <3>2. Acted(Taken(n)) \/ Pending(Taken(n))
      BY <1>3, <1>11, <3>1 DEF TrailInv, DecisionTrail
    <3>3. Taken(n) \in Node
      <4>1. PICK a \in Outcome : steps[n].status = DecidedStatus[a]
        BY <3>1, ActedBy
      <4>2. Taken(n) = Graph[stepPlan].next[a][n]
        BY <4>1, TakenOf
      <4>3. KnownStep(n)
        BY <1>1, <3>1 DEF Acted, WorkflowInv, RowsExist
      <4> QED BY <1>2, <1>11, <3>1, <4>2, <4>3, GraphAssumption DEF KnownStep, PlanRecord
    <3>4. Taken(n) = s \/ Acted(Taken(n))
      BY <1>4, <3>2, <3>3
    <3>5. steps'[Taken(n)].status \in {"APPROVED", "REJECTED", "RETURNED"}
      BY <1>8, <1>9, <3>3, <3>4 DEF Acted
    <3> QED BY <3>1, <3>5 DEF Acted
  <2> QED BY <2>1, <2>2
<1>12. DecisionTrail'
  BY <1>10, <1>11 DEF DecisionTrail
<1>13. OnTrail'
  <2> SUFFICES ASSUME doc'.status \in InApproval
               PROVE  /\ doc'.node \in Node /\ Pending(doc.node)'
                      /\ \A n \in Node : Acted(n)' => Taken(n)' # NoNode
    BY DEF OnTrail
  <2>1. x # NoNode
    BY <1>6
  <2>2. doc'.node \in Node /\ Pending(doc.node)'
    <3>1. steps'[x].status = "PENDING"
      BY <1>2, <1>9, <2>1 DEF Pending
    <3> QED BY <1>2, <1>5, <2>1, <3>1 DEF Pending
  <2>3. \A n \in Node : Acted(n)' => Taken(n)' # NoNode
    BY <1>3, <1>8, <1>9, <2>1 DEF TrailInv, OnTrail
  <2> QED BY <2>2, <2>3
<1> QED BY <1>12, <1>13

LEMMA TrailStep ==
  ASSUME SelectedAlone, TrailInv, [Next]_vars
  PROVE  DecisionTrail' /\ OnTrail'
<1>1. /\ WorkflowInv /\ Positions /\ steps \in [Node -> StepRecord] /\ doc \in DocRecord
      /\ \A q \in Req : Checked(tx[q]) /\ AtNode(tx[q])
  BY DEF TrailInv, ApprovalInv, WorkflowInv, TypeOK
<1>2. CASE UNCHANGED <<doc, steps, stepPlan>>
  BY <1>2, TrailKept
<1>3. ASSUME NEW r \in Req, FirstSubmitted(r) \/ Resubmitted(r) PROVE DecisionTrail' /\ OnTrail'
  <2>1. /\ Graph[stepPlan'].first \in Node /\ doc'.node = Graph[stepPlan'].first
        /\ \A n \in Node : ~Acted(n)' /\ (Pending(n)' <=> n = Graph[stepPlan'].first)
    BY <1>1, <1>3, SubmittedRows
  <2>2. steps'[doc'.node].status = "PENDING"
    BY <2>1 DEF Pending
  <2> QED BY <2>1, <2>2 DEF DecisionTrail, OnTrail, Pending
<1>4. ASSUME NEW r \in Req, Moved(r) PROVE DecisionTrail' /\ OnTrail'
  <2>1. doc'.status = tx[r].to /\ Checked(tx[r]) /\ doc.status = tx[r].status
    BY <1>1, <1>4 DEF Moved, DocRecord
  <2>2. doc'.status \notin InApproval /\ (doc'.status \in Finalized => doc.status \in Finalized)
    BY <1>4, <2>1 DEF Moved, Checked, InApproval, Finalized
  <2> QED BY <1>4, <2>2, TrailKept DEF Moved
<1>5. ASSUME NEW r \in Req, Reassigned(r) PROVE DecisionTrail' /\ OnTrail'
  <2>1. \A n \in Node : steps'[n].status = steps[n].status
    BY <1>1, <1>5 DEF Reassigned, StepRecord
  <2> QED BY <1>5, <2>1, TrailKept DEF Reassigned
<1>6. ASSUME NEW r \in Req, Edited(r) PROVE DecisionTrail' /\ OnTrail'
  <2>1. doc'.status = doc.status /\ (doc.status \in InApproval => doc'.node = doc.node)
    BY <1>1, <1>6 DEF Edited, AtNode, DocRecord
  <2> QED BY <1>6, <2>1, TrailKept DEF Edited
<1> QED BY <1>1, <1>2, <1>3, <1>4, <1>5, <1>6, Effects, TrailDecided

LEMMA TrailInit == Init => TrailInv
<1> SUFFICES ASSUME Init PROVE TrailInv
  OBVIOUS
<1>1. ApprovalInv /\ doc \in DocRecord
  BY ApprovalInit DEF ApprovalInv, WorkflowInv, TypeOK
<1>2. \A r \in Req : AtNode(tx[r])
  BY DEF Init, Idle, AtNode
<1>3. \A n \in Node : ~Acted(n)
  <2>1. \E p \in Plan : steps = [n \in Node |-> NoRow] \/ steps = InitialSteps(p)
    BY DEF Init
  <2> QED BY <2>1 DEF InitialSteps, NewStep, NoRow, Acted
<1>4. DecisionTrail /\ OnTrail
  <2>1. CASE doc.status \notin InApproval
    BY <1>3, <2>1 DEF DecisionTrail, OnTrail
  <2>2. CASE doc.status \in InApproval
    <3>1. PICK p \in Plan : /\ stepPlan = p /\ steps = InitialSteps(p)
                            /\ doc.node = Graph[p].first
      BY <2>2 DEF Init, Created, InApproval
    <3>2. Graph[p].first \in Node /\ Graph[p].first \in Graph[p].nodes
      BY GraphAssumption DEF PlanRecord
    <3>3. \A n \in Node : Pending(n) <=> n = Graph[p].first
      BY <3>1, <3>2 DEF InitialSteps, NewStep, NoRow, Pending
    <3> QED BY <1>3, <3>1, <3>2, <3>3 DEF DecisionTrail, OnTrail
  <2> QED BY <2>1, <2>2
<1> QED BY <1>1, <1>2, <1>4 DEF TrailInv

LEMMA TrailNext ==
  ASSUME SelectedAlone
  PROVE  TrailInv /\ [Next]_vars => TrailInv'
<1> SUFFICES ASSUME TrailInv, [Next]_vars PROVE TrailInv'
  OBVIOUS
<1>1. ApprovalInv'
  BY ApprovalNext DEF TrailInv
<1> QED BY <1>1, AtNodeStep, TrailStep DEF TrailInv

\* Unless a version is selected while another handler of the request runs, the
\* decisions on record form a walk through the plan from its first step.
THEOREM DecisionsAreAWalk ==
  ASSUME SelectedAlone
  PROVE  Spec => []DecisionTrail
<1>1. TrailInv => DecisionTrail
  BY DEF TrailInv
<1> QED BY <1>1, TrailInit, TrailNext, PTL DEF Spec

-----------------------------------------------------------------------------
(* The refinement of the atomic protocol *)

ReviewIsAt == ReviewNode = IF doc.status \in InApproval THEN doc.node ELSE NoNode

\* The node in review is the current one.
LEMMA ReviewAtNode == TrailInv => ReviewIsAt
<1> SUFFICES ASSUME TrailInv, doc.status \in InApproval
             PROVE  (CHOOSE n \in Node : Pending(n)) = doc.node
  BY DEF ReviewIsAt, ReviewNode
<1>1. doc.node \in Node /\ Pending(doc.node)
  BY DEF TrailInv, OnTrail
<1>2. \A n \in Node : Pending(n) => n = doc.node
  BY <1>1 DEF TrailInv, ApprovalInv, WorkflowInv, OneActiveStep
<1> QED BY <1>1, <1>2

LEMMA ReviewAtNodeNext == TrailInv' => ReviewIsAt'
BY ReviewAtNode, PTL

DecisionsAreOutcomes ==
  /\ Decisions = [n \in Node |-> Decisions[n]]
  /\ \A n \in Node :
       /\ ~Acted(n) => Decisions[n] = "none"
       /\ \A a \in Outcome : steps[n].status = DecidedStatus[a] => Decisions[n] = a

\* The decision on record for a step, now and after a step.
LEMMA DecisionOf == DecisionsAreOutcomes
<1>1. ASSUME NEW n \in Node, NEW a \in Outcome, steps[n].status = DecidedStatus[a]
      PROVE  Decisions[n] = a
  <2>1. \A o \in Outcome : DecidedStatus[o] = DecidedStatus[a] <=> o = a
    BY DEF DecidedStatus, Outcome
  <2>2. (CHOOSE o \in Outcome : DecidedStatus[o] = steps[n].status) = a
    BY <1>1, <2>1
  <2>3. Acted(n)
    BY <1>1 DEF Acted, DecidedStatus, Outcome
  <2> QED BY <2>2, <2>3 DEF Decisions
<1>2. \A n \in Node : ~Acted(n) => Decisions[n] = "none"
  BY DEF Decisions
<1>3. Decisions = [n \in Node |-> Decisions[n]]
  BY DEF Decisions
<1> QED BY <1>1, <1>2, <1>3 DEF DecisionsAreOutcomes

LEMMA DecisionOfNext == DecisionsAreOutcomes'
BY DecisionOf, PTL

\* The phases of the statuses.
LEMMA Phases ==
  /\ \A s \in InApproval : PhaseOf[s] = "review"
  /\ \A s \in Editable : PhaseOf[s] = "open"
  /\ PhaseOf["Approved"] = "approved" /\ PhaseOf["Completed"] = "completed"
  /\ PhaseOf["Cancelled"] = "cancelled" /\ PhaseOf["Rejected"] = "rejected"
BY DEF PhaseOf, Status, InApproval, Editable, Finalized, Closed

LEMMA ProtocolInit == Init => Protocol!Init
<1> SUFFICES ASSUME Init PROVE Protocol!Init
  OBVIOUS
<1>1. TrailInv
  BY TrailInit
<1>2. Decisions = [n \in Node |-> "none"]
  <2>1. \E p \in Plan : steps = [n \in Node |-> NoRow] \/ steps = InitialSteps(p)
    BY DEF Init
  <2>2. \A n \in Node : ~Acted(n)
    BY <2>1 DEF InitialSteps, NewStep, NoRow, Acted
  <2> QED BY <2>2 DEF Decisions
<1>3. PICK p \in Plan :
        \/ doc.status \in {"Draft", "Completed"} /\ stepPlan = NoPlan
        \/ doc.status = FirstStatus(p) /\ doc.node = Graph[p].first /\ stepPlan = p
  BY DEF Init, Created
<1>4. FirstStatus(p) \in InApproval
  BY StageStatusOK, GraphAssumption DEF FirstStatus, PlanRecord
<1>5. CASE doc.status \in {"Draft", "Completed"} /\ stepPlan = NoPlan
  <2>1. PhaseOf[doc.status] \in {"open", "completed"} /\ ReviewNode = NoNode
    BY <1>1, <1>5, Phases, ReviewAtNode DEF Editable, InApproval, ReviewIsAt
  <2> QED BY <1>2, <1>5, <2>1 DEF Protocol!Init, Protocol!Undecided
<1>6. CASE doc.status = FirstStatus(p) /\ doc.node = Graph[p].first /\ stepPlan = p
  <2>1. PhaseOf[doc.status] = "review" /\ ReviewNode = Graph[p].first
    BY <1>1, <1>4, <1>6, Phases, ReviewAtNode DEF ReviewIsAt
  <2> QED BY <1>2, <1>6, <2>1 DEF Protocol!Init, Protocol!Undecided
<1> QED BY <1>3, <1>5, <1>6

LEMMA MapsSubmission ==
  ASSUME TrailInv, TrailInv', NEW r \in Req, FirstSubmitted(r) \/ Resubmitted(r)
  PROVE  Protocol!Submit
<1>1. WorkflowInv /\ Positions /\ Checked(tx[r])
  BY DEF TrailInv, ApprovalInv
<1>2. /\ stepPlan' \in Plan /\ stepPlan \in {NoPlan, stepPlan'}
      /\ doc'.status \in InApproval /\ doc'.node = Graph[stepPlan'].first
      /\ \A n \in Node : ~Acted(n)'
  BY <1>1, SubmittedRows
<1>3. PhaseOf[doc.status] = "open"
  BY <1>1, Phases DEF Checked, FirstSubmitted, Resubmitted
<1>4. PhaseOf[doc'.status] = "review"
  BY <1>2, Phases
<1>5. ReviewNode' = Graph[stepPlan'].first
  <2>1. ReviewNode' = IF doc'.status \in InApproval THEN doc'.node ELSE NoNode
    BY ReviewAtNodeNext DEF ReviewIsAt
  <2> QED BY <1>2, <2>1
<1>6. Decisions' = [n \in Node |-> "none"]
  BY <1>2 DEF Decisions
<1> QED BY <1>2, <1>3, <1>4, <1>5, <1>6
        DEF Protocol!Submit, Protocol!StartReview, Protocol!Undecided

LEMMA MapsDecision ==
  ASSUME TrailInv, TrailInv', NEW r \in Req, Decided(r)
  PROVE  Protocol!Decide(tx[r].op)
<1> DEFINE t == tx[r]
<1>0. PICK s, x, a : s = t.step /\ x = t.next /\ a = t.op
  OBVIOUS
<1>1. /\ WorkflowInv /\ Checked(t) /\ AtNode(t) /\ HandlerOK(t) /\ t.pc = "run" /\ a \in Outcome
      /\ doc.status = t.status /\ doc.node = t.node /\ doc \in DocRecord
      /\ stepPlan' = stepPlan
  BY <1>0 DEF TrailInv, ApprovalInv, WorkflowInv, TypeOK, Decided, Unmoved
<1>2. /\ s \in Node /\ stepPlan \in Plan
      /\ x # NoNode => x \in Node \ {s} /\ ~Acted(x)
  BY <1>0, <1>1, DecidedRows, LeadsOnward
<1>3. /\ doc.status \in InApproval /\ doc.node = s /\ Pending(s)
      /\ x = Graph[stepPlan].next[a][s]
      /\ \A m \in Node : Pending(m) => m = s
  BY <1>0, <1>1, <1>2 DEF Checked, AtNode, TrailInv, OnTrail, WorkflowInv, OneActiveStep
<1>4. doc'.status = t.to /\ doc'.node = x
  BY <1>0, <1>1 DEF Decided, DocRecord
<1>5. PhaseOf[doc.status] = "review" /\ ReviewNode = s
  BY <1>3, Phases, ReviewAtNode DEF ReviewIsAt
<1>6. PhaseOf[doc'.status] \in IF x = NoNode THEN Protocol!EndPhases(a) ELSE {"review"}
  <2>1. CASE x = NoNode
    <3>1. t.to \in EndStatuses(a)
      BY <1>0, <1>1, <2>1 DEF Checked
    <3>2. \A e \in EndStatuses(a) : PhaseOf[e] \in Protocol!EndPhases(a)
      BY <1>1, Phases DEF EndStatuses, Protocol!EndPhases, Outcome, Editable
    <3> QED BY <1>4, <2>1, <3>1, <3>2
  <2>2. CASE x # NoNode
    <3>1. t.to = StageStatus[Stage[x]] /\ Stage[x] \in Stages
      BY <1>0, <1>1, <1>2, <2>2, GraphAssumption DEF HandlerOK
    <3>2. t.to \in InApproval
      BY <3>1, StageStatusOK
    <3> QED BY <1>4, <2>2, <3>2, Phases
  <2> QED BY <2>1, <2>2
<1>7. ReviewNode' = x
  <2>1. ReviewNode' = IF doc'.status \in InApproval THEN doc'.node ELSE NoNode
    BY ReviewAtNodeNext DEF ReviewIsAt
  <2>2. doc'.status \in InApproval <=> x # NoNode
    <3>1. x = NoNode => t.to \notin InApproval
      BY <1>0, <1>1 DEF HandlerOK
    <3>2. x # NoNode => t.to = StageStatus[Stage[x]] /\ Stage[x] \in Stages
      BY <1>0, <1>1, <1>2, GraphAssumption DEF HandlerOK
    <3> QED BY <1>4, <3>1, <3>2, StageStatusOK
  <2> QED BY <1>4, <2>1, <2>2
<1>8. Decisions' = [Decisions EXCEPT ![s] = a]
  <2>1. Decisions'[s] = a
    BY <1>0, <1>1, <1>2, DecidedRows, DecisionOfNext DEF DecisionsAreOutcomes
  <2>2. ASSUME NEW n \in Node \ {s} PROVE Decisions'[n] = Decisions[n]
    <3>1. steps'[n].status = IF x = NoNode THEN steps[n].status
                             ELSE IF n = x THEN "PENDING"
                             ELSE IF steps[n].status = "PENDING" THEN "QUEUED" ELSE steps[n].status
      BY <1>0, <1>1, DecidedRows
    <3>2. CASE Acted(n)
      <4>1. PICK o \in Outcome : steps[n].status = DecidedStatus[o]
        BY <3>2, ActedBy
      <4>2. steps'[n].status = steps[n].status
        BY <1>2, <3>1, <3>2 DEF Acted
      <4> QED BY <4>1, <4>2, DecisionOf, DecisionOfNext DEF DecisionsAreOutcomes
    <3>3. CASE ~Acted(n)
      <4>1. ~Acted(n)'
        BY <3>1, <3>3 DEF Acted
      <4> QED BY <3>3, <4>1, DecisionOf, DecisionOfNext DEF DecisionsAreOutcomes
    <3> QED BY <3>2, <3>3
  <2>3. /\ Decisions = [n \in Node |-> Decisions[n]]
        /\ Decisions' = [n \in Node |-> Decisions'[n]]
    BY DecisionOf, DecisionOfNext DEF DecisionsAreOutcomes
  <2> QED BY <1>2, <2>1, <2>2, <2>3
<1>9. Protocol!Decide(a)
  BY <1>1, <1>3, <1>5, <1>6, <1>7, <1>8 DEF Protocol!Decide
<1> QED BY <1>0, <1>9

LEMMA MapsMove ==
  ASSUME TrailInv, NEW r \in Req, Moved(r)
  PROVE  Protocol!Revise \/ Protocol!Cancel \/ Protocol!Complete
<1>1. /\ Checked(tx[r]) /\ doc \in DocRecord /\ HandlerOK(tx[r]) /\ doc.status \in Status
  BY DEF TrailInv, ApprovalInv, WorkflowInv, TypeOK, DocRecord
<1>2. doc'.status = tx[r].to /\ doc.status = tx[r].status /\ tx[r].to \notin InApproval
  BY <1>1 DEF Moved, DocRecord, HandlerOK
<1>3. ReviewNode' = NoNode /\ Decisions' = Decisions /\ stepPlan' = stepPlan
  BY <1>2 DEF Moved, ReviewNode, Decisions, Acted
<1>4. CASE tx[r].op = "cancel"
  <2>1. PhaseOf[doc.status] \in {"open", "review", "rejected"} /\ PhaseOf[doc'.status] = "cancelled"
    <3>1. doc.status \in InApproval \cup Editable \cup {"Rejected"}
      BY <1>1, <1>2, <1>4
         DEF Moved, Checked, NotCancellable, Status, Finalized, Closed
    <3> QED BY <1>1, <1>2, <1>4, <3>1, Phases DEF Moved, Checked
  <2> QED BY <1>3, <2>1 DEF Protocol!Cancel, Protocol!Move
<1>5. CASE tx[r].op = "complete"
  <2>1. PhaseOf[doc.status] = "approved" /\ PhaseOf[doc'.status] = "completed"
    BY <1>1, <1>2, <1>5, Phases DEF Moved, Checked
  <2> QED BY <1>3, <2>1 DEF Protocol!Complete, Protocol!Move
<1>6. CASE tx[r].op = "revise"
  <2>1. PhaseOf[doc.status] \in {"approved", "completed"} /\ PhaseOf[doc'.status] = "open"
    BY <1>1, <1>2, <1>6, Phases DEF Moved, Checked, Finalized, Editable
  <2> QED BY <1>3, <2>1 DEF Protocol!Revise, Protocol!Move
<1> QED BY <1>4, <1>5, <1>6 DEF Moved

LEMMA MapsStutter ==
  ASSUME TrailInv, TrailInv', doc'.status = doc.status, stepPlan' = stepPlan,
         \A n \in Node : steps'[n].status = steps[n].status
  PROVE  UNCHANGED Protocol!pvars
<1>1. ReviewNode' = ReviewNode
  <2>1. ReviewIsAt /\ ReviewIsAt'
    BY ReviewAtNode, ReviewAtNodeNext
  <2>2. CASE doc.status \in InApproval
    <3>1. doc'.node \in Node /\ steps'[doc'.node].status = "PENDING"
      BY <2>2 DEF TrailInv, OnTrail, Pending
    <3>2. doc.node \in Node /\ \A n \in Node : Pending(n) => n = doc.node
      BY <2>2 DEF TrailInv, OnTrail, ApprovalInv, WorkflowInv, OneActiveStep
    <3>3. doc'.node = doc.node
      BY <3>1, <3>2 DEF Pending
    <3> QED BY <2>1, <3>3 DEF ReviewIsAt
  <2> QED BY <2>1, <2>2 DEF ReviewIsAt
<1>2. Decisions' = Decisions
  <2>1. ASSUME NEW n \in Node PROVE Decisions'[n] = Decisions[n]
    <3>1. Acted(n)' <=> Acted(n)
      BY DEF Acted
    <3>2. Acted(n) => \E a \in Outcome : steps[n].status = DecidedStatus[a]
      BY ActedBy
    <3> QED BY <3>1, <3>2, DecisionOf, DecisionOfNext DEF DecisionsAreOutcomes
  <2>2. /\ Decisions = [n \in Node |-> Decisions[n]]
        /\ Decisions' = [n \in Node |-> Decisions'[n]]
    BY DecisionOf, DecisionOfNext DEF DecisionsAreOutcomes
  <2> QED BY <2>1, <2>2
<1> QED BY <1>1, <1>2 DEF Protocol!pvars

LEMMA ProtocolStep ==
  ASSUME TrailInv, TrailInv', [Next]_vars
  PROVE  [Protocol!Next]_Protocol!pvars
<1>1. /\ WorkflowInv /\ steps \in [Node -> StepRecord] /\ doc \in DocRecord
  BY DEF TrailInv, ApprovalInv, WorkflowInv, TypeOK
<1>2. CASE UNCHANGED <<doc, steps, stepPlan>>
  BY <1>2, MapsStutter
<1>3. ASSUME NEW r \in Req, FirstSubmitted(r) \/ Resubmitted(r) PROVE Protocol!Next
  BY <1>3, MapsSubmission DEF Protocol!Next
<1>4. ASSUME NEW r \in Req, Decided(r) PROVE Protocol!Next
  <2>1. Protocol!Decide(tx[r].op) /\ tx[r].op \in Outcome
    BY <1>4, MapsDecision DEF Decided
  <2> QED BY <2>1 DEF Protocol!Next
<1>5. ASSUME NEW r \in Req, Moved(r) PROVE Protocol!Next
  BY <1>5, MapsMove DEF Protocol!Next
<1>6. ASSUME NEW r \in Req, Reassigned(r) PROVE UNCHANGED Protocol!pvars
  <2>1. \A n \in Node : steps'[n].status = steps[n].status
    BY <1>1, <1>6 DEF Reassigned, StepRecord
  <2> QED BY <1>6, <2>1, MapsStutter DEF Reassigned
<1>7. ASSUME NEW r \in Req, Edited(r) PROVE UNCHANGED Protocol!pvars
  <2>1. doc'.status = doc.status
    BY <1>1, <1>7 DEF Edited, DocRecord
  <2> QED BY <1>7, <2>1, MapsStutter DEF Edited
<1> QED BY <1>1, <1>2, <1>3, <1>4, <1>5, <1>6, <1>7, Effects

\* With the same proviso, every interleaving of the handlers of transition() and of
\* the unguarded edits is a run of the protocol whose operations are atomic.
THEOREM ProtocolImplemented ==
  ASSUME SelectedAlone
  PROVE  Spec => ImplementsProtocol
<1>1. TrailInv /\ TrailInv' /\ [Next]_vars => [Protocol!Next]_Protocol!pvars
  BY ProtocolStep
<1>2. Spec => []TrailInv
  BY TrailInit, TrailNext, PTL DEF Spec
<1> QED BY <1>1, <1>2, ProtocolInit, PTL DEF Spec, ImplementsProtocol, Protocol!Spec

-----------------------------------------------------------------------------
(* Attachments and their files *)

\* The invariant speaks of a slot only through the files it holds.
LEMMA SlotFiles ==
  ASSUME TypeOK, FileInv, NEW r \in Req, NEW t, t.atts = {},
         tx' = [tx EXCEPT ![r] = t], UNCHANGED <<atts, files>>
  PROVE  FileInv'
<1>1. \A q \in Req : tx'[q] = IF q = r THEN t ELSE tx[q]
  BY DEF TypeOK
<1>2. AttachmentFiles'
  BY DEF FileInv, AttachmentFiles, LiveAtts
<1>3. \A q \in Req : UploadOf(tx'[q]) = IF q = r THEN {} ELSE UploadOf(tx[q])
  BY <1>1 DEF UploadOf
<1>4. ASSUME NEW q \in Req PROVE FilesOK(tx[q])'
  BY <1>1, <1>3 DEF FileInv, FilesOK, UploadOf
<1>5. \A p, q \in Req : p # q => UploadOf(tx'[p]) \cap UploadOf(tx'[q]) = {}
  BY <1>3 DEF FileInv
<1>6. \A p, q \in Req : p # q => (UploadOf(tx[p]) \cap UploadOf(tx[q]) = {})'
  BY <1>5 DEF UploadOf
<1> QED BY <1>2, <1>4, <1>6 DEF FileInv

LEMMA NoFiles ==
  /\ Idle.atts = {} /\ Refused.atts = {}
  /\ \A o, u, v : /\ [Reading(o, u) EXCEPT !.fresh = v].atts = {}
                  /\ [Reading(o, u) EXCEPT !.to = v].atts = {}
                  /\ [Reading(o, u) EXCEPT !.data = v].atts = {}
                  /\ [Reading(o, u) EXCEPT !.plan = v].atts = {}
  /\ \A o, u, n, v : [Reading(o, u) EXCEPT !.step = n, !.user = v].atts = {}
  /\ \A o, u, n, m, f, s :
       [Reading(o, u) EXCEPT !.step = n, !.next = m, !.soft = f, !.to = s].atts = {}
BY DEF Idle, Refused, Reading

\* A handler that starts, unless it is an upload, holds no files.
LEMMA BeginFiles ==
  ASSUME TypeOK, FileInv, NEW r \in Req,
         \/ BeginSubmit(r) \/ BeginCancel(r)
         \/ \E u \in User : BeginComplete(r, u) \/ BeginRevise(r, u)
         \/ \E u \in User, a \in Outcome : BeginDecide(r, u, a)
         \/ \E n \in Node, v \in User : BeginReassign(r, n, v)
         \/ \E d \in Data : BeginEdit(r, d)
         \/ \E p \in Plan : BeginReselect(r, p)
  PROVE  FileInv'
<1>1. CASE BeginSubmit(r)
  BY <1>1, NoFiles, SlotFiles DEF BeginSubmit, Begin
<1>2. CASE BeginCancel(r)
  BY <1>2, NoFiles, SlotFiles DEF BeginCancel, Begin
<1>3. ASSUME NEW u \in User, BeginComplete(r, u) PROVE FileInv'
  BY <1>3, NoFiles, SlotFiles DEF BeginComplete, Begin
<1>4. ASSUME NEW u \in User, BeginRevise(r, u) PROVE FileInv'
  BY <1>4, NoFiles, SlotFiles DEF BeginRevise, Begin
<1>5. ASSUME NEW u \in User, NEW a \in Outcome, BeginDecide(r, u, a) PROVE FileInv'
  <2>1. PICK n \in Node :
          LET next == Graph[stepPlan].next[a][n] IN
          Begin(r, a,
            [Reading(a, u) EXCEPT
               !.step = n, !.next = next, !.soft = IsSoftcopy,
               !.to = IF next # NoNode THEN StageStatus[Stage[next]] ELSE EndStatus(a)])
    BY <1>5 DEF BeginDecide
  <2> DEFINE next == Graph[stepPlan].next[a][n]
             to == IF next # NoNode THEN StageStatus[Stage[next]] ELSE EndStatus(a)
             t == [Reading(a, u) EXCEPT
                     !.step = n, !.next = next, !.soft = IsSoftcopy, !.to = to]
  <2>2. tx' = [tx EXCEPT ![r] = t] /\ UNCHANGED <<atts, files>>
    BY <2>1 DEF Begin
  <2>3. t.atts = {}
    BY NoFiles
  <2> HIDE DEF t
  <2> QED BY <2>2, <2>3, SlotFiles
<1>6. ASSUME NEW n \in Node, NEW v \in User, BeginReassign(r, n, v) PROVE FileInv'
  BY <1>6, NoFiles, SlotFiles DEF BeginReassign, Begin
<1>7. ASSUME NEW d \in Data, BeginEdit(r, d) PROVE FileInv'
  BY <1>7, NoFiles, SlotFiles DEF BeginEdit, Begin
<1>8. ASSUME NEW p \in Plan, BeginReselect(r, p) PROVE FileInv'
  BY <1>8, NoFiles, SlotFiles DEF BeginReselect, Begin
<1> QED BY <1>1, <1>2, <1>3, <1>4, <1>5, <1>6, <1>7, <1>8

\* A handler that ends without touching attachments lets go of its files.
LEMMA EndFiles ==
  ASSUME TypeOK, FileInv, NEW r \in Req,
         \/ FirstSubmit(r) \/ Resubmit(r) \/ CommitStatus(r) \/ CommitReassign(r)
         \/ CommitEdit(r) \/ Crash(r) \/ Refuse(r)
  PROVE  FileInv'
<1>1. tx' = [tx EXCEPT ![r] = Idle] \/ tx' = [tx EXCEPT ![r] = Refused]
  BY DEF FirstSubmit, Resubmit, CommitStatus, CommitReassign, CommitEdit, Crash, Refuse, Done
<1>2. UNCHANGED <<atts, files>>
  BY DEF FirstSubmit, Resubmit, CommitStatus, CommitReassign, CommitEdit, Crash, Refuse
<1> QED BY <1>1, <1>2, NoFiles, SlotFiles

LEMMA BeginAttachFiles ==
  ASSUME TypeOK, FileInv, NEW r \in Req, NEW a \in Att, BeginAttach(r, a)
  PROVE  FileInv'
<1> DEFINE t == [Reading("attach", NoUser) EXCEPT !.atts = {a}]
<1>1. /\ tx' = [tx EXCEPT ![r] = t] /\ UNCHANGED <<atts, files>>
      /\ atts[a] = "NONE" /\ \A q \in Req : a \notin tx[q].atts
  BY DEF BeginAttach, Begin
<1>2. t.atts = {a} /\ t.pc = "run"
  BY DEF Reading
<1> HIDE DEF t
<1>3. \A q \in Req : tx'[q] = IF q = r THEN t ELSE tx[q]
  BY <1>1 DEF TypeOK
<1>4. \A q \in Req : a \notin UploadOf(tx[q])
  BY <1>1 DEF UploadOf
<1>5. \A q \in Req : UploadOf(tx'[q]) = IF q = r THEN {a} ELSE UploadOf(tx[q])
  BY <1>2, <1>3 DEF UploadOf
<1>6. AttachmentFiles'
  BY <1>1 DEF FileInv, AttachmentFiles, LiveAtts
<1>7. ASSUME NEW q \in Req PROVE FilesOK(tx[q])'
  BY <1>1, <1>2, <1>3 DEF FileInv, FilesOK, UploadOf
<1>8. \A p, q \in Req : p # q => UploadOf(tx'[p]) \cap UploadOf(tx'[q]) = {}
  BY <1>4, <1>5 DEF FileInv
<1>9. \A p, q \in Req : p # q => (UploadOf(tx[p]) \cap UploadOf(tx[q]) = {})'
  BY <1>8 DEF UploadOf
<1> QED BY <1>6, <1>7, <1>9 DEF FileInv

LEMMA StoreFileFiles ==
  ASSUME TypeOK, FileInv, NEW r \in Req, StoreFile(r)
  PROVE  FileInv'
<1>1. /\ tx[r].pc = "run" /\ tx' = [tx EXCEPT ![r] = [tx[r] EXCEPT !.pc = "stored"]]
      /\ files' = files \cup tx[r].atts /\ atts' = atts
  BY DEF StoreFile, Running
<1>2. \A q \in Req : tx[q] \in TxRecord
  BY DEF TypeOK
<1>3. \A q \in Req : /\ tx'[q].atts = tx[q].atts
                     /\ q = r => tx'[q].pc = "stored"
                     /\ q # r => tx'[q] = tx[q]
  BY <1>1, <1>2 DEF TypeOK, TxRecord
<1>4. \A q \in Req : UploadOf(tx'[q]) = UploadOf(tx[q])
  BY <1>1, <1>3 DEF UploadOf
<1>5. AttachmentFiles'
  BY <1>1 DEF FileInv, AttachmentFiles, LiveAtts
<1>6. ASSUME NEW q \in Req PROVE FilesOK(tx[q])'
  BY <1>1, <1>3 DEF FileInv, FilesOK, UploadOf
<1>7. \A p, q \in Req : p # q => (UploadOf(tx[p]) \cap UploadOf(tx[q]) = {})'
  BY <1>4 DEF FileInv, UploadOf
<1> QED BY <1>5, <1>6, <1>7 DEF FileInv

\* Steps that move attachments between statuses, or unlink files of one slot,
\* and leave that slot without an upload.
LEMMA SettleFiles ==
  ASSUME TypeOK, FileInv, NEW r \in Req, NEW t, UploadOf(t) = {},
         tx' = [tx EXCEPT ![r] = t],
         AttachmentFiles',
         t.pc = "cleanup" => \A a \in t.atts : atts'[a] \in {"Rejected", "Deleted"},
         \A a \in Att : atts[a] \in {"Rejected", "Deleted"} => atts'[a] \in {"Rejected", "Deleted"},
         \A q \in Req : q # r =>
            /\ \A a \in UploadOf(tx[q]) : atts'[a] = "NONE"
            /\ tx[q].pc = "stored" => tx[q].atts \subseteq files'
  PROVE  FileInv'
<1>1. /\ \A q \in Req : tx'[q] = IF q = r THEN t ELSE tx[q]
      /\ \A q \in Req : tx[q].atts \subseteq Att
  BY DEF TypeOK, TxRecord
<1>2. \A q \in Req : UploadOf(tx'[q]) = IF q = r THEN {} ELSE UploadOf(tx[q])
  BY <1>1
<1>3. ASSUME NEW q \in Req PROVE FilesOK(tx[q])'
  <2>1. CASE q = r
    <3>1. t.pc = "stored" => t.atts = {}
      BY DEF UploadOf
    <3> QED BY <1>1, <2>1, <3>1 DEF FilesOK, UploadOf
  <2>2. CASE q # r
    BY <1>1, <2>2 DEF FileInv, FilesOK, UploadOf
  <2> QED BY <2>1, <2>2
<1>4. \A p, q \in Req : p # q => UploadOf(tx'[p]) \cap UploadOf(tx'[q]) = {}
  BY <1>2 DEF FileInv
<1>5. \A p, q \in Req : p # q => (UploadOf(tx[p]) \cap UploadOf(tx[q]) = {})'
  BY <1>4 DEF UploadOf
<1> QED BY <1>3, <1>5 DEF FileInv

LEMMA CommitAttachFiles ==
  ASSUME TypeOK, FileInv, NEW r \in Req, CommitAttach(r)
  PROVE  FileInv'
<1>1. /\ tx[r].pc = "stored" /\ tx' = [tx EXCEPT ![r] = Idle] /\ files' = files
      /\ \A a \in Att : atts'[a] = IF a \in tx[r].atts THEN "PendingApproval" ELSE atts[a]
      /\ \A q \in Req : tx[q].atts \subseteq Att
  BY DEF CommitAttach, Done, TypeOK, TxRecord
<1>2. /\ tx[r].atts \subseteq files /\ UploadOf(tx[r]) = tx[r].atts
      /\ \A a \in tx[r].atts : atts[a] = "NONE"
  BY <1>1 DEF FileInv, FilesOK, UploadOf
<1>3. AttachmentFiles'
  BY <1>1, <1>2 DEF FileInv, AttachmentFiles, LiveAtts
<1>4. Idle.pc = "idle" /\ UploadOf(Idle) = {}
  BY DEF Idle, UploadOf
<1>5. ASSUME NEW q \in Req, q # r
      PROVE  /\ \A a \in UploadOf(tx[q]) : atts'[a] = "NONE"
             /\ tx[q].pc = "stored" => tx[q].atts \subseteq files'
  <2>1. UploadOf(tx[q]) \cap tx[r].atts = {} /\ UploadOf(tx[q]) \subseteq Att
    BY <1>1, <1>2, <1>5 DEF FileInv, UploadOf
  <2> QED BY <1>1, <2>1 DEF FileInv, FilesOK
<1>6. \A a \in Att : atts[a] \in {"Rejected", "Deleted"} => atts'[a] \in {"Rejected", "Deleted"}
  BY <1>1, <1>2
<1> QED BY <1>1, <1>3, <1>4, <1>5, <1>6, SettleFiles

LEMMA RemoveFilesFiles ==
  ASSUME TypeOK, FileInv, NEW r \in Req, RemoveFiles(r)
  PROVE  FileInv'
<1>1. /\ tx[r].pc = "cleanup" /\ tx' = [tx EXCEPT ![r] = Idle]
      /\ files' = files \ tx[r].atts /\ atts' = atts
  BY DEF RemoveFiles, Done
<1>2. \A a \in tx[r].atts : atts[a] \in {"Rejected", "Deleted"}
  BY <1>1 DEF FileInv, FilesOK
<1>3. AttachmentFiles'
  BY <1>1, <1>2 DEF FileInv, AttachmentFiles, LiveAtts
<1>4. Idle.pc = "idle" /\ UploadOf(Idle) = {}
  BY DEF Idle, UploadOf
<1>5. ASSUME NEW q \in Req, q # r
      PROVE  /\ \A a \in UploadOf(tx[q]) : atts'[a] = "NONE"
             /\ tx[q].pc = "stored" => tx[q].atts \subseteq files'
  BY <1>1, <1>2 DEF FileInv, FilesOK, UploadOf
<1> QED BY <1>1, <1>3, <1>4, <1>5, SettleFiles

LEMMA DetachFiles ==
  ASSUME TypeOK, FileInv, NEW r \in Req, NEW a \in Att, Detach(r, a)
  PROVE  FileInv'
<1>1. /\ tx' = [tx EXCEPT ![r] = Idle] /\ files' = files /\ atts[a] # "NONE"
      /\ \A b \in Att : atts'[b] = IF b = a THEN "Deleted" ELSE atts[b]
      /\ \A q \in Req : tx[q].atts \subseteq Att
  BY DEF Detach, Done, TypeOK, TxRecord
<1>2. Idle.pc = "idle"
  BY DEF Idle
<1>3. UploadOf(Idle) = {}
  BY <1>2 DEF UploadOf
<1>4. AttachmentFiles'
  BY <1>1 DEF FileInv, AttachmentFiles, LiveAtts
<1>5. ASSUME NEW q \in Req, q # r
      PROVE  /\ \A b \in UploadOf(tx[q]) : atts'[b] = "NONE"
             /\ tx[q].pc = "stored" => tx[q].atts \subseteq files'
  BY <1>1 DEF FileInv, FilesOK, UploadOf
<1> QED BY <1>1, <1>2, <1>3, <1>4, <1>5, SettleFiles

LEMMA CommitDecideFiles ==
  ASSUME TypeOK, FileInv, NEW r \in Req, CommitDecide(r)
  PROVE  FileInv'
<1> DEFINE t == IF RejectsAttachments(tx[r])
                THEN [Idle EXCEPT !.pc = "cleanup", !.atts = LiveAtts] ELSE Idle
<1>1. CASE Refuse(r)
  BY <1>1, EndFiles
<1>2. CASE tx' = [tx EXCEPT ![r] = t] /\ atts' = DecidedAtts(tx[r]) /\ files' = files
  <2>1. \A q \in Req : tx[q].atts \subseteq Att
    BY DEF TypeOK, TxRecord
  <2>2. \A a \in Att :
          /\ atts[a] = "NONE" => atts'[a] = "NONE"
          /\ atts'[a] \in {"PendingApproval", "Approved"} => a \in LiveAtts
          /\ atts[a] \in {"Rejected", "Deleted"} => atts'[a] \in {"Rejected", "Deleted"}
          /\ RejectsAttachments(tx[r]) /\ a \in LiveAtts => atts'[a] = "Rejected"
    BY <1>2 DEF DecidedAtts, LiveAtts, ApprovesAttachments, RejectsAttachments
  <2>3. /\ t.pc # "run" /\ t.pc # "stored"
        /\ t.pc = "cleanup" => RejectsAttachments(tx[r]) /\ t.atts = LiveAtts
    BY DEF Idle
  <2> HIDE DEF t
  <2>4. UploadOf(t) = {}
    BY <2>3 DEF UploadOf
  <2>5. t.pc = "cleanup" => \A a \in t.atts : atts'[a] \in {"Rejected", "Deleted"}
    BY <2>2, <2>3 DEF LiveAtts
  <2>6. AttachmentFiles'
    BY <1>2, <2>2 DEF FileInv, AttachmentFiles, LiveAtts
  <2>7. ASSUME NEW q \in Req, q # r
        PROVE  /\ \A a \in UploadOf(tx[q]) : atts'[a] = "NONE"
               /\ tx[q].pc = "stored" => tx[q].atts \subseteq files'
    BY <1>2, <2>1, <2>2 DEF FileInv, FilesOK, UploadOf
  <2> QED BY <1>2, <2>2, <2>4, <2>5, <2>6, <2>7, SettleFiles
<1> QED BY <1>1, <1>2 DEF CommitDecide

LEMMA FileStep ==
  ASSUME TypeOK, FileInv, [Next]_vars
  PROVE  FileInv'
<1>1. ASSUME NEW r \in Req, Transition(r) PROVE FileInv'
  BY <1>1, BeginFiles, EndFiles, CommitDecideFiles, RemoveFilesFiles DEF Transition
<1>2. ASSUME NEW r \in Req, Editing(r) PROVE FileInv'
  BY <1>2, BeginFiles, EndFiles DEF Editing
<1>3. ASSUME NEW r \in Req, Attachments(r) PROVE FileInv'
  BY <1>3, BeginAttachFiles, DetachFiles, StoreFileFiles, CommitAttachFiles DEF Attachments
<1>4. ASSUME NEW r \in Req, Crash(r) PROVE FileInv'
  BY <1>4, EndFiles
<1>5. CASE UNCHANGED vars
  BY <1>5 DEF vars, FileInv, AttachmentFiles, LiveAtts, FilesOK, UploadOf
<1> QED BY <1>1, <1>2, <1>3, <1>4, <1>5 DEF Next, Step

\* addAttachments(), removeAttachment() and rejectSoftcopyAttachments(): an upload
\* owns its file alone until its row exists, and only files of attachments out of
\* use are about to be removed, however the handlers overlap and crash.
THEOREM FilesSafe == Spec => []FileInv
<1>1. Init => FileInv
  BY DEF Init, Idle, FileInv, AttachmentFiles, LiveAtts, FilesOK, UploadOf
<1>2. TypeOK /\ FileInv /\ [Next]_vars => FileInv'
  BY FileStep
<1>3. WorkflowInv => TypeOK
  BY DEF WorkflowInv
<1> QED BY <1>1, <1>2, <1>3, WorkflowSafe, PTL DEF Spec

\* The file of an attachment that is pending approval or approved stays on disk.
THEOREM LiveFilesKept == Spec => []AttachmentFiles
<1>1. FileInv => AttachmentFiles
  BY DEF FileInv
<1> QED BY <1>1, FilesSafe, PTL

-----------------------------------------------------------------------------
(* Attachments while handlers do not overlap *)

\* A handler that begins has seen the type, or a status that still holds.
LEMMA BeginCurrent ==
  ASSUME ApprovalInv, OneAtATime, NEW r \in Req, Begins(r)
  PROVE  /\ \A q \in Req : ReadHolds(tx[q])'
         /\ UNCHANGED <<doc, atts>>
<1>1. ASSUME NEW o, NEW t, Begin(r, o, t), t.pc = "run", t.op = o,
             o \in Outcome => t.soft = IsSoftcopy,
             o = "edit" => doc.status \in Editable,
             o = "attach" => doc.status \in Uploadable
      PROVE  (\A q \in Req : ReadHolds(tx[q])') /\ UNCHANGED <<doc, atts>>
  <2>1. \A q \in Req : tx'[q] = t
    BY <1>1 DEF Begin, OneAtATime, ApprovalInv, WorkflowInv, TypeOK
  <2> QED BY <1>1, <2>1 DEF Begin, ReadHolds, IsSoftcopy
<1>2. ASSUME NEW u \in User, NEW a \in Outcome, BeginDecide(r, u, a)
      PROVE  (\A q \in Req : ReadHolds(tx[q])') /\ UNCHANGED <<doc, atts>>
  <2>1. PICK n \in Node :
          Begin(r, a,
               [Reading(a, u) EXCEPT
                  !.step = n, !.next = Graph[stepPlan].next[a][n], !.soft = IsSoftcopy,
                  !.to = IF Graph[stepPlan].next[a][n] # NoNode
                         THEN StageStatus[Stage[Graph[stepPlan].next[a][n]]]
                         ELSE EndStatus(a)])
    BY <1>2 DEF BeginDecide
  <2> DEFINE next == Graph[stepPlan].next[a][n]
             soft == IsSoftcopy
             to == IF next # NoNode THEN StageStatus[Stage[next]] ELSE EndStatus(a)
             t == [Reading(a, u) EXCEPT !.step = n, !.next = next, !.soft = soft, !.to = to]
  <2>2. Begin(r, a, t)
    BY <2>1
  <2>3. soft = IsSoftcopy /\ a # "edit" /\ a # "attach"
    BY DEF Outcome
  <2> HIDE DEF next, soft, to
  <2>4. t.pc = "run" /\ t.op = a /\ t.soft = soft
    BY DEF Reading
  <2> HIDE DEF t
  <2> QED BY <1>1, <2>2, <2>3, <2>4
<1>3. ASSUME NEW n \in Node, NEW v \in User, BeginReassign(r, n, v)
      PROVE  (\A q \in Req : ReadHolds(tx[q])') /\ UNCHANGED <<doc, atts>>
  <2> DEFINE t == [Reading("reassign", NoUser) EXCEPT !.step = n, !.user = v]
  <2>1. t.pc = "run" /\ t.op = "reassign" /\ "reassign" \notin Outcome
    BY DEF Reading, Outcome
  <2>2. Begin(r, "reassign", t)
    BY <1>3 DEF BeginReassign
  <2> HIDE DEF t
  <2> QED BY <1>1, <2>1, <2>2
<1>4. CASE BeginSubmit(r) \/ BeginCancel(r)
  BY <1>1, <1>4 DEF BeginSubmit, BeginCancel, Reading, Outcome
<1>5. ASSUME NEW u \in User, BeginComplete(r, u) \/ BeginRevise(r, u)
      PROVE  (\A q \in Req : ReadHolds(tx[q])') /\ UNCHANGED <<doc, atts>>
  BY <1>1, <1>5 DEF BeginComplete, BeginRevise, Reading, Outcome
<1>6. ASSUME NEW d \in Data, BeginEdit(r, d)
      PROVE  (\A q \in Req : ReadHolds(tx[q])') /\ UNCHANGED <<doc, atts>>
  BY <1>1, <1>6 DEF BeginEdit, Reading, Outcome
<1>7. ASSUME NEW p \in Plan, BeginReselect(r, p)
      PROVE  (\A q \in Req : ReadHolds(tx[q])') /\ UNCHANGED <<doc, atts>>
  BY <1>1, <1>7 DEF BeginReselect, Reading, Outcome
<1>8. ASSUME NEW a \in Att, BeginAttach(r, a)
      PROVE  (\A q \in Req : ReadHolds(tx[q])') /\ UNCHANGED <<doc, atts>>
  <2> DEFINE t == [Reading("attach", NoUser) EXCEPT !.atts = {a}]
  <2>1. t.pc = "run" /\ t.op = "attach" /\ "attach" \notin Outcome
    BY DEF Reading, Outcome
  <2>2. Begin(r, "attach", t) /\ doc.status \in Uploadable
    BY <1>8 DEF BeginAttach
  <2> HIDE DEF t
  <2> QED BY <1>1, <2>1, <2>2
<1> QED BY <1>2, <1>3, <1>4, <1>5, <1>6, <1>7, <1>8 DEF Begins

\* A handler that has ended knows nothing of the request any more.
LEMMA EndCurrent ==
  ASSUME ApprovalInv, OneAtATime, NEW r \in Req, NEW t, tx' = [tx EXCEPT ![r] = t],
         t.pc \in {"idle", "refused", "cleanup"}
  PROVE  \A q \in Req : ReadHolds(tx[q])'
<1>1. \A q \in Req : tx'[q] = t
  BY DEF OneAtATime, ApprovalInv, WorkflowInv, TypeOK
<1> QED BY <1>1 DEF ReadHolds

LEMMA EndsNotRunning ==
  Idle.pc = "idle" /\ Refused.pc = "refused" /\ \A s : [Idle EXCEPT !.pc = "cleanup", !.atts = s].pc = "cleanup"
BY DEF Idle, Refused

\* A decision settles the attachments it found, one way or the other.
LEMMA DecisionSettles ==
  ASSUME SettledInv, OneAtATime, NEW r \in Req, CommitDecide(r)
  PROVE  AttachmentsSettled' /\ \A q \in Req : ReadHolds(tx[q])'
<1> DEFINE t == tx[r]
<1>1. /\ ApprovalInv /\ doc \in DocRecord /\ atts \in [Att -> AttStatus] /\ HandlerOK(t)
      /\ AttachmentsSettled /\ Checked(t) /\ ReadHolds(t)
  BY DEF SettledInv, ApprovalInv, WorkflowInv, TypeOK
<1>2. CASE Refuse(r)
  BY <1>1, <1>2, EndsNotRunning, EndCurrent DEF Refuse, AttachmentsSettled, IsSoftcopy, LiveAtts
<1>3. CASE ~Refuse(r)
  <2>1. /\ doc' = [doc EXCEPT !.status = t.to, !.node = t.next] /\ atts' = DecidedAtts(t)
        /\ tx' = [tx EXCEPT ![r] =
               IF RejectsAttachments(t)
               THEN [Idle EXCEPT !.pc = "cleanup", !.atts = LiveAtts] ELSE Idle]
        /\ t.pc = "run" /\ t.op \in Outcome /\ Unmoved(r)
    BY <1>3 DEF CommitDecide, Running
  <2>2. doc'.status = t.to /\ IsSoftcopy' = IsSoftcopy /\ t.soft = IsSoftcopy
    BY <1>1, <2>1 DEF DocRecord, IsSoftcopy, ReadHolds
  <2>3. t.to \in Finalized \cup {"Rejected"} => t.next = NoNode
    <3>1. t.next # NoNode => t.next \in Node
      <4>1. stepPlan \in Plan \cup {NoPlan}
        BY <1>1 DEF ApprovalInv, WorkflowInv, TypeOK
      <4>2. t.next # NoNode => KnownStep(t.next)
        BY <1>1, <2>1 DEF HandlerOK
      <4> QED BY <4>1, <4>2, GraphAssumption DEF KnownStep, PlanRecord
    <3>2. t.next # NoNode => t.to \in InApproval
      BY <1>1, <2>1, <3>1, StageStatusOK, GraphAssumption DEF HandlerOK
    <3> QED BY <3>2 DEF Finalized, InApproval
  <2>4. /\ t.to \in Finalized => t.op = "approve" /\ t.to = "Approved"
        /\ t.to = "Rejected" => t.op = "reject"
    BY <1>1, <2>1, <2>3 DEF Checked, EndStatuses, Outcome, Finalized
  <2>5. AttachmentsSettled'
    BY <1>1, <2>1, <2>2, <2>4
       DEF AttachmentsSettled, DecidedAtts, ApprovesAttachments, RejectsAttachments, LiveAtts
  <2>6. \A q \in Req : ReadHolds(tx[q])'
    BY <1>1, <2>1, EndsNotRunning, EndCurrent
  <2> QED BY <2>5, <2>6
<1> QED BY <1>2, <1>3

LEMMA SettledStep ==
  ASSUME SettledInv, OneAtATime, [Next]_vars
  PROVE  SettledInv'
<1>1. /\ ApprovalInv /\ doc \in DocRecord /\ atts \in [Att -> AttStatus]
      /\ tx \in [Req -> TxRecord] /\ AttachmentsSettled
      /\ \A q \in Req : HandlerOK(tx[q]) /\ Checked(tx[q]) /\ ReadHolds(tx[q])
  BY DEF SettledInv, ApprovalInv, WorkflowInv, TypeOK
<1>2. ApprovalInv'
  BY <1>1, ApprovalNext
<1> SUFFICES AttachmentsSettled' /\ \A q \in Req : ReadHolds(tx[q])'
  BY <1>2 DEF SettledInv
<1>3. CASE UNCHANGED vars
  BY <1>1, <1>3 DEF vars, AttachmentsSettled, IsSoftcopy, LiveAtts, ReadHolds
<1>4. ASSUME NEW r \in Req, Begins(r)
      PROVE  AttachmentsSettled' /\ \A q \in Req : ReadHolds(tx[q])'
  <2>1. UNCHANGED <<doc, atts>> /\ \A q \in Req : ReadHolds(tx[q])'
    BY <1>1, <1>4, BeginCurrent
  <2> QED BY <1>1, <2>1 DEF AttachmentsSettled, IsSoftcopy, LiveAtts
<1>5. ASSUME NEW r \in Req, UNCHANGED <<doc, atts>>,
             tx' = [tx EXCEPT ![r] = Idle] \/ tx' = [tx EXCEPT ![r] = Refused]
      PROVE  AttachmentsSettled' /\ \A q \in Req : ReadHolds(tx[q])'
  <2>1. \A q \in Req : ReadHolds(tx[q])'
    BY <1>1, <1>5, EndCurrent, EndsNotRunning
  <2> QED BY <1>1, <1>5, <2>1 DEF AttachmentsSettled, IsSoftcopy, LiveAtts
<1>6. ASSUME NEW r \in Req,
             RemoveFiles(r) \/ CommitReassign(r) \/ Crash(r) \/ Refuse(r)
      PROVE  AttachmentsSettled' /\ \A q \in Req : ReadHolds(tx[q])'
  BY <1>5, <1>6 DEF RemoveFiles, CommitReassign, Crash, Refuse, Done
<1>7. ASSUME NEW r \in Req, Done(r), UNCHANGED atts,
             doc'.status \in InApproval \cup Editable \cup {"Cancelled"} \/
             (doc'.status = "Completed" /\ doc.status = "Approved" /\ IsSoftcopy' = IsSoftcopy)
      PROVE  AttachmentsSettled' /\ \A q \in Req : ReadHolds(tx[q])'
  <2>1. \A q \in Req : ReadHolds(tx[q])'
    BY <1>1, <1>7, EndCurrent, EndsNotRunning DEF Done
  <2> QED BY <1>1, <1>7, <2>1 DEF AttachmentsSettled, LiveAtts, InApproval, Editable, Finalized
<1>8. ASSUME NEW r \in Req, FirstSubmit(r) \/ Resubmit(r)
      PROVE  AttachmentsSettled' /\ \A q \in Req : ReadHolds(tx[q])'
  <2>1. \A p \in Plan : FirstStatus(p) \in InApproval
    BY StageStatusOK, GraphAssumption DEF FirstStatus, PlanRecord
  <2>2. doc.plan \in Plan
    BY <1>1 DEF DocRecord
  <2>3. CASE FirstSubmit(r) /\ ~Refuse(r) /\ doc' # doc
    <3>1. doc'.status = FirstStatus(doc.plan)
      BY <1>1, <2>3 DEF FirstSubmit, DocRecord
    <3> QED BY <1>7, <2>1, <2>2, <2>3, <3>1 DEF FirstSubmit
  <2>4. CASE FirstSubmit(r) /\ ~Refuse(r) /\ doc' = doc
    <3>1. Done(r) /\ UNCHANGED atts
      BY <2>4 DEF FirstSubmit
    <3> QED BY <1>5, <2>4, <3>1 DEF Done
  <2>5. CASE Resubmit(r) /\ ~Refuse(r)
    <3>1. HasSteps
      BY <1>1, <2>5 DEF Resubmit, Running, HandlerOK
    <3>2. doc'.status = FirstStatus(stepPlan) /\ stepPlan \in Plan
      BY <1>1, <2>5, <3>1 DEF Resubmit, DocRecord, HasSteps, ApprovalInv, WorkflowInv, TypeOK
    <3> QED BY <1>7, <2>1, <2>5, <3>2 DEF Resubmit
  <2> QED BY <1>6, <1>8, <2>3, <2>4, <2>5
<1>9. ASSUME NEW r \in Req, CommitStatus(r)
      PROVE  AttachmentsSettled' /\ \A q \in Req : ReadHolds(tx[q])'
  <2>1. CASE ~Refuse(r)
    <3>1. /\ doc'.status = tx[r].to /\ doc'.data = doc.data /\ doc.status = tx[r].status
          /\ tx[r].pc = "run" /\ tx[r].op \in {"cancel", "complete", "revise"}
          /\ Done(r) /\ UNCHANGED atts
      BY <1>1, <1>9, <2>1 DEF CommitStatus, DocRecord, Unmoved, Running
    <3>2. \/ doc'.status \in Editable \cup {"Cancelled"}
          \/ doc'.status = "Completed" /\ doc.status = "Approved"
      BY <1>1, <3>1 DEF Checked, Editable
    <3> QED BY <1>7, <3>1, <3>2 DEF IsSoftcopy
  <2> QED BY <1>6, <2>1
<1>10. ASSUME NEW r \in Req, CommitEdit(r)
       PROVE  AttachmentsSettled' /\ \A q \in Req : ReadHolds(tx[q])'
  <2>1. Done(r) /\ UNCHANGED atts /\ doc'.status = doc.status
    BY <1>1, <1>10 DEF CommitEdit, DocRecord
  <2>2. CASE tx[r].op = "edit"
    BY <1>1, <1>7, <1>10, <2>1, <2>2 DEF CommitEdit, Running, ReadHolds
  <2>3. CASE tx[r].op # "edit"
    <3>1. IsSoftcopy' = IsSoftcopy
      BY <1>1, <1>10, <2>3 DEF CommitEdit, DocRecord, IsSoftcopy
    <3>2. \A q \in Req : ReadHolds(tx[q])'
      BY <1>1, <2>1, EndCurrent, EndsNotRunning DEF Done
    <3> QED BY <1>1, <2>1, <3>1, <3>2 DEF AttachmentsSettled, LiveAtts
  <2> QED BY <2>2, <2>3
<1>11. ASSUME NEW r \in Req, StoreFile(r)
       PROVE  AttachmentsSettled' /\ \A q \in Req : ReadHolds(tx[q])'
  <2>1. \A q \in Req : q = r /\ tx'[q] = [tx[r] EXCEPT !.pc = "stored"]
    BY <1>1, <1>11 DEF StoreFile, OneAtATime
  <2>2. \A q \in Req : ReadHolds(tx[q])'
    BY <1>1, <1>11, <2>1 DEF StoreFile, Running, ReadHolds, TxRecord, Outcome
  <2> QED BY <1>1, <1>11, <2>2 DEF StoreFile, AttachmentsSettled, IsSoftcopy, LiveAtts
<1>12. ASSUME NEW r \in Req, CommitAttach(r)
       PROVE  AttachmentsSettled' /\ \A q \in Req : ReadHolds(tx[q])'
  <2>1. doc.status \in Uploadable /\ doc' = doc
    BY <1>1, <1>12 DEF CommitAttach, ReadHolds
  <2>2. \A q \in Req : ReadHolds(tx[q])'
    BY <1>1, <1>12, EndCurrent, EndsNotRunning DEF CommitAttach, Done
  <2> QED BY <2>1, <2>2 DEF AttachmentsSettled, Uploadable, Finalized
<1>13. ASSUME NEW r \in Req, NEW a \in Att, Detach(r, a)
       PROVE  AttachmentsSettled' /\ \A q \in Req : ReadHolds(tx[q])'
  <2>1. \A q \in Req : ReadHolds(tx[q])'
    BY <1>1, <1>13, EndCurrent, EndsNotRunning DEF Detach, Done
  <2>2. doc' = doc /\ atts' = [atts EXCEPT ![a] = "Deleted"]
    BY <1>13 DEF Detach
  <2> QED BY <1>1, <2>1, <2>2 DEF AttachmentsSettled, IsSoftcopy, LiveAtts
<1> QED BY <1>3, <1>4, <1>6, <1>8, <1>9, <1>10, <1>11, <1>12, <1>13, DecisionSettles
        DEF Next, Step, Transition, Editing, Attachments, Begins

\* approvePendingSoftcopyAttachments, rejectSoftcopyAttachments: while one handler runs at
\* a time, an approved softcopy has no attachment left to approve and a rejected one has
\* none left in use.
THEOREM AttachmentsAreSettled ==
  ASSUME OneAtATime
  PROVE  Spec => []AttachmentsSettled
<1>1. Init => SettledInv
  <2> SUFFICES ASSUME Init PROVE SettledInv
    OBVIOUS
  <2>1. ApprovalInv
    BY ApprovalInit
  <2>2. AttachmentsSettled /\ \A q \in Req : ReadHolds(tx[q])
    BY DEF Init, Idle, AttachmentsSettled, LiveAtts, ReadHolds
  <2> QED BY <2>1, <2>2 DEF SettledInv
<1>2. SettledInv /\ [Next]_vars => SettledInv'
  BY SettledStep
<1>3. SettledInv => AttachmentsSettled
  BY DEF SettledInv
<1> QED BY <1>1, <1>2, <1>3, PTL DEF Spec

=============================================================================
