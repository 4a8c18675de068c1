-------------------------- MODULE DocumentWorkflow --------------------------
(***************************************************************************)
(* The approval workflow of one document request, as executed by           *)
(* DocumentsService (documents.service.ts): transition() with its six      *)
(* actions, reassignWorkflowStep(), update() with updateDraftWorkflow(),   *)
(* addAttachments() and removeAttachment().                                *)
(*                                                                         *)
(* Every handler first reads rows and checks them, and writes later: the   *)
(* two halves are separate steps here (Begin..., Commit...), so that the   *)
(* requests of several users interleave as they do under the databases'    *)
(* default isolation.  transition() protects its writes with a conditional *)
(* update of the documents row; the other handlers write unconditionally.  *)
(*                                                                         *)
(* Dates, names, remarks and permissions that are not bound to a workflow  *)
(* stage are left out; the request's controlled data is one value.         *)
(***************************************************************************)
EXTENDS Naturals, FiniteSets

CONSTANTS
  User, NoUser,    \* accounts
  Creator,         \* documents.created_by
  Managers,        \* creator, assigned users and administrators
  Node, NoNode,    \* node keys of the workflow graphs
  Stage,           \* [Node -> Stages]: the stage column of a node's step
  Qualified,       \* [Node -> SUBSET User]: who holds required_permission
  Resolved,        \* [Node -> User]: whom the node's assignment resolves to
  Plan, NoPlan,    \* published workflow versions
  Graph,           \* [Plan -> plan]: the plan workflowGraphToPlan makes of each
  Reselectable,    \* SUBSET Plan: versions a draft edit may select
  Req,             \* request slots: how many handlers can run at once
  Data,            \* values of the controlled request data
  Att,             \* attachment identities (row and stored file)
  Crashes,         \* whether a handler may die between its steps
  Offered          \* the operations clients call

Outcome == {"approve", "reject", "request-revision"}

Stages == {"NOTED_BY", "PLANT_MANAGER", "DOCUMENT_CONTROLLER_ADMIN",
           "HARDCOPY_APPROVAL", "CUSTOM"}

\* WORKFLOW_STAGE_POLICY[stage].status
StageStatus ==
  [s \in Stages |->
     CASE s = "NOTED_BY"                  -> "ForNotedBy"
       [] s = "PLANT_MANAGER"             -> "ForPlantManagerApproval"
       [] s = "DOCUMENT_CONTROLLER_ADMIN" -> "ForDocumentControllerAdmin"
       [] s = "HARDCOPY_APPROVAL"         -> "ForApproval"
       [] s = "CUSTOM"                    -> "PendingApproval"]

InApproval == {"PendingApproval", "ForApproval", "ForNotedBy",
               "ForPlantManagerApproval", "ForDocumentControllerAdmin"}
Editable   == {"Draft", "ReturnedForCorrection", "ForRevision"}
Finalized  == {"Approved", "Completed"}
Closed     == {"Rejected", "Cancelled", "Disposed"}
Status     == InApproval \cup Editable \cup Finalized \cup Closed

NotCancellable == {"Approved", "Completed", "Disposed", "Cancelled"}

\* addAttachments: attachmentUploadStatuses
Uploadable == {"Draft", "ReturnedForCorrection", "ForNotedBy",
               "ForPlantManagerApproval"}

StepStatus == {"NONE", "QUEUED", "PENDING", "APPROVED", "REJECTED", "RETURNED"}
AttStatus  == {"NONE", "PendingApproval", "Approved", "Rejected", "Deleted"}

Operation == Outcome \cup
  {"submit", "revise", "cancel", "complete", "reassign", "edit", "reselect",
   "attach", "detach"}

\* The plan of a version: its first node, its nodes in sequence and, for each
\* outcome and node, the approval node the outcome leads to (NoNode: none).
PlanRecord == [first : Node,
               nodes : SUBSET Node,
               next  : [Outcome -> [Node -> Node \cup {NoNode}]]]

ASSUME ActorAssumption ==
  /\ Creator \in User /\ NoUser \notin User /\ Managers \subseteq User
  /\ Qualified \in [Node -> SUBSET User]
  /\ Resolved \in [Node -> User]
  /\ IsFiniteSet(Node)

ASSUME GraphAssumption ==
  /\ NoNode \notin Node /\ NoPlan \notin Plan /\ Reselectable \subseteq Plan
  /\ Stage \in [Node -> Stages]
  /\ Graph \in [Plan -> PlanRecord]
  /\ \A p \in Plan : Graph[p].first \in Graph[p].nodes
  /\ \A p \in Plan, a \in Outcome : \A n \in Graph[p].nodes :
        Graph[p].next[a][n] \in (Graph[p].nodes \ {n}) \cup {NoNode}

\* A published version passed validateWorkflowGraph: no set of nodes of its plan is
\* such that each has an outcome leading into the set (PlansAreSound).
ASSUME AcyclicAssumption ==
  \A p \in Plan : \A S \in (SUBSET Graph[p].nodes) \ {{}} :
    \E n \in S : \A a \in Outcome : Graph[p].next[a][n] \notin S

\* The data the workflow depends on: document_type and action_requested
DataRecord == [type : {"SOFTCOPY", "HARDCOPY"}, action : {"CREATE", "CANCELLATION"}]

ASSUME DataAssumption ==
  /\ Data \subseteq DataRecord /\ Crashes \in BOOLEAN
  /\ \A d \in Data : d.type = "HARDCOPY" => d.action = "CREATE"

VARIABLES
  doc,       \* the documents row
  steps,     \* the document_workflow_steps rows, by node_key
  stepPlan,  \* the plan those rows were created from
  audit,     \* the newest document_status_history row
  atts,      \* the softcopy_attachments rows
  files,     \* attachment files on disk
  tx         \* the handlers in flight

vars == <<doc, steps, stepPlan, audit, atts, files, tx>>

-----------------------------------------------------------------------------
(* Rows *)

NoRow == [status |-> "NONE", assignee |-> NoUser, actedBy |-> NoUser, at |-> 0]

\* Mutant: no step is pending at first
NewStep_Queued(p, n) ==
  [status |-> "QUEUED", assignee |-> Resolved[n], actedBy |-> NoUser, at |-> 0]

NewStep(p, n) ==
  [status   |-> IF n = Graph[p].first THEN "PENDING" ELSE "QUEUED",
   assignee |-> Resolved[n], actedBy |-> NoUser, at |-> 0]

\* initializeWorkflowSteps: a plan with an unresolved approver, or one that
\* resolves to the creator or to a user without the permission, is an error.
Submittable(p) ==
  \A n \in Graph[p].nodes : Resolved[n] # Creator /\ Resolved[n] \in Qualified[n]

\* Mutant: every step is pending at first
InitialSteps_AllPending(p) ==
  [n \in Node |-> IF n \in Graph[p].nodes THEN [NewStep(p, n) EXCEPT !.status = "PENDING"]
                                          ELSE NoRow]

InitialSteps(p) ==
  [n \in Node |-> IF n \in Graph[p].nodes THEN NewStep(p, n) ELSE NoRow]

HasSteps == stepPlan # NoPlan

FirstStatus(p) == StageStatus[Stage[Graph[p].first]]

\* transition(): the pending step the current node names, else any pending one
IsActive(n) ==
  /\ n \in Node /\ steps[n].status = "PENDING"
  /\ doc.node \in Node /\ steps[doc.node].status = "PENDING" => n = doc.node

\* acted_at, as a position in the order of decisions
DecisionCount == Cardinality({n \in Node : steps[n].at # 0})

\* complete: the approved step acted on last
IsFinalStep(n) ==
  /\ steps[n].status = "APPROVED"
  /\ \A m \in Node : steps[m].status = "APPROVED" => steps[m].at <= steps[n].at

DecidedStatus == [a \in Outcome |->
  CASE a = "approve" -> "APPROVED" [] a = "reject" -> "REJECTED"
    [] a = "request-revision" -> "RETURNED"]

IsSoftcopy == doc.data.type = "SOFTCOPY"

\* Status of the request when the outcome leads to no further node
EndStatus(a) ==
  CASE a = "approve" -> IF doc.data.action = "CANCELLATION" THEN "Cancelled" ELSE "Approved"
    [] a = "reject" -> "Rejected"
    [] a = "request-revision" -> "ForRevision"

-----------------------------------------------------------------------------
(* Handlers in flight *)

Idle == [pc |-> "idle", op |-> "none", by |-> NoUser,
         status |-> "none", node |-> NoNode,
         step |-> NoNode, next |-> NoNode, to |-> "none",
         user |-> NoUser, plan |-> NoPlan, data |-> {}, atts |-> {},
         fresh |-> FALSE, soft |-> FALSE]

Refused == [Idle EXCEPT !.pc = "refused"]

Free(r) == tx[r].pc \in {"idle", "refused"}

\* What every handler keeps of the documents row it read
Reading(o, u) ==
  [pc |-> "run", op |-> o, by |-> u, status |-> doc.status, node |-> doc.node,
   step |-> NoNode, next |-> NoNode, to |-> "none",
   user |-> NoUser, plan |-> NoPlan, data |-> {}, atts |-> {},
   fresh |-> FALSE, soft |-> FALSE]

Begin(r, o, t) ==
  /\ o \in Offered /\ Free(r)
  /\ tx' = [tx EXCEPT ![r] = t]
  /\ UNCHANGED <<doc, steps, stepPlan, audit, atts, files>>

Running(r, ops) == tx[r].pc = "run" /\ tx[r].op \in ops

Done(r)   == tx' = [tx EXCEPT ![r] = Idle]
Refuse(r) == /\ tx' = [tx EXCEPT ![r] = Refused]
             /\ UNCHANGED <<doc, steps, stepPlan, audit, atts, files>>

\* Mutants: an unconditional update, and one that compares the status only
Unmoved_Always(r)     == TRUE
Unmoved_SameStatus(r) == doc.status = tx[r].status

\* The conditional updateMany at the end of transition()
Unmoved(r) == doc.status = tx[r].status /\ doc.node = tx[r].node

Logged(r) ==
  audit' = [from |-> tx[r].status, to |-> tx[r].to,
            action |-> tx[r].op, by |-> tx[r].by]

-----------------------------------------------------------------------------
(* submit *)

BeginSubmit(r) ==
  /\ doc.status \in Editable
  /\ Begin(r, "submit", [Reading("submit", Creator) EXCEPT !.fresh = ~HasSteps])

\* First submission: initializeWorkflowSteps() inserts the rows and stores the
\* first node key in the documents row before the conditional update, which
\* therefore compares that key, not the stored one, with the key read.
FirstSubmit(r) ==
  LET p == doc.plan IN
  /\ Running(r, {"submit"}) /\ tx[r].fresh
  /\ IF ~Submittable(p)
     THEN Done(r) /\ UNCHANGED <<doc, steps, stepPlan, audit, atts, files>>
     ELSE IF ~HasSteps /\ doc.status = tx[r].status /\ Graph[p].first = tx[r].node
     THEN /\ steps' = InitialSteps(p)
          /\ stepPlan' = p
          /\ doc' = [doc EXCEPT !.status = FirstStatus(p), !.node = Graph[p].first]
          /\ audit' = [from |-> tx[r].status, to |-> FirstStatus(p),
                       action |-> "submit", by |-> Creator]
          /\ Done(r)
          /\ UNCHANGED <<atts, files>>
     ELSE Refuse(r)

ResetSteps(first) ==
  [n \in Node |->
     IF steps[n].status = "NONE" THEN steps[n]
     ELSE [steps[n] EXCEPT !.status = IF n = first THEN "PENDING" ELSE "QUEUED",
                           !.actedBy = NoUser, !.at = 0]]

\* Later submissions put every existing row back
Resubmit(r) ==
  LET first == Graph[stepPlan].first IN
  /\ Running(r, {"submit"}) /\ ~tx[r].fresh
  /\ IF Unmoved(r)
     THEN /\ steps' = ResetSteps(first)
          /\ doc' = [doc EXCEPT !.status = FirstStatus(stepPlan), !.node = first]
          /\ audit' = [from |-> tx[r].status, to |-> FirstStatus(stepPlan),
                       action |-> "submit", by |-> Creator]
          /\ Done(r)
          /\ UNCHANGED <<stepPlan, atts, files>>
     ELSE Refuse(r)

-----------------------------------------------------------------------------
(* approve, reject, request-revision of a pending step *)

\* The assignee of step n, never the creator, and qualified by role or user
MayDecide(u, n) == u = steps[n].assignee /\ u # Creator /\ u \in Qualified[n]

BeginDecide(r, u, a) ==
  \E n \in Node :
    LET next == Graph[stepPlan].next[a][n] IN
    /\ doc.status \in InApproval
    /\ IsActive(n) /\ MayDecide(u, n)
    /\ Begin(r, a,
         [Reading(a, u) EXCEPT
            !.step = n, !.next = next, !.soft = IsSoftcopy,
            !.to = IF next # NoNode THEN StageStatus[Stage[next]] ELSE EndStatus(a)])

\* The step rows after the decision: the other pending steps are queued only
\* when the workflow goes on, before the next one becomes pending, and the
\* decided step is written last.  Mutant: the next one is queued with the others.
Onward_QueueLast(n, t) ==
  IF n = t.next \/ steps[n].status = "PENDING"
  THEN [steps[n] EXCEPT !.status = "QUEUED"] ELSE steps[n]

Onward(n, t) ==
  IF n = t.next THEN [steps[n] EXCEPT !.status = "PENDING"]
  ELSE IF steps[n].status = "PENDING" THEN [steps[n] EXCEPT !.status = "QUEUED"]
  ELSE steps[n]

DecidedSteps(t) ==
  [n \in Node |->
     IF n = t.step
     THEN [steps[n] EXCEPT !.status = DecidedStatus[t.op], !.actedBy = t.by,
                           !.at = DecisionCount + 1]
     ELSE IF t.next = NoNode THEN steps[n] ELSE Onward(n, t)]

\* Mutant: only the Plant Manager's approval counts
ApprovesAttachments_GateOnly(t) ==
  t.op = "approve" /\ t.soft /\ Stage[t.step] = "PLANT_MANAGER"

\* approvePendingSoftcopyAttachments
ApprovesAttachments(t) ==
  /\ t.op = "approve" /\ t.soft
  /\ Stage[t.step] = "PLANT_MANAGER" \/ t.to = "Approved"

\* rejectSoftcopyAttachments
RejectsAttachments(t) == t.op = "reject" /\ t.to = "Rejected"

LiveAtts == {a \in Att : atts[a] \in {"PendingApproval", "Approved"}}

DecidedAtts(t) ==
  [a \in Att |->
     IF ApprovesAttachments(t) /\ atts[a] = "PendingApproval" THEN "Approved"
     ELSE IF RejectsAttachments(t) /\ a \in LiveAtts THEN "Rejected"
     ELSE atts[a]]

CommitDecide(r) ==
  LET t == tx[r] IN
  /\ Running(r, Outcome)
  /\ IF Unmoved(r)
     THEN /\ steps' = DecidedSteps(t)
          /\ doc' = [doc EXCEPT !.status = t.to, !.node = t.next]
          /\ atts' = DecidedAtts(t)
          /\ Logged(r)
          /\ tx' = [tx EXCEPT ![r] =
               IF RejectsAttachments(t)
               THEN [Idle EXCEPT !.pc = "cleanup", !.atts = LiveAtts] ELSE Idle]
          /\ UNCHANGED <<stepPlan, files>>
     ELSE Refuse(r)

\* Mutant: the files are forgotten
RemoveFiles_Forgets(r) ==
  /\ tx[r].pc = "cleanup"
  /\ Done(r)
  /\ UNCHANGED <<doc, steps, stepPlan, audit, atts, files>>

\* Files of rejected attachments are unlinked after the commit
RemoveFiles(r) ==
  /\ tx[r].pc = "cleanup"
  /\ files' = files \ tx[r].atts
  /\ Done(r)
  /\ UNCHANGED <<doc, steps, stepPlan, audit, atts>>

-----------------------------------------------------------------------------
(* cancel, complete, and request-revision of a finalized document *)

BeginCancel(r) ==
  /\ doc.status \notin NotCancellable
  /\ Begin(r, "cancel", [Reading("cancel", Creator) EXCEPT !.to = "Cancelled"])

\* Mutant: the controlled copy is not asked for
HasCopy_Always == TRUE

HasCopy == IsSoftcopy => doc.current

BeginComplete(r, u) ==
  /\ doc.status = "Approved" /\ HasCopy
  /\ \E n \in Node : IsFinalStep(n) /\ u = steps[n].assignee
  /\ Begin(r, "complete", [Reading("complete", u) EXCEPT !.to = "Completed"])

BeginRevise(r, u) ==
  /\ doc.status \in Finalized /\ IsSoftcopy /\ u \in Managers
  /\ Begin(r, "revise", [Reading("revise", u) EXCEPT !.to = "ForRevision"])

CommitStatus(r) ==
  /\ Running(r, {"cancel", "complete", "revise"})
  /\ IF Unmoved(r)
     THEN /\ doc' = [doc EXCEPT !.status = tx[r].to, !.node = NoNode]
          /\ Logged(r)
          /\ Done(r)
          /\ UNCHANGED <<steps, stepPlan, atts, files>>
     ELSE Refuse(r)

-----------------------------------------------------------------------------
(* reassignWorkflowStep *)

BeginReassign(r, n, v) ==
  /\ steps[n].status = "PENDING" /\ v \in Qualified[n]
  /\ Begin(r, "reassign", [Reading("reassign", NoUser) EXCEPT !.step = n, !.user = v])

CommitReassign(r) ==
  /\ Running(r, {"reassign"})
  /\ steps' = [steps EXCEPT ![tx[r].step].assignee = tx[r].user]
  /\ Done(r)
  /\ UNCHANGED <<doc, stepPlan, audit, atts, files>>

-----------------------------------------------------------------------------
(* update: the request's data, and for a draft the workflow version *)

BeginEdit(r, d) ==
  /\ doc.status \in Editable
  /\ Begin(r, "edit", [Reading("edit", NoUser) EXCEPT !.data = {d}])

\* updateDraftWorkflow
BeginReselect(r, p) ==
  /\ doc.status = "Draft" /\ p \in Reselectable
  /\ Begin(r, "reselect", [Reading("reselect", NoUser) EXCEPT !.plan = p])

CommitEdit(r) ==
  /\ Running(r, {"edit", "reselect"})
  /\ doc' = IF tx[r].op = "edit"
            THEN [doc EXCEPT !.data = CHOOSE d \in tx[r].data : TRUE]
            ELSE [doc EXCEPT !.plan = tx[r].plan, !.node = NoNode]
  /\ Done(r)
  /\ UNCHANGED <<steps, stepPlan, audit, atts, files>>

-----------------------------------------------------------------------------
(* addAttachments, removeAttachment *)

\* Mutant: two uploads may get the same stored file name
BeginAttach_SameName(r, a) ==
  /\ IsSoftcopy /\ doc.status \in Uploadable
  /\ atts[a] = "NONE" /\ a \notin files
  /\ Begin(r, "attach", [Reading("attach", NoUser) EXCEPT !.atts = {a}])

BeginAttach(r, a) ==
  /\ IsSoftcopy /\ doc.status \in Uploadable
  /\ atts[a] = "NONE" /\ a \notin files /\ \A q \in Req : a \notin tx[q].atts
  /\ Begin(r, "attach", [Reading("attach", NoUser) EXCEPT !.atts = {a}])

\* moveAttachmentUpload: the file is stored before the row exists
StoreFile(r) ==
  /\ Running(r, {"attach"})
  /\ files' = files \cup tx[r].atts
  /\ tx' = [tx EXCEPT ![r].pc = "stored"]
  /\ UNCHANGED <<doc, steps, stepPlan, audit, atts>>

CommitAttach(r) ==
  /\ tx[r].pc = "stored"
  /\ atts' = [a \in Att |-> IF a \in tx[r].atts THEN "PendingApproval" ELSE atts[a]]
  /\ Done(r)
  /\ UNCHANGED <<doc, steps, stepPlan, audit, files>>

\* The row is deleted.  The file stays: its path is cut to one that is not below the
\* directory of attachments, and the error of its unlink is dropped.
Detach(r, a) ==
  /\ "detach" \in Offered /\ Free(r)
  /\ atts[a] \in {"PendingApproval", "Approved", "Rejected"}
  /\ atts' = [atts EXCEPT ![a] = "Deleted"]
  /\ Done(r)
  /\ UNCHANGED <<doc, steps, stepPlan, audit, files>>

\* The process or its database connection dies: open transactions roll back and
\* the work after a commit is lost.
Crash(r) ==
  /\ Crashes /\ ~Free(r)
  /\ Done(r)
  /\ UNCHANGED <<doc, steps, stepPlan, audit, atts, files>>

-----------------------------------------------------------------------------
(* createRequest: a draft, a submitted request, or a directly created copy *)

Created(s, n, p, d, c) == [status |-> s, node |-> n, plan |-> p, data |-> d, current |-> c]

Init ==
  /\ \E p \in Plan, d \in Data :
       \/ /\ doc = Created("Draft", Graph[p].first, p, d, FALSE)
          /\ steps = [n \in Node |-> NoRow] /\ stepPlan = NoPlan
       \/ /\ Submittable(p)
          /\ doc = Created(FirstStatus(p), Graph[p].first, p, d, FALSE)
          /\ steps = InitialSteps(p) /\ stepPlan = p
       \/ /\ d.type = "SOFTCOPY"
          /\ doc = Created("Completed", NoNode, p, d, TRUE)
          /\ steps = [n \in Node |-> NoRow] /\ stepPlan = NoPlan
  /\ audit = [from |-> "none", to |-> doc.status, action |-> "create", by |-> Creator]
  /\ atts = [a \in Att |-> "NONE"]
  /\ files = {}
  /\ tx = [r \in Req |-> Idle]

Transition(r) ==
  \/ BeginSubmit(r) \/ FirstSubmit(r) \/ Resubmit(r)
  \/ \E u \in User, a \in Outcome : BeginDecide(r, u, a)
  \/ CommitDecide(r) \/ RemoveFiles(r)
  \/ BeginCancel(r)
  \/ \E u \in User : BeginComplete(r, u) \/ BeginRevise(r, u)
  \/ CommitStatus(r)

Editing(r) ==
  \/ \E n \in Node, v \in User : BeginReassign(r, n, v)
  \/ CommitReassign(r)
  \/ \E d \in Data : BeginEdit(r, d)
  \/ \E p \in Plan : BeginReselect(r, p)
  \/ CommitEdit(r)

Attachments(r) ==
  \/ \E a \in Att : BeginAttach(r, a) \/ Detach(r, a)
  \/ StoreFile(r) \/ CommitAttach(r)

Step(r) == Transition(r) \/ Editing(r) \/ Attachments(r) \/ Crash(r)

Next == \E r \in Req : Step(r)

Spec == Init /\ [][Next]_vars

\* A handler that has started runs to its end
Ending(r) ==
  \/ FirstSubmit(r) \/ Resubmit(r) \/ CommitDecide(r) \/ RemoveFiles(r)
  \/ CommitStatus(r) \/ CommitReassign(r) \/ CommitEdit(r)
  \/ StoreFile(r) \/ CommitAttach(r)

-----------------------------------------------------------------------------
(* Type invariant *)

DocRecord == [status : Status, node : Node \cup {NoNode}, plan : Plan,
              data : Data, current : BOOLEAN]

StepRecord == [status : StepStatus, assignee : User \cup {NoUser},
               actedBy : User \cup {NoUser}, at : Nat]

\* A corrected or finalized revision is recorded too, by a user that is left out
AuditRecord == [from : Status \cup {"none"}, to : Status,
                action : Operation \cup {"create", "correct-file", "finalize"},
                by : User \cup {NoUser}]

TxRecord ==
  [pc : {"idle", "run", "stored", "cleanup", "refused"}, op : Operation \cup {"none"},
   by : User \cup {NoUser}, status : Status \cup {"none"},
   node : Node \cup {NoNode}, step : Node \cup {NoNode}, next : Node \cup {NoNode},
   to : Status \cup {"none"}, user : User \cup {NoUser}, plan : Plan \cup {NoPlan},
   data : SUBSET Data, atts : SUBSET Att, fresh : BOOLEAN,
   soft : BOOLEAN]

\* The rows, the files and the handlers in flight have the shapes above.
TypeOK ==
  /\ doc \in DocRecord
  /\ steps \in [Node -> StepRecord]
  /\ stepPlan \in Plan \cup {NoPlan}
  /\ audit \in AuditRecord
  /\ atts \in [Att -> AttStatus]
  /\ files \subseteq Att
  /\ tx \in [Req -> TxRecord]

-----------------------------------------------------------------------------
(* Safety, for handlers that interleave in any order *)

Pending(n) == steps[n].status = "PENDING"
Acted(n)   == steps[n].status \in {"APPROVED", "REJECTED", "RETURNED"}

\* A request under approval has exactly one pending step, its status is that
\* step's stage, and its current node is that step (or was cleared by a draft
\* edit that overlapped the submission): nobody decides two steps at once and
\* the approval queue shows the request to one approver.
OneActiveStep ==
  doc.status \in InApproval =>
    \E n \in Node : /\ Pending(n) /\ \A m \in Node : Pending(m) => m = n
                    /\ doc.status = StageStatus[Stage[n]]
                    /\ doc.node \in {n, NoNode}

\* The creator of a request never decides one of its steps, even when a step
\* is reassigned to the creator while a decision is in flight.
CreatorNeverDecides == \A n \in Node : steps[n].actedBy # Creator

\* An approved or completed request that has steps ended at an approved step
\* which no approval step follows, and no step was decided after it: approval
\* cannot be reached by skipping the rest of the graph.
FinalApproval ==
  doc.status \in Finalized /\ HasSteps =>
    \E n \in Node : /\ IsFinalStep(n) /\ Graph[stepPlan].next["approve"][n] = NoNode
                    /\ \A m \in Node : steps[m].at <= steps[n].at

\* Where the recorded decision of a step leads
Taken(n) ==
  LET a == CHOOSE o \in Outcome : DecidedStatus[o] = steps[n].status
  IN  Graph[stepPlan].next[a][n]

\* The decisions on record form a walk through the graph: every decided step,
\* and the pending one, is the first step or the step a decision led to, and a
\* decision that led on led to a step that is decided or pending.
DecisionTrail ==
  /\ \A n \in Node :
       Acted(n) \/ (Pending(n) /\ doc.status \in InApproval) =>
         n = Graph[stepPlan].first \/ \E m \in Node : Acted(m) /\ Taken(m) = n
  /\ doc.status \in InApproval \cup Finalized =>
       \A n \in Node : Acted(n) /\ Taken(n) # NoNode =>
                         Acted(Taken(n)) \/ Pending(Taken(n))

\* Every status change is recorded in the status history, with the status the
\* request really had at that moment: no transition overwrites another one.
EveryChangeRecorded ==
  [][doc'.status # doc.status =>
       audit'.from = doc.status /\ audit'.to = doc'.status]_vars

\* The file of an attachment that is pending approval or approved is on disk:
\* it is stored before the row and only removed after the row is out of use.
AttachmentFiles == LiveAtts \subseteq files

-----------------------------------------------------------------------------
(* What the handlers' own checks promise.  Each holds while handlers do not
   overlap; under overlap the unconditional writes can break it. *)

\* A decision is recorded only for the user the step is assigned to.
DecisionByAssignee ==
  [][\A n \in Node : steps'[n].actedBy # steps[n].actedBy /\ steps'[n].actedBy # NoUser
        => steps'[n].actedBy = steps[n].assignee]_vars

\* The controlled data of a request changes only while it is a draft or
\* returned for correction.
DataFrozen == [][doc'.data # doc.data => doc.status \in Editable]_vars

\* The attachments of a softcopy share its fate: once it is approved none is left
\* waiting for approval, and once it is rejected none is left in use.
AttachmentsSettled ==
  IsSoftcopy =>
    /\ doc.status \in Finalized => \A a \in Att : atts[a] # "PendingApproval"
    /\ doc.status = "Rejected" => LiveAtts = {}

\* A transition is refused at its conditional update only when the request has
\* moved since it was read.
RefusalMeansChange ==
  [][\A r \in Req : tx[r].pc = "run" /\ tx'[r].pc = "refused" => ~Unmoved(r)]_vars

-----------------------------------------------------------------------------
(* Inductive invariant: what a handler in flight may rely on *)

KnownStep(n) == stepPlan # NoPlan /\ n \in Graph[stepPlan].nodes

RowsExist == \A n \in Node : steps[n].status # "NONE" <=> KnownStep(n)

\* A handler that has read its rows carries a decision the plan allows
HandlerOK(t) ==
  t.pc = "run" =>
    /\ t.status \in Status
    /\ t.op \in Outcome =>
         /\ KnownStep(t.step) /\ t.by \in User \ {Creator}
         /\ IF t.next = NoNode THEN t.to \in Status \ InApproval
            ELSE /\ KnownStep(t.next) /\ t.next # t.step
                 /\ t.to = StageStatus[Stage[t.next]]
    /\ t.op = "submit" /\ ~t.fresh => HasSteps
    /\ t.op \in {"cancel", "complete", "revise"} =>
         t.to \in Status \ InApproval /\ t.by \in User
    /\ t.op = "reassign" => t.step \in Node /\ t.user \in User
    /\ t.op = "edit" => \E d \in Data : t.data = {d}
    /\ t.op = "reselect" => t.plan \in Plan

\* The two invariants above, with what makes them inductive: the step rows are
\* those of the plan, and every decision in flight is one of that plan.
WorkflowInv ==
  /\ TypeOK /\ RowsExist /\ OneActiveStep /\ CreatorNeverDecides
  /\ \A r \in Req : HandlerOK(tx[r])

\* What EndStatus gives, whatever the data
EndStatuses(a) == CASE a = "approve" -> {"Approved", "Cancelled"}
                    [] a = "reject" -> {"Rejected"}
                    [] a = "request-revision" -> {"ForRevision"}

\* What a transition in flight has checked of the status it read, and where it goes
Checked(t) ==
  t.pc = "run" =>
    /\ t.op \in Outcome =>
         /\ t.status \in InApproval
         /\ t.next = Graph[stepPlan].next[t.op][t.step]
         /\ t.next = NoNode => t.to \in EndStatuses(t.op)
    /\ t.op = "submit" => t.status \in Editable
    /\ t.op = "cancel" => t.status \notin NotCancellable /\ t.to = "Cancelled"
    /\ t.op = "complete" => t.status = "Approved" /\ t.to = "Completed"
    /\ t.op = "revise" => t.status \in Finalized /\ t.to = "ForRevision"

\* No recorded decision has a position beyond the next one's
Positions ==
  \A n \in Node : /\ steps[n].at <= DecisionCount + 1
                  /\ steps[n].status = "NONE" => steps[n].at = 0

\* FinalApproval with what makes it inductive: a decision in flight ends the request
\* only where the plan does, and the decision it records is the latest.
ApprovalInv ==
  /\ WorkflowInv /\ Positions /\ FinalApproval
  /\ \A r \in Req : Checked(tx[r])

\* Handlers do not overlap: there is one slot for them
OneAtATime == \A q, r \in Req : q = r

\* A draft's version is selected again only while nothing else is done to it
SelectedAlone == Reselectable = {} \/ OneAtATime

\* Under approval the current node is the pending step, and every decided step led on
OnTrail ==
  doc.status \in InApproval =>
    /\ doc.node \in Node /\ Pending(doc.node)
    /\ \A n \in Node : Acted(n) => Taken(n) # NoNode

\* A decision in flight is for the node it read as the current one
AtNode(t) ==
  t.pc = "run" =>
    /\ t.op \in Outcome => t.step = t.node
    /\ t.op = "reselect" => Reselectable # {} /\ doc.status \notin InApproval

\* DecisionTrail with what makes it inductive, if SelectedAlone: the conditional
\* update's comparison of the current node is one of the pending step.
TrailInv ==
  /\ ApprovalInv /\ DecisionTrail /\ OnTrail
  /\ \A r \in Req : AtNode(tx[r])

\* What a handler that works alone read still holds, uploads and edits included
ReadHolds(t) ==
  /\ t.pc = "run" /\ t.op \in Outcome => t.soft = IsSoftcopy
  /\ t.pc = "run" /\ t.op = "edit" => doc.status \in Editable
  /\ t.pc = "stored" \/ (t.pc = "run" /\ t.op = "attach") => doc.status \in Uploadable

\* AttachmentsSettled with what makes it inductive, if OneAtATime
SettledInv ==
  /\ ApprovalInv /\ AttachmentsSettled
  /\ \A r \in Req : ReadHolds(tx[r])

\* Whose files a handler holds: those of an upload have no row yet and belong to
\* that upload alone, those it is about to unlink belong to rows out of use.
UploadOf(t) == IF t.pc \in {"run", "stored"} THEN t.atts ELSE {}

FilesOK(t) ==
  /\ \A a \in UploadOf(t) : atts[a] = "NONE"
  /\ t.pc = "stored" => t.atts \subseteq files
  /\ t.pc = "cleanup" => \A a \in t.atts : atts[a] \in {"Rejected", "Deleted"}

\* The file of every pending or approved attachment is on disk (AttachmentFiles), with
\* what makes it inductive: an upload's files are its own until their rows exist, and
\* only those of rejected or deleted attachments are unlinked.
FileInv ==
  /\ AttachmentFiles
  /\ \A r \in Req : FilesOK(tx[r])
  /\ \A q, r \in Req : q # r => UploadOf(tx[q]) \cap UploadOf(tx[r]) = {}

-----------------------------------------------------------------------------
(* Refinement: the two-step handlers implement the atomic protocol *)

PhaseOf ==
  [s \in Status |->
     CASE s \in InApproval  -> "review"
       [] s \in Editable    -> "open"
       [] s = "Approved"    -> "approved"
       [] s = "Completed"   -> "completed"
       [] s = "Cancelled"   -> "cancelled"
       [] OTHER             -> "rejected"]

ReviewNode == IF doc.status \in InApproval
              THEN CHOOSE n \in Node : Pending(n) ELSE NoNode

Decisions == [n \in Node |->
  IF Acted(n) THEN CHOOSE o \in Outcome : DecidedStatus[o] = steps[n].status
              ELSE "none"]

Protocol == INSTANCE ApprovalProtocol
  WITH phase <- PhaseOf[doc.status], at <- ReviewNode,
       plan <- stepPlan, decided <- Decisions

\* Reading a request in one step and writing it in another is as good as doing
\* both at once: every interleaving of the handlers is a run of the atomic
\* approval protocol, each commit one of its steps and everything else a stutter.
ImplementsProtocol == Protocol!Spec

-----------------------------------------------------------------------------
(* Liveness.  Handlers that have started are run by the server (weak fairness);
   that approvers look at their queue is an assumption about the users. *)

Approve(r) == \E u \in User : BeginDecide(r, u, "approve")

ServerFairness == \A r \in Req : WF_vars(Ending(r))
UserFairness   == SF_vars(\E r \in Req : Approve(r))

FairSpec == Spec /\ ServerFairness /\ UserFairness

\* A request under approval does not stay there for ever.
ReviewEnds == doc.status \in InApproval ~> doc.status \notin InApproval

\* The files of rejected attachments are eventually removed from disk.
RejectedFilesRemoved ==
  \A a \in Att : (atts[a] = "Rejected" /\ a \in files) ~> a \notin files

=============================================================================
