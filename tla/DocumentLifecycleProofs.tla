----------------------- MODULE DocumentLifecycleProofs -----------------------
(***************************************************************************)
(* Proofs about DocumentLifecycle, for any number of handlers, revisions   *)
(* and disposal requests, on top of those about DocumentWorkflow.          *)
(***************************************************************************)
EXTENDS DocumentLifecycle, DocumentWorkflowProofs

-----------------------------------------------------------------------------
(* Jobs *)

LEMMA NoJobOK ==
  /\ NoJob \in JobRecord /\ NoJob.pc = "idle" /\ NoJob.rev = NoRev
  /\ \A rows : JobOK(NoJob, rows)
BY DEF NoJob, JobRecord, JobOK, Uploading

\* What a handler notes of the documents row is well formed.
LEMMA NotedOK ==
  ASSUME LifecycleInv, NEW o \in LifecycleOps
  PROVE  /\ Noted(o) \in JobRecord /\ Noted(o).pc = "run" /\ Noted(o).op = o
         /\ Noted(o).status = doc.status /\ doc.status \in Status
         /\ Noted(o).before = before /\ Noted(o).rev = NoRev
<1>1. doc.status \in Status /\ before \in Finalized \cup {"none"}
  BY DEF LifecycleInv, WorkflowInv, TypeOK, DocRecord, LifecycleTypeOK
<1>2. NoJob \in JobRecord /\ NoJob.rev = NoRev
  BY NoJobOK
<1> QED BY <1>1, <1>2 DEF Noted, JobRecord

\* The jobs stay well formed when one changes its slot, if no row goes out of being and
\* the rows of other uploads stay unborn.
LEMMA JobSlot ==
  ASSUME LifecycleInv, NEW r \in Req, NEW j \in JobRecord, job' = [job EXCEPT ![r] = j],
         \A v \in Rev : revs[v] # "NONE" => revs'[v] # "NONE",
         \A q \in Req \ {r} : Uploading(job[q]) => /\ revs'[job[q].rev] = "NONE"
                                                   /\ j.rev # job[q].rev,
         Uploading(j) => \A q \in Req \ {r} : job[q].rev # j.rev,
         JobOK(j, revs')
  PROVE  /\ job' \in [Req -> JobRecord] /\ OwnRevision'
         /\ \A q \in Req : JobOK(job'[q], revs')
<1>1. job \in [Req -> JobRecord] /\ OwnRevision /\ \A q \in Req : JobOK(job[q], revs)
  BY DEF LifecycleInv, LifecycleTypeOK
<1>2. \A q \in Req : job'[q] = IF q = r THEN j ELSE job[q]
  BY <1>1
<1>3. job' \in [Req -> JobRecord]
  BY <1>1
<1>4. OwnRevision'
  BY <1>1, <1>2 DEF OwnRevision, Uploading
<1>5. ASSUME NEW q \in Req PROVE JobOK(job'[q], revs')
  <2>1. CASE q = r
    BY <1>2, <2>1
  <2>2. CASE q # r
    <3>1. job'[q] = job[q] /\ JobOK(job[q], revs)
      BY <1>1, <1>2, <2>2
    <3>2. Uploading(job[q]) => revs'[job[q].rev] = "NONE"
      BY <2>2
    <3> QED BY <3>1, <3>2 DEF JobOK
  <2> QED BY <2>1, <2>2
<1> QED BY <1>3, <1>4, <1>5

\* A handler begins.
LEMMA StartInv ==
  ASSUME LifecycleInv, NEW r \in Req, NEW j \in JobRecord, Start(r, j), JobOK(j, revs),
         \A q \in Req : Uploading(job[q]) => j.rev # job[q].rev,
         Uploading(j) => \A q \in Req : job[q].rev # j.rev
  PROVE  LifecycleInv'
<1>1. job' = [job EXCEPT ![r] = j] /\ UNCHANGED <<vars, revs, current, before, tickets>>
  BY DEF Start
<1>2. \A q \in Req : Uploading(job[q]) => revs[job[q].rev] = "NONE"
  BY DEF LifecycleInv, JobOK
<1>3. job' \in [Req -> JobRecord] /\ OwnRevision' /\ \A q \in Req : JobOK(job'[q], revs')
  BY <1>1, <1>2, JobSlot
<1>4. WorkflowInv'
  BY <1>1, NextInv DEF LifecycleInv
<1> QED BY <1>1, <1>3, <1>4 DEF LifecycleInv, LifecycleTypeOK, CurrentStored

\* A handler ends; it may have written rows.
LEMMA FinishInv ==
  ASSUME LifecycleInv, WorkflowInv', NEW r \in Req, Finish(r),
         revs' \in [Rev -> RevStatus], current' \in Rev \cup {NoRev},
         before' \in Finalized \cup {"none"}, tickets' \in [Ticket -> TicketStatus],
         CurrentStored',
         \A v \in Rev : revs[v] # "NONE" => revs'[v] # "NONE",
         \A q \in Req \ {r} : Uploading(job[q]) => revs'[job[q].rev] = "NONE"
  PROVE  LifecycleInv'
<1>1. \A q \in Req \ {r} : Uploading(job[q]) => NoRev # job[q].rev
  BY RevisionAssumption DEF LifecycleInv, JobOK
<1>2. ~Uploading(NoJob)
  BY NoJobOK DEF Uploading
<1>3. job' \in [Req -> JobRecord] /\ OwnRevision' /\ \A q \in Req : JobOK(job'[q], revs')
  BY <1>1, <1>2, NoJobOK, JobSlot DEF Finish
<1> QED BY <1>3 DEF LifecycleInv, LifecycleTypeOK

\* The handlers of this module write no approval status, and leave the steps alone.
LEMMA StatusWritten ==
  ASSUME WorkflowInv, doc' \in DocRecord, doc'.status \notin InApproval,
         audit' \in AuditRecord, UNCHANGED WorkflowRows
  PROVE  WorkflowInv'
<1>1. TypeOK'
  BY DEF WorkflowInv, TypeOK, WorkflowRows
<1>2. RowsExist' /\ OneActiveStep' /\ CreatorNeverDecides'
  BY DEF WorkflowInv, WorkflowRows, RowsExist, KnownStep, OneActiveStep, CreatorNeverDecides
<1>3. \A q \in Req : HandlerOK(tx[q])'
  BY DEF WorkflowInv, WorkflowRows, HandlerOK, KnownStep, HasSteps
<1> QED BY <1>1, <1>2, <1>3 DEF WorkflowInv

LEMMA HistoryOK ==
  ASSUME NEW j, j.status \in Status, j.op \in {"correct-file", "finalize"}, NEW to \in Status
  PROVE  History(j, to) \in AuditRecord
BY DEF History, AuditRecord

-----------------------------------------------------------------------------
(* Revisions *)

LEMMA BeginUploadInv ==
  ASSUME LifecycleInv, NEW r \in Req, NEW v \in Rev, NEW kind \in UploadKind,
         BeginUpload(r, v, kind)
  PROVE  LifecycleInv'
<1> DEFINE j == [Noted(kind) EXCEPT !.rev = v]
<1>1. kind \in LifecycleOps
  BY DEF LifecycleOps
<1>2. Noted(kind) \in JobRecord /\ Noted(kind).pc = "run" /\ Noted(kind).op = kind
      /\ Noted(kind).status = doc.status /\ doc.status \in Status
  BY <1>1, NotedOK
<1>3. /\ j \in JobRecord /\ j.pc = "run" /\ j.op = kind /\ j.rev = v /\ j.status = doc.status
  BY <1>2 DEF JobRecord
<1>4. Start(r, j) /\ revs[v] = "NONE" /\ \A q \in Req : job[q].rev # v
  BY DEF BeginUpload
<1>5. kind = "correct-file" => doc.status \in Finalized
  BY DEF BeginUpload
<1> HIDE DEF j
<1>6. JobOK(j, revs)
  BY <1>1, <1>2, <1>3, <1>4, <1>5 DEF JobOK, UploadKind
<1> QED BY <1>3, <1>4, <1>6, StartInv

LEMMA FinalizingOK ==
  ASSUME LifecycleInv, NEW v \in Rev, Finalizable(v)
  PROVE  /\ Finalizing(v) \in JobRecord /\ Finalizing(v).pc = "run"
         /\ Finalizing(v).op = "finalize" /\ Finalizing(v).rev = v
         /\ Finalizing(v).status = doc.status /\ Finalizing(v).before = before
         /\ Finalizing(v).current = current
         /\ JobOK(Finalizing(v), revs) /\ ~Uploading(Finalizing(v))
<1> DEFINE j == Finalizing(v)
<1>1. "finalize" \in LifecycleOps
  BY DEF LifecycleOps
<1>2. Noted("finalize") \in JobRecord /\ Noted("finalize").pc = "run"
      /\ Noted("finalize").op = "finalize" /\ Noted("finalize").before = before
      /\ Noted("finalize").status = doc.status /\ doc.status \in Status
  BY <1>1, NotedOK
<1>3. current \in Rev \cup {NoRev} /\ CurrentStored
  BY DEF LifecycleInv, LifecycleTypeOK
<1>4. /\ j \in JobRecord /\ j.pc = "run" /\ j.op = "finalize" /\ j.rev = v
      /\ j.status = doc.status /\ j.current = current /\ j.before = before
  BY <1>2, <1>3 DEF Finalizing, JobRecord
<1> HIDE DEF j
<1>5. JobOK(j, revs) /\ ~Uploading(j)
  BY <1>1, <1>2, <1>3, <1>4 DEF JobOK, Uploading, UploadKind, Finalizable, CurrentStored
<1> QED BY <1>4, <1>5 DEF j

LEMMA BeginFinalizeInv ==
  ASSUME LifecycleInv, NEW r \in Req, NEW v \in Rev, BeginFinalize(r, v)
  PROVE  LifecycleInv'
<1>1. Finalizable(v) /\ Start(r, Finalizing(v))
  BY DEF BeginFinalize
<1>2. \A q \in Req : Uploading(job[q]) => v # job[q].rev
  BY <1>1 DEF Finalizable, LifecycleInv, JobOK
<1> QED BY <1>1, <1>2, FinalizingOK, StartInv

LEMMA StoreRevisionInv ==
  ASSUME LifecycleInv, NEW r \in Req, StoreRevision(r)
  PROVE  LifecycleInv'
<1> DEFINE j == job[r]
           on == j.op = "correct-file" \/ (j.op = "upload-current" /\ j.status = "Approved")
           k == IF on THEN [j EXCEPT !.pc = "stored"] ELSE NoJob
<1>1. /\ Uploading(j) /\ revs' = [revs EXCEPT ![j.rev] = "UPLOADED"]
      /\ job' = [job EXCEPT ![r] = k] /\ UNCHANGED <<vars, current, before, tickets>>
  BY DEF StoreRevision, Uploading
<1>2. /\ job \in [Req -> JobRecord] /\ revs \in [Rev -> RevStatus] /\ OwnRevision
      /\ \A q \in Req : JobOK(job[q], revs)
  BY DEF LifecycleInv, LifecycleTypeOK
<1>3. j \in JobRecord /\ j.rev \in Rev /\ JobOK(j, revs)
  BY <1>1, <1>2 DEF JobOK
<1>4. revs' \in [Rev -> RevStatus] /\ \A v \in Rev : revs[v] # "NONE" => revs'[v] # "NONE"
  BY <1>1, <1>2 DEF RevStatus
<1>5. \A q \in Req \ {r} : Uploading(job[q]) => revs'[job[q].rev] = "NONE" /\ job[q].rev # j.rev
  <2> SUFFICES ASSUME NEW q \in Req \ {r}, Uploading(job[q])
               PROVE  revs'[job[q].rev] = "NONE" /\ job[q].rev # j.rev
    OBVIOUS
  <2>1. job[q].rev \in Rev /\ revs[job[q].rev] = "NONE"
    BY <1>2 DEF JobOK
  <2>2. j.rev # job[q].rev
    BY <1>2 DEF OwnRevision
  <2> QED BY <1>1, <1>2, <2>1, <2>2
<1>6. /\ k \in JobRecord /\ JobOK(k, revs') /\ ~Uploading(k)
      /\ \A q \in Req \ {r} : Uploading(job[q]) => k.rev # job[q].rev
  <2>1. CASE on
    <3>1. /\ k \in JobRecord /\ k.pc = "stored" /\ k.op = j.op /\ k.rev = j.rev
          /\ k.status = j.status /\ k.agreed = j.agreed /\ k.ticket = j.ticket
      BY <1>3, <2>1 DEF JobRecord
    <3>2. j.op \in UploadKind /\ j.pc = "run"
      BY <1>1 DEF Uploading
    <3> HIDE DEF k
    <3> QED BY <1>3, <1>5, <3>1, <3>2 DEF JobOK, Uploading
  <2>2. CASE ~on
    <3>1. \A q \in Req \ {r} : Uploading(job[q]) => NoRev # job[q].rev
      BY <1>2, RevisionAssumption DEF JobOK
    <3> QED BY <2>2, <3>1, NoJobOK DEF Uploading
  <2> QED BY <2>1, <2>2
<1> HIDE DEF k
<1>7. job' \in [Req -> JobRecord] /\ OwnRevision' /\ \A q \in Req : JobOK(job'[q], revs')
  BY <1>1, <1>4, <1>5, <1>6, JobSlot
<1>8. WorkflowInv' /\ CurrentStored'
  BY <1>1, <1>4, NextInv DEF LifecycleInv, CurrentStored
<1> QED BY <1>1, <1>4, <1>7, <1>8 DEF LifecycleInv, LifecycleTypeOK

LEMMA CommitCorrectionInv ==
  ASSUME LifecycleInv, NEW r \in Req, CommitCorrection(r)
  PROVE  LifecycleInv'
<1>1. WorkflowInv /\ LifecycleTypeOK /\ JobOK(job[r], revs) /\ doc \in DocRecord
  BY DEF LifecycleInv, WorkflowInv, TypeOK
<1>2. /\ doc' = [doc EXCEPT !.status = "ForRevision", !.node = NoNode]
      /\ audit' = History(job[r], "ForRevision")
      /\ job[r].op = "correct-file" /\ job[r].status \in Status
  BY <1>1 DEF CommitCorrection, At, JobOK
<1>3. "ForRevision" \in Status \ InApproval
  BY DEF Status, Editable, InApproval
<1>4. doc' \in DocRecord /\ doc'.status = "ForRevision" /\ audit' \in AuditRecord
  BY <1>1, <1>2, <1>3, HistoryOK DEF DocRecord
<1>5. WorkflowInv'
  BY <1>1, <1>3, <1>4, StatusWritten DEF CommitCorrection
<1>6. \A q \in Req : Uploading(job[q]) => revs[job[q].rev] = "NONE"
  BY DEF LifecycleInv, JobOK
<1> QED BY <1>1, <1>5, <1>6, FinishInv
        DEF CommitCorrection, LifecycleInv, LifecycleTypeOK, CurrentStored

LEMMA ContinueFinalizeInv ==
  ASSUME LifecycleInv, NEW r \in Req, ContinueFinalize(r)
  PROVE  LifecycleInv'
<1> DEFINE v == job[r].rev
           k == IF Finalizable(v) THEN Finalizing(v) ELSE NoJob
<1>1. job' = [job EXCEPT ![r] = k] /\ UNCHANGED <<vars, revs, current, before, tickets>>
  BY DEF ContinueFinalize
<1>2. \A q \in Req : JobOK(job[q], revs)
  BY DEF LifecycleInv
<1>3. v \in Rev
  BY <1>2 DEF ContinueFinalize, At, JobOK
<1>4. \A q \in Req : Uploading(job[q]) => /\ revs[job[q].rev] = "NONE"
                                          /\ NoRev # job[q].rev
                                          /\ Finalizable(v) => v # job[q].rev
  BY <1>2, <1>3, RevisionAssumption DEF JobOK, Finalizable
<1>5. /\ k \in JobRecord /\ JobOK(k, revs) /\ ~Uploading(k)
      /\ \A q \in Req : Uploading(job[q]) => k.rev # job[q].rev
  <2>1. CASE Finalizable(v)
    BY <1>3, <1>4, <2>1, FinalizingOK
  <2>2. CASE ~Finalizable(v)
    BY <1>4, <2>2, NoJobOK DEF Uploading
  <2> QED BY <2>1, <2>2
<1> HIDE DEF k
<1>6. job' \in [Req -> JobRecord] /\ OwnRevision' /\ \A q \in Req : JobOK(job'[q], revs')
  BY <1>1, <1>4, <1>5, JobSlot
<1>7. WorkflowInv'
  BY <1>1, NextInv DEF LifecycleInv
<1> QED BY <1>1, <1>6, <1>7 DEF LifecycleInv, LifecycleTypeOK, CurrentStored

LEMMA CommitFinalizeInv ==
  ASSUME LifecycleInv, NEW r \in Req, CommitFinalize(r)
  PROVE  LifecycleInv'
<1> DEFINE j == job[r]
<1>1. /\ WorkflowInv /\ LifecycleTypeOK /\ OwnRevision /\ doc \in DocRecord
      /\ \A q \in Req : JobOK(job[q], revs)
  BY DEF LifecycleInv, WorkflowInv, TypeOK
<1>2. /\ j.op = "finalize" /\ j.status \in Status /\ j.rev \in Rev /\ revs[j.rev] # "NONE"
      /\ j.current \in Rev => revs[j.current] # "NONE"
  BY <1>1 DEF CommitFinalize, At, JobOK
<1>3. /\ doc' = [doc EXCEPT !.status = "Completed", !.node = NoNode, !.current = TRUE]
      /\ audit' = History(j, "Completed") /\ current' = j.rev /\ revs' = FinalizedRevs(j)
      /\ Finish(r) /\ UNCHANGED <<WorkflowRows, before, tickets>>
  BY DEF CommitFinalize
<1>4. "Completed" \in Status \ InApproval
  BY DEF Status, Finalized, InApproval
<1>5. WorkflowInv'
  <2>1. doc' \in DocRecord /\ doc'.status = "Completed"
    BY <1>1, <1>3, <1>4 DEF DocRecord
  <2>2. audit' \in AuditRecord
    BY <1>2, <1>3, <1>4, HistoryOK
  <2> QED BY <1>1, <1>3, <1>4, <2>1, <2>2, StatusWritten
<1>6. /\ revs' \in [Rev -> RevStatus]
      /\ \A v \in Rev : revs'[v] = IF v = j.rev THEN "CURRENT"
                                    ELSE IF v = j.current THEN "HISTORICAL" ELSE revs[v]
  BY <1>1, <1>3 DEF FinalizedRevs, LifecycleTypeOK, RevStatus
<1>7. CurrentStored' /\ \A v \in Rev : revs[v] # "NONE" => revs'[v] # "NONE"
  BY <1>3, <1>6 DEF CurrentStored
<1>8. \A q \in Req : Uploading(job[q]) => revs'[job[q].rev] = "NONE"
  <2> SUFFICES ASSUME NEW q \in Req, Uploading(job[q]) PROVE revs'[job[q].rev] = "NONE"
    OBVIOUS
  <2>1. job[q].rev \in Rev /\ revs[job[q].rev] = "NONE"
    BY <1>1 DEF JobOK
  <2> QED BY <1>2, <1>6, <2>1
<1> QED BY <1>1, <1>2, <1>3, <1>5, <1>6, <1>7, <1>8, FinishInv DEF LifecycleTypeOK

-----------------------------------------------------------------------------
(* Disposal *)

LEMMA BeginDisposalInv ==
  ASSUME LifecycleInv, NEW r \in Req,
         \/ BeginDispose(r) \/ BeginRequest(r) \/ BeginRestore(r)
         \/ \E k \in Ticket, agreed \in BOOLEAN : BeginReview(r, k, agreed)
  PROVE  LifecycleInv'
<1>1. \A q \in Req : Uploading(job[q]) => NoRev # job[q].rev
  BY RevisionAssumption DEF LifecycleInv, JobOK
<1>2. ASSUME NEW o \in {"dispose", "request", "restore"}, Start(r, Noted(o)),
             o = "dispose" => doc.status \in Finalized
      PROVE  LifecycleInv'
  <2> DEFINE j == Noted(o)
  <2>1. o \in LifecycleOps /\ o \notin UploadKind
    BY DEF LifecycleOps, UploadKind
  <2>2. /\ j \in JobRecord /\ j.pc = "run" /\ j.op = o /\ j.rev = NoRev
        /\ j.status = doc.status /\ doc.status \in Status
    BY <2>1, NotedOK
  <2> HIDE DEF j
  <2>3. JobOK(j, revs) /\ ~Uploading(j)
    BY <1>2, <2>1, <2>2 DEF JobOK, Uploading
  <2> QED BY <1>1, <1>2, <2>2, <2>3, StartInv DEF j
<1>3. ASSUME NEW k \in Ticket, NEW agreed \in BOOLEAN, BeginReview(r, k, agreed)
      PROVE  LifecycleInv'
  <2> DEFINE j == [Noted("review") EXCEPT !.ticket = k, !.agreed = agreed]
  <2>1. "review" \in LifecycleOps /\ "review" \notin UploadKind
    BY DEF LifecycleOps, UploadKind
  <2>2. /\ Noted("review") \in JobRecord /\ Noted("review").pc = "run"
        /\ Noted("review").op = "review" /\ Noted("review").rev = NoRev
        /\ Noted("review").status = doc.status /\ doc.status \in Status
    BY <2>1, NotedOK
  <2>3. /\ j \in JobRecord /\ j.pc = "run" /\ j.op = "review" /\ j.rev = NoRev
        /\ j.status = doc.status /\ j.ticket = k /\ j.agreed = agreed
    BY <2>2 DEF JobRecord
  <2>4. Start(r, j) /\ (agreed => doc.status \in Finalized)
    BY <1>3 DEF BeginReview
  <2> HIDE DEF j
  <2>5. JobOK(j, revs) /\ ~Uploading(j)
    BY <2>1, <2>2, <2>3, <2>4 DEF JobOK, Uploading
  <2> QED BY <1>1, <2>3, <2>4, <2>5, StartInv
<1> QED BY <1>2, <1>3 DEF BeginDispose, BeginRequest, BeginRestore

\* What the four commits write: the status, the column that remembers it, and a ticket.
LEMMA CommitDisposalInv ==
  ASSUME LifecycleInv, NEW r \in Req,
         CommitDispose(r) \/ CommitRequest(r) \/ CommitReview(r) \/ CommitRestore(r) \/ CrashJob(r)
  PROVE  LifecycleInv'
<1> DEFINE j == job[r]
<1>1. /\ WorkflowInv /\ LifecycleTypeOK /\ CurrentStored /\ doc \in DocRecord
      /\ audit \in AuditRecord /\ j \in JobRecord /\ JobOK(j, revs)
      /\ \A q \in Req : Uploading(job[q]) => revs[job[q].rev] = "NONE"
  BY DEF LifecycleInv, LifecycleTypeOK, WorkflowInv, TypeOK, JobOK
<1>2. Finish(r) /\ UNCHANGED <<audit, WorkflowRows, revs, current>>
  BY DEF CommitDispose, CommitRequest, CommitReview, CommitRestore, CrashJob, vars, WorkflowRows
<1>3. tickets' \in [Ticket -> TicketStatus]
  <2>1. CASE CommitReview(r)
    BY <1>1, <2>1 DEF CommitReview, LifecycleTypeOK, TicketStatus
  <2> QED BY <1>1, <2>1 DEF CommitDispose, CommitRequest, CommitRestore, CrashJob,
                            LifecycleTypeOK, TicketStatus
<1>4. \/ UNCHANGED <<doc, before>>
      \/ \E s \in Finalized \cup {"Disposed"} :
           doc' = [doc EXCEPT !.status = s] /\ before' \in Finalized \cup {"none"}
  <2>1. CASE CommitRequest(r) \/ CrashJob(r)
    BY <2>1 DEF CommitRequest, CrashJob, vars
  <2>2. CASE CommitRestore(r)
    <3>1. (IF j.before = "none" THEN "Approved" ELSE j.before) \in Finalized
      BY <1>1 DEF JobRecord, Finalized
    <3> QED BY <2>2, <3>1 DEF CommitRestore
  <2>3. CASE Disposing(j) /\ j.status \in Finalized
    BY <1>1, <2>3 DEF Disposing, JobRecord
  <2>4. CASE CommitDispose(r)
    BY <1>1, <2>3, <2>4 DEF CommitDispose, At, JobOK
  <2>5. CASE CommitReview(r)
    BY <1>1, <2>3, <2>5 DEF CommitReview, At, JobOK
  <2> QED BY <2>1, <2>2, <2>4, <2>5
<1>5. WorkflowInv' /\ before' \in Finalized \cup {"none"}
  <2>1. CASE UNCHANGED <<doc, before>>
    BY <1>1, <1>2, <2>1, NextInv DEF WorkflowRows, vars, LifecycleTypeOK
  <2>2. ASSUME NEW s \in Finalized \cup {"Disposed"}, doc' = [doc EXCEPT !.status = s]
        PROVE  WorkflowInv'
    <3>1. s \in Status \ InApproval
      BY DEF Status, Finalized, Closed, InApproval
    <3>2. doc' \in DocRecord /\ doc'.status = s
      BY <1>1, <2>2, <3>1 DEF DocRecord
    <3> QED BY <1>1, <1>2, <3>1, <3>2, StatusWritten
  <2> QED BY <1>4, <2>1, <2>2
<1> QED BY <1>1, <1>2, <1>3, <1>5, FinishInv DEF LifecycleTypeOK, CurrentStored

-----------------------------------------------------------------------------
(* The invariant of every overlap *)

\* Steps of DocumentWorkflow leave this module's state alone.
LEMMA WorkflowStepInv ==
  ASSUME LifecycleInv, [Next]_vars, UNCHANGED lvars
  PROVE  LifecycleInv'
<1>1. WorkflowInv'
  BY NextInv DEF LifecycleInv
<1> QED BY <1>1 DEF LifecycleInv, lvars, LifecycleTypeOK, OwnRevision, Uploading, CurrentStored,
                    JobOK

LEMMA LifecycleInvInit == LifecycleInit => LifecycleInv
<1> SUFFICES ASSUME LifecycleInit PROVE LifecycleInv
  OBVIOUS
<1>1. WorkflowInv
  BY InitInv DEF LifecycleInit
<1>2. \A r \in Req : job[r] = NoJob
  BY DEF LifecycleInit
<1>3. /\ revs \in [Rev -> RevStatus] /\ current \in Rev \cup {NoRev}
      /\ current \in Rev => revs[current] # "NONE"
  BY RevisionAssumption DEF LifecycleInit, OneRev, RevStatus
<1>4. LifecycleTypeOK
  BY <1>3, NoJobOK DEF LifecycleInit, LifecycleTypeOK, TicketStatus
<1>5. OwnRevision /\ \A r \in Req : JobOK(job[r], revs)
  BY <1>2, NoJobOK DEF OwnRevision, Uploading
<1> QED BY <1>1, <1>3, <1>4, <1>5 DEF LifecycleInv, CurrentStored

LEMMA LifecycleInvNext == LifecycleInv /\ [LifecycleNext]_<<vars, lvars>> => LifecycleInv'
<1> SUFFICES ASSUME LifecycleInv, [LifecycleNext]_<<vars, lvars>> PROVE LifecycleInv'
  OBVIOUS
<1>1. CASE UNCHANGED <<vars, lvars>>
  BY <1>1, WorkflowStepInv
<1>2. ASSUME NEW r \in Req, Step(r), UNCHANGED lvars
      PROVE  LifecycleInv'
  BY <1>2, WorkflowStepInv DEF Next
<1>3. ASSUME NEW r \in Req, Revising(r)
      PROVE  LifecycleInv'
  BY <1>3, BeginUploadInv, StoreRevisionInv, CommitCorrectionInv, BeginFinalizeInv,
     ContinueFinalizeInv, CommitFinalizeInv DEF Revising
<1>4. ASSUME NEW r \in Req, Disposal(r) \/ CrashJob(r)
      PROVE  LifecycleInv'
  BY <1>4, BeginDisposalInv, CommitDisposalInv DEF Disposal
<1> QED BY <1>1, <1>2, <1>3, <1>4 DEF LifecycleNext

\* However revisions, finalizations, disposals and restores overlap with one another and
\* with the approval, the rows are well formed and the request's own invariant holds.
THEOREM LifecycleSafe == LifecycleSpec => []LifecycleInv
BY LifecycleInvInit, LifecycleInvNext, PTL DEF LifecycleSpec

\* createRevision, finalizeRevision and the disposal handlers write the documents row
\* unconditionally, and never give a request under approval a second pending step.
THEOREM OnePendingStepStill == LifecycleSpec => []OneActiveStep
<1>1. LifecycleInv => OneActiveStep
  BY DEF LifecycleInv, WorkflowInv
<1> QED BY <1>1, LifecycleSafe, PTL

-----------------------------------------------------------------------------
(* What a step does, for the invariants below *)

BeginsJob(r) ==
  \/ \E v \in Rev, kind \in UploadKind : BeginUpload(r, v, kind)
  \/ \E v \in Rev : BeginFinalize(r, v)
  \/ ContinueFinalize(r) \/ BeginDispose(r) \/ BeginRequest(r) \/ BeginRestore(r)
  \/ \E k \in Ticket, agreed \in BOOLEAN : BeginReview(r, k, agreed)

\* A handler that begins has the row it has just read.
JustRead(k) ==
  k.pc # "idle" => /\ k.status = doc.status /\ k.before = before
                   /\ k.op = "finalize" => k.current = current
                   /\ k.op = "request" => \A t \in Ticket : tickets[t] # "Pending"

LEMMA StartsJob ==
  ASSUME LifecycleInv, NEW r \in Req, BeginsJob(r)
  PROVE  /\ UNCHANGED <<vars, revs, current, before, tickets>>
         /\ Free(r) \/ job[r].pc # "idle"
         /\ \E k : job' = [job EXCEPT ![r] = k] /\ JustRead(k)
<1> SUFFICES \E k : /\ job' = [job EXCEPT ![r] = k] /\ JustRead(k)
                    /\ UNCHANGED <<vars, revs, current, before, tickets>>
                    /\ Free(r) \/ job[r].pc # "idle"
  OBVIOUS
<1>1. ASSUME NEW k, JustRead(k), Start(r, k)
      PROVE  \E l : /\ job' = [job EXCEPT ![r] = l] /\ JustRead(l)
                    /\ UNCHANGED <<vars, revs, current, before, tickets>>
                    /\ Free(r) \/ job[r].pc # "idle"
  BY <1>1 DEF Start, JobFree
<1>2. \A o \in LifecycleOps : /\ Noted(o) \in JobRecord /\ Noted(o).op = o
                              /\ Noted(o).status = doc.status /\ Noted(o).before = before
  BY NotedOK
<1>3. ASSUME NEW v \in Rev, NEW kind \in UploadKind, BeginUpload(r, v, kind)
      PROVE  JustRead([Noted(kind) EXCEPT !.rev = v])
  BY <1>2 DEF JustRead, LifecycleOps, UploadKind, JobRecord
<1>4. ASSUME NEW v \in Rev, Finalizable(v)
      PROVE  JustRead(Finalizing(v))
  BY <1>4, FinalizingOK DEF JustRead
<1>5. CASE ContinueFinalize(r)
  <2>1. job[r].rev \in Rev
    BY <1>5 DEF ContinueFinalize, At, LifecycleInv, JobOK
  <2>2. JustRead(NoJob)
    BY NoJobOK DEF JustRead
  <2> QED BY <1>4, <1>5, <2>1, <2>2 DEF ContinueFinalize, At
<1>6. ASSUME NEW o \in {"dispose", "restore"} PROVE JustRead(Noted(o))
  BY <1>2 DEF JustRead, LifecycleOps
<1>7. CASE BeginRequest(r)
  <2>1. JustRead(Noted("request"))
    BY <1>2, <1>7 DEF BeginRequest, JustRead, LifecycleOps
  <2> QED BY <1>1, <1>7, <2>1 DEF BeginRequest
<1>8. ASSUME NEW k \in Ticket, NEW agreed \in BOOLEAN, BeginReview(r, k, agreed)
      PROVE  JustRead([Noted("review") EXCEPT !.ticket = k, !.agreed = agreed])
  BY <1>2 DEF JustRead, LifecycleOps, JobRecord
<1> QED BY <1>1, <1>3, <1>4, <1>5, <1>6, <1>7, <1>8
        DEF BeginsJob, BeginUpload, BeginFinalize, BeginDispose, BeginRestore, BeginReview

\* Transitions, submissions and edits do not touch disposed documents or dispose one,
\* complete only what was to be completed, and never take the copy away.
LEMMA WorkflowMoves ==
  ASSUME WorkflowInv, \A q \in Req : Checked(tx[q]), [Next]_vars
  PROVE  /\ doc'.current = doc.current
         /\ doc'.status = "Disposed" <=> doc.status = "Disposed"
         /\ doc'.status = "Completed" =>
              \/ doc.status = "Completed"
              \/ \E q \in Req : tx[q].pc = "run" /\ tx[q].op = "complete"
         /\ \/ doc'.data = doc.data
            \/ \E q \in Req : tx[q].pc = "run" /\ tx[q].op = "edit" /\ doc'.data \in Data
<1>1. doc \in DocRecord
  BY DEF WorkflowInv, TypeOK
<1>2. CASE UNCHANGED <<doc, steps, stepPlan>>
  BY <1>2
<1>3. ASSUME NEW r \in Req, FirstSubmitted(r) \/ Resubmitted(r)
      PROVE  /\ doc'.current = doc.current /\ doc'.data = doc.data
             /\ doc.status # "Disposed" /\ doc'.status \in InApproval
  <2>1. doc.status \in Editable
    BY <1>3 DEF FirstSubmitted, Resubmitted, Checked
  <2>2. PICK p \in Plan : doc' = [doc EXCEPT !.status = FirstStatus(p), !.node = Graph[p].first]
    BY <1>1, <1>3 DEF FirstSubmitted, Resubmitted, HasSteps, WorkflowInv, TypeOK, DocRecord
  <2>3. FirstStatus(p) \in InApproval
    BY StageStatusOK, GraphAssumption DEF FirstStatus, PlanRecord
  <2> QED BY <1>1, <2>1, <2>2, <2>3 DEF DocRecord, Editable
<1>4. ASSUME NEW r \in Req, Decided(r) \/ Moved(r)
      PROVE  /\ doc'.current = doc.current /\ doc'.data = doc.data
             /\ doc.status # "Disposed" /\ doc'.status # "Disposed"
             /\ doc'.status = "Completed" => tx[r].pc = "run" /\ tx[r].op = "complete"
  <2>1. /\ doc'.status = tx[r].to /\ doc'.current = doc.current /\ doc'.data = doc.data
        /\ doc.status = tx[r].status /\ tx[r].pc = "run"
    BY <1>1, <1>4 DEF Decided, Moved, Unmoved, DocRecord
  <2>2. Checked(tx[r])
    OBVIOUS
  <2>3. CASE Decided(r)
    <3>1. tx[r].next # NoNode => tx[r].to \in InApproval
      <4>1. tx[r].next # NoNode => tx[r].next \in Node
        BY <2>3, DecidedRows
      <4>2. HandlerOK(tx[r])
        BY DEF WorkflowInv
      <4> QED BY <2>3, <4>1, <4>2, StageStatusOK, GraphAssumption DEF HandlerOK, Decided
    <3> QED BY <2>1, <2>2, <2>3, <3>1
            DEF Decided, Checked, EndStatuses, Outcome, InApproval
  <2>4. CASE Moved(r)
    BY <2>1, <2>2, <2>4 DEF Moved, Checked, NotCancellable, Finalized
  <2> QED BY <1>4, <2>3, <2>4
<1>5. ASSUME NEW r \in Req, Edited(r)
      PROVE  /\ doc'.current = doc.current /\ doc'.status = doc.status
             /\ \/ doc'.data = doc.data
                \/ tx[r].pc = "run" /\ tx[r].op = "edit" /\ doc'.data \in Data
  BY <1>1, <1>5 DEF Edited, DocRecord
<1>6. ASSUME NEW r \in Req, Reassigned(r) PROVE doc' = doc
  BY <1>6 DEF Reassigned
<1> QED BY <1>2, <1>3, <1>4, <1>5, <1>6, Effects DEF InApproval

\* A handler of DocumentWorkflow that begins is one that is offered; completing a
\* softcopy asks for its copy.
LEMMA BeginsOffered ==
  ASSUME WorkflowInv, NEW r \in Req, Begins(r)
  PROVE  /\ UNCHANGED <<doc, steps, stepPlan, audit, atts, files>> /\ Free(r)
         /\ \A q \in Req \ {r} : tx'[q] = tx[q]
         /\ tx'[r].op \in Offered /\ (tx'[r].op = "complete" => HasCopy)
<1>1. ASSUME NEW o, NEW t, Begin(r, o, t), t.op = o, o = "complete" => HasCopy
      PROVE  /\ UNCHANGED <<doc, steps, stepPlan, audit, atts, files>> /\ Free(r)
             /\ \A q \in Req \ {r} : tx'[q] = tx[q]
             /\ tx'[r].op \in Offered /\ (tx'[r].op = "complete" => HasCopy)
  BY <1>1 DEF Begin, WorkflowInv, TypeOK
<1>2. CASE BeginSubmit(r) \/ BeginCancel(r)
  BY <1>1, <1>2 DEF BeginSubmit, BeginCancel, Reading
<1>3. ASSUME NEW u \in User, NEW a \in Outcome, BeginDecide(r, u, a)
      PROVE  \E t : Begin(r, a, t) /\ t.op = a
  <2>1. PICK n \in Node :
          Begin(r, a,
               [Reading(a, u) EXCEPT
                  !.step = n, !.next = Graph[stepPlan].next[a][n], !.soft = IsSoftcopy,
                  !.to = IF Graph[stepPlan].next[a][n] # NoNode
                         THEN StageStatus[Stage[Graph[stepPlan].next[a][n]]]
                         ELSE EndStatus(a)])
    BY <1>3 DEF BeginDecide
  <2> DEFINE next == Graph[stepPlan].next[a][n]
             soft == IsSoftcopy
             to == IF next # NoNode THEN StageStatus[Stage[next]] ELSE EndStatus(a)
             t == [Reading(a, u) EXCEPT !.step = n, !.next = next, !.soft = soft, !.to = to]
  <2>2. Begin(r, a, t)
    BY <2>1
  <2> HIDE DEF next, soft, to
  <2>3. t.op = a
    BY DEF Reading
  <2> QED BY <2>2, <2>3
<1>4. \A a \in Outcome : a # "complete"
  BY DEF Outcome
<1>5. ASSUME NEW u \in User, BeginComplete(r, u) \/ BeginRevise(r, u)
      PROVE  \E o, t : Begin(r, o, t) /\ t.op = o /\ (o = "complete" => HasCopy)
  BY <1>5 DEF BeginComplete, BeginRevise, Reading
<1>6. ASSUME NEW n \in Node, NEW v \in User, BeginReassign(r, n, v)
      PROVE  \E t : Begin(r, "reassign", t) /\ t.op = "reassign"
  <2> DEFINE t == [Reading("reassign", NoUser) EXCEPT !.step = n, !.user = v]
  <2>1. t.op = "reassign"
    BY DEF Reading
  <2>2. Begin(r, "reassign", t)
    BY <1>6 DEF BeginReassign
  <2> HIDE DEF t
  <2> QED BY <2>1, <2>2
<1>7. ASSUME NEW d \in Data, BeginEdit(r, d)
      PROVE  \E t : Begin(r, "edit", t) /\ t.op = "edit"
  BY <1>7 DEF BeginEdit, Reading
<1>8. ASSUME NEW p \in Plan, BeginReselect(r, p)
      PROVE  \E t : Begin(r, "reselect", t) /\ t.op = "reselect"
  BY <1>8 DEF BeginReselect, Reading
<1>9. ASSUME NEW a \in Att, BeginAttach(r, a)
      PROVE  \E t : Begin(r, "attach", t) /\ t.op = "attach"
  BY <1>9 DEF BeginAttach, Reading
<1>10. \E o, t : Begin(r, o, t) /\ t.op = o /\ (o = "complete" => HasCopy)
  BY <1>2, <1>3, <1>4, <1>5, <1>6, <1>7, <1>8, <1>9
     DEF Begins, BeginSubmit, BeginCancel, Reading
<1> QED BY <1>1, <1>10

-----------------------------------------------------------------------------
(* A completed softcopy has its copy *)

\* What handlers of DocumentWorkflow know of the copy, and that they are offered, stays so.
LEMMA OfferedStep ==
  ASSUME WorkflowInv, [Next]_vars, \A q \in Req : tx[q].pc = "run" => tx[q].op \in Offered
  PROVE  \A q \in Req : /\ tx'[q].pc = "run" => tx'[q].op \in Offered
                        /\ tx'[q].pc = "run" /\ tx'[q].op = "complete" =>
                             \/ tx[q].pc = "run" /\ tx[q].op = "complete"
                             \/ doc' = doc /\ HasCopy
<1>1. tx \in [Req -> TxRecord]
  BY DEF WorkflowInv, TypeOK
<1>2. CASE UNCHANGED vars
  BY <1>2 DEF vars
<1>3. ASSUME NEW r \in Req, Begins(r)
      PROVE  /\ doc' = doc /\ \A q \in Req \ {r} : tx'[q] = tx[q]
             /\ tx'[r].op \in Offered /\ (tx'[r].op = "complete" => HasCopy)
  BY <1>3, BeginsOffered
<1>4. ASSUME NEW r \in Req, tx' = [tx EXCEPT ![r] = tx'[r]], tx'[r].pc # "run"
      PROVE  \A q \in Req : tx'[q].pc = "run" => tx'[q] = tx[q]
  BY <1>1, <1>4
<1> QED BY <1>2, <1>3, <1>4, Slots

\* No edit turns a hardcopy into a softcopy, or back.
LEMMA TypeKept ==
  ASSUME TypeFixed, WorkflowInv, \A q \in Req : Checked(tx[q]), [Next]_vars,
         \A q \in Req : tx[q].pc = "run" => tx[q].op \in Offered
  PROVE  IsSoftcopy' = IsSoftcopy
<1>1. doc.data \in Data
  BY DEF WorkflowInv, TypeOK, DocRecord
<1> QED BY <1>1, WorkflowMoves DEF TypeFixed, IsSoftcopy

LEMMA WorkflowStepCopy ==
  ASSUME TypeFixed, CopyInv, [Next]_vars, UNCHANGED lvars
  PROVE  CopyInv'
<1>1. WorkflowInv /\ \A q \in Req : Checked(tx[q]) /\ (tx[q].pc = "run" => tx[q].op \in Offered)
  BY DEF CopyInv, LifecycleInv
<1>2. LifecycleInv' /\ \A q \in Req : Checked(tx[q])'
  BY <1>1, WorkflowStepInv, CheckedStep DEF CopyInv
<1>3. IsSoftcopy' = IsSoftcopy
  BY <1>1, TypeKept
<1>4. ASSUME IsSoftcopy
      PROVE  /\ doc'.current => Copied'
             /\ doc'.status = "Completed" \/ before' = "Completed" => doc'.current
             /\ \A q \in Req : CopyKnown(q)'
  <2>1. /\ doc.current => Copied
        /\ doc.status = "Completed" \/ before = "Completed" => doc.current
        /\ \A q \in Req : CopyKnown(q)
    BY <1>4 DEF CopyInv
  <2>2. /\ doc'.current = doc.current
        /\ doc'.status = "Completed" =>
              \/ doc.status = "Completed"
              \/ \E q \in Req : tx[q].pc = "run" /\ tx[q].op = "complete"
    BY <1>1, WorkflowMoves
  <2>3. (doc'.current => Copied') /\ before' = before /\ job' = job
    BY <2>1, <2>2 DEF lvars, Copied
  <2>4. \A q \in Req : CopyKnown(q)'
    BY <1>1, <1>4, <2>1, <2>2, <2>3, OfferedStep DEF CopyKnown, HasCopy
  <2> QED BY <2>1, <2>2, <2>3, <2>4 DEF CopyKnown
<1>5. \A q \in Req : (tx[q].pc = "run" => tx[q].op \in Offered)'
  BY <1>1, OfferedStep
<1> QED BY <1>2, <1>3, <1>4, <1>5 DEF CopyInv

\* The jobs leave the workflow handlers and the type of the document alone.
LEMMA JobsApart ==
  ASSUME LifecycleInv, NEW r \in Req, Revising(r) \/ Disposal(r) \/ CrashJob(r)
  PROVE  /\ UNCHANGED WorkflowRows /\ doc'.data = doc.data
         /\ \/ BeginsJob(r)
            \/ StoreRevision(r) \/ CommitCorrection(r) \/ CommitFinalize(r) \/ CommitDispose(r)
            \/ CommitRequest(r) \/ CommitReview(r) \/ CommitRestore(r) \/ CrashJob(r)
<1>1. doc \in DocRecord
  BY DEF LifecycleInv, WorkflowInv, TypeOK
<1>2. CASE BeginsJob(r)
  BY <1>2, StartsJob DEF vars, WorkflowRows
<1>3. CASE CommitFinalize(r)
  <2>1. doc' = [doc EXCEPT !.status = "Completed", !.node = NoNode, !.current = TRUE]
    BY <1>3 DEF CommitFinalize
  <2>2. doc'.data = doc.data
    BY <1>1, <2>1 DEF DocRecord
  <2> QED BY <1>3, <2>2 DEF CommitFinalize
<1>4. CASE \/ StoreRevision(r) \/ CommitCorrection(r) \/ CommitDispose(r)
           \/ CommitRequest(r) \/ CommitReview(r) \/ CommitRestore(r) \/ CrashJob(r)
  BY <1>1, <1>4 DEF StoreRevision, CommitCorrection, CommitDispose, CommitRequest, CommitReview,
                    CommitRestore, CrashJob, Disposing, vars, WorkflowRows, DocRecord
<1> QED BY <1>2, <1>3, <1>4 DEF Revising, Disposal, BeginsJob

LEMMA JobStepCopy ==
  ASSUME CopyInv, NEW r \in Req, Revising(r) \/ Disposal(r) \/ CrashJob(r), LifecycleInv'
  PROVE  CopyInv'
<1>1. /\ LifecycleInv /\ WorkflowInv /\ doc \in DocRecord /\ job \in [Req -> JobRecord]
      /\ revs \in [Rev -> RevStatus] /\ current \in Rev \cup {NoRev} /\ JobOK(job[r], revs)
  BY DEF CopyInv, LifecycleInv, LifecycleTypeOK, WorkflowInv, TypeOK
<1>2. UNCHANGED WorkflowRows /\ doc'.data = doc.data /\ IsSoftcopy' = IsSoftcopy
  BY <1>1, JobsApart DEF IsSoftcopy
<1>3. \A q \in Req : Checked(tx[q])' /\ (tx[q].pc = "run" => tx[q].op \in Offered)'
  BY <1>2 DEF CopyInv, Checked, WorkflowRows
<1> SUFFICES ASSUME IsSoftcopy
             PROVE  /\ doc'.current => Copied'
                    /\ doc'.status = "Completed" \/ before' = "Completed" => doc'.current
                    /\ \A q \in Req : CopyKnown(q)'
  BY <1>2, <1>3 DEF CopyInv
<1>4. /\ doc.current => Copied
      /\ doc.status = "Completed" \/ before = "Completed" => doc.current
      /\ \A q \in Req : CopyKnown(q)
  BY DEF CopyInv
<1>5. ASSUME doc.current => doc'.current, NEW k, job' = [job EXCEPT ![r] = k],
             k.pc # "idle" /\ "Completed" \in {k.status, k.before} => doc.current
      PROVE  \A q \in Req : CopyKnown(q)'
  <2>1. tx' = tx /\ \A q \in Req : job'[q] = IF q = r THEN k ELSE job[q]
    BY <1>1, <1>2, <1>5 DEF WorkflowRows
  <2> QED BY <1>4, <1>5, <2>1 DEF CopyKnown
<1>6. CASE BeginsJob(r)
  <2>1. /\ UNCHANGED <<vars, revs, current, before, tickets>>
        /\ \E k : job' = [job EXCEPT ![r] = k] /\ JustRead(k)
    BY <1>1, <1>6, StartsJob
  <2>2. PICK k : job' = [job EXCEPT ![r] = k] /\ JustRead(k)
    BY <2>1
  <2>3. doc' = doc /\ (k.pc # "idle" /\ "Completed" \in {k.status, k.before} => doc.current)
    BY <1>4, <2>1, <2>2 DEF JustRead, vars
  <2> QED BY <1>4, <1>5, <2>1, <2>2, <2>3 DEF Copied
<1>7. CASE StoreRevision(r)
  <2>1. PICK k : /\ job' = [job EXCEPT ![r] = k]
                 /\ k = NoJob \/ k = [job[r] EXCEPT !.pc = "stored"]
    BY <1>7 DEF StoreRevision
  <2>2. k.pc # "idle" =>
          k.status = job[r].status /\ k.before = job[r].before /\ job[r].pc # "idle"
    BY <1>1, <1>7, <2>1, NoJobOK DEF StoreRevision, JobRecord
  <2>3. revs' = [revs EXCEPT ![job[r].rev] = "UPLOADED"] /\ UNCHANGED <<doc, current, before>>
    BY <1>7 DEF StoreRevision, vars
  <2>4. revs[job[r].rev] = "NONE"
    BY <1>1, <1>7 DEF StoreRevision, JobOK, Uploading
  <2>5. Copied => Copied'
    BY <1>1, <2>3, <2>4 DEF Copied
  <2> QED BY <1>4, <1>5, <2>1, <2>2, <2>3, <2>5 DEF CopyKnown
<1>8. ASSUME Finish(r), doc.current => doc'.current
      PROVE  \A q \in Req : CopyKnown(q)'
  BY <1>5, <1>8, NoJobOK DEF Finish
<1>9. CASE CommitFinalize(r)
  <2>1. doc' = [doc EXCEPT !.status = "Completed", !.node = NoNode, !.current = TRUE]
    BY <1>9 DEF CommitFinalize
  <2>2. doc'.current
    BY <1>1, <2>1 DEF DocRecord
  <2>3. job[r].rev \in Rev
    BY <1>1, <1>9 DEF CommitFinalize, At, JobOK
  <2>4. Copied'
    BY <1>9, <2>3, RevisionAssumption DEF CommitFinalize, FinalizedRevs, Copied
  <2> QED BY <1>8, <1>9, <2>2, <2>4 DEF CommitFinalize
<1>10. CASE \/ CommitCorrection(r) \/ CommitDispose(r) \/ CommitRequest(r) \/ CommitReview(r)
            \/ CommitRestore(r) \/ CrashJob(r)
  <2>1. Finish(r) /\ UNCHANGED <<revs, current>> /\ doc'.current = doc.current
    BY <1>1, <1>10 DEF CommitCorrection, CommitDispose, CommitRequest, CommitReview,
                       CommitRestore, CrashJob, Disposing, vars, DocRecord
  <2>2. job[r].pc # "idle" /\ "Completed" \in {job[r].status, job[r].before} => doc.current
    BY <1>4 DEF CopyKnown
  <2>3. doc'.status = "Completed" \/ before' = "Completed" => doc.current
    BY <1>1, <1>4, <1>10, <2>2
       DEF CommitCorrection, CommitDispose, CommitRequest, CommitReview, CommitRestore, CrashJob,
           Disposing, vars, DocRecord, At
  <2> QED BY <1>4, <1>8, <2>1, <2>3 DEF Copied
<1> QED BY <1>1, <1>6, <1>7, <1>9, <1>10, JobsApart

LEMMA CopyInit == LifecycleInit => CopyInv
<1> SUFFICES ASSUME LifecycleInit PROVE CopyInv
  OBVIOUS
<1>1. LifecycleInv /\ ApprovalInv
  BY LifecycleInvInit, ApprovalInit DEF LifecycleInit
<1>2. \A r \in Req : tx[r].pc = "idle" /\ job[r].pc = "idle"
  BY NoJobOK DEF LifecycleInit, Init, Idle
<1>3. doc.current => Copied
  BY RevisionAssumption DEF LifecycleInit, OneRev, Copied
<1>4. doc.status = "Completed" => doc.current
  <2>1. \A p \in Plan : FirstStatus(p) # "Completed"
    BY StageStatusOK, GraphAssumption DEF FirstStatus, PlanRecord, InApproval
  <2> QED BY <2>1 DEF LifecycleInit, Init, Created
<1>5. before = "none"
  BY DEF LifecycleInit
<1> QED BY <1>1, <1>2, <1>3, <1>4, <1>5 DEF CopyInv, ApprovalInv, CopyKnown

\* finalizeRevision, uploads, corrections, disposal and restoring may overlap in any way:
\* a softcopy is completed only with a finalized controlled copy, as long as its document
\* type is not edited meanwhile.
THEOREM CompletedCopiesExist ==
  ASSUME TypeFixed
  PROVE  LifecycleSpec => []CompletedHasCopy
<1>1. CopyInv => CompletedHasCopy
  BY DEF CopyInv, CompletedHasCopy, Copied
<1>2. CopyInv /\ [LifecycleNext]_<<vars, lvars>> => CopyInv'
  <2> SUFFICES ASSUME CopyInv, [LifecycleNext]_<<vars, lvars>> PROVE CopyInv'
    OBVIOUS
  <2>1. LifecycleInv'
    BY LifecycleInvNext DEF CopyInv
  <2>2. ASSUME NEW r \in Req, Revising(r) \/ Disposal(r) \/ CrashJob(r)
        PROVE  CopyInv'
    BY <2>1, <2>2, JobStepCopy
  <2>3. CASE UNCHANGED <<vars, lvars>>
    BY <2>3, WorkflowStepCopy
  <2>4. ASSUME NEW r \in Req, Step(r), UNCHANGED lvars
        PROVE  CopyInv'
    BY <2>4, WorkflowStepCopy DEF Next
  <2> QED BY <2>2, <2>3, <2>4 DEF LifecycleNext
<1> QED BY <1>1, <1>2, CopyInit, PTL DEF LifecycleSpec

-----------------------------------------------------------------------------
(* Handlers that do not overlap *)

LEMMA WorkflowStepAlone ==
  ASSUME OneAtATime, AloneInv, NEW r \in Req, Step(r), job[r].pc = "idle", UNCHANGED lvars
  PROVE  AloneInv'
<1>1. WorkflowInv /\ [Next]_vars /\ \A q \in Req : Checked(tx[q])
  BY DEF AloneInv, LifecycleInv, Next
<1>2. LifecycleInv' /\ \A q \in Req : Checked(tx[q])'
  BY <1>1, WorkflowStepInv, CheckedStep DEF AloneInv
<1>3. DisposedRemembers'
  BY <1>1, WorkflowMoves DEF AloneInv, DisposedRemembers, lvars
<1>4. \A q \in Req : JobCurrent(q)'
  BY DEF OneAtATime, JobCurrent, lvars
<1> QED BY <1>2, <1>3, <1>4 DEF AloneInv, OneCurrentRevision, OnePendingTicket, lvars

LEMMA JobStepAlone ==
  ASSUME OneAtATime, AloneInv, NEW r \in Req, Revising(r) \/ Disposal(r) \/ CrashJob(r),
         LifecycleInv'
  PROVE  AloneInv'
<1> DEFINE j == job[r]
<1>1. /\ LifecycleInv /\ WorkflowInv /\ doc \in DocRecord /\ job \in [Req -> JobRecord]
      /\ revs \in [Rev -> RevStatus] /\ current \in Rev \cup {NoRev} /\ CurrentStored
      /\ tickets \in [Ticket -> TicketStatus] /\ JobOK(j, revs) /\ j \in JobRecord
      /\ before \in Finalized \cup {"none"}
  BY DEF AloneInv, LifecycleInv, LifecycleTypeOK, WorkflowInv, TypeOK
<1>2. UNCHANGED WorkflowRows
  BY <1>1, JobsApart
<1>3. \A q \in Req : Checked(tx[q])'
  BY <1>2 DEF AloneInv, Checked, WorkflowRows
<1>4. /\ OneCurrentRevision /\ DisposedRemembers /\ OnePendingTicket /\ JobCurrent(r)
  BY DEF AloneInv
<1>5. ASSUME Finish(r) PROVE \A q \in Req : JobCurrent(q)'
  <2>1. \A q \in Req : job'[q] = NoJob
    BY <1>1, <1>5 DEF Finish, OneAtATime
  <2> QED BY <2>1, NoJobOK DEF JobCurrent
<1>6. CASE BeginsJob(r)
  <2>1. /\ UNCHANGED <<vars, revs, current, before, tickets>>
        /\ Free(r) \/ j.pc # "idle"
        /\ \E k : job' = [job EXCEPT ![r] = k] /\ JustRead(k)
    BY <1>1, <1>6, StartsJob
  <2>2. PICK k : job' = [job EXCEPT ![r] = k] /\ JustRead(k)
    BY <2>1
  <2>3. Free(r)
    BY <1>4, <2>1 DEF JobCurrent
  <2>4. \A q \in Req : job'[q] = k /\ q = r
    BY <1>1, <2>2 DEF OneAtATime
  <2>5. \A q \in Req : JobCurrent(q)'
    BY <2>1, <2>2, <2>3, <2>4 DEF JobCurrent, JustRead, Free, vars
  <2> QED BY <1>3, <1>4, <2>1, <2>5
          DEF AloneInv, OneCurrentRevision, DisposedRemembers, OnePendingTicket, vars
<1>7. CASE StoreRevision(r)
  <2>1. /\ revs' = [revs EXCEPT ![j.rev] = "UPLOADED"] /\ revs[j.rev] = "NONE" /\ j.rev \in Rev
        /\ UNCHANGED <<vars, current, before, tickets>> /\ j.pc = "run" /\ j.op \in UploadKind
    BY <1>1, <1>7 DEF StoreRevision, JobOK, Uploading
  <2>2. OneCurrentRevision'
    BY <1>1, <1>4, <2>1 DEF OneCurrentRevision, CurrentStored
  <2>3. PICK k : /\ job' = [job EXCEPT ![r] = k]
                 /\ k = NoJob \/ k = [j EXCEPT !.pc = "stored"]
    BY <1>7 DEF StoreRevision
  <2>4. \A q \in Req : job'[q] = k /\ q = r
    BY <1>1, <2>3 DEF OneAtATime
  <2>5. k.pc # "idle" => /\ k.status = j.status /\ k.before = j.before /\ k.pc = "stored"
                         /\ k.op = j.op
    BY <1>1, <2>1, <2>3, NoJobOK DEF JobRecord
  <2>6. \A q \in Req : JobCurrent(q)'
    BY <1>4, <2>1, <2>4, <2>5 DEF JobCurrent, Free, vars, UploadKind
  <2> QED BY <1>3, <1>4, <2>1, <2>2, <2>6 DEF AloneInv, DisposedRemembers, OnePendingTicket, vars
<1>8. CASE CommitFinalize(r)
  <2>1. doc' = [doc EXCEPT !.status = "Completed", !.node = NoNode, !.current = TRUE]
    BY <1>8 DEF CommitFinalize
  <2>2. doc'.status = "Completed"
    BY <1>1, <2>1 DEF DocRecord
  <2>3. /\ doc.status = "Approved" /\ j.current = current /\ j.rev \in Rev
    BY <1>1, <1>4, <1>8 DEF CommitFinalize, At, JobOK, JobCurrent
  <2>4. OneCurrentRevision'
    BY <1>1, <1>4, <1>8, <2>3 DEF CommitFinalize, FinalizedRevs, OneCurrentRevision
  <2>5. DisposedRemembers'
    BY <1>4, <1>8, <2>2, <2>3 DEF CommitFinalize, DisposedRemembers
  <2> QED BY <1>3, <1>4, <1>5, <1>8, <2>4, <2>5 DEF AloneInv, CommitFinalize, OnePendingTicket
<1>9. ASSUME Finish(r), UNCHANGED <<revs, current>>, DisposedRemembers', OnePendingTicket'
      PROVE  AloneInv'
  BY <1>3, <1>4, <1>5, <1>9 DEF AloneInv, OneCurrentRevision
<1>10. CASE CommitCorrection(r)
  <2>1. doc.status \in Finalized /\ doc'.status = "ForRevision"
    BY <1>1, <1>4, <1>10 DEF CommitCorrection, At, JobOK, JobCurrent, DocRecord
  <2> QED BY <1>4, <1>9, <1>10, <2>1
          DEF CommitCorrection, DisposedRemembers, OnePendingTicket, Finalized
<1>11. ASSUME Disposing(j), j.status \in Finalized, j.pc # "idle"
       PROVE  DisposedRemembers'
  <2>1. doc'.status = "Disposed" /\ before' # "none"
    BY <1>1, <1>11 DEF Disposing, DocRecord, Finalized
  <2> QED BY <2>1 DEF DisposedRemembers
<1>12. CASE CommitDispose(r)
  BY <1>1, <1>4, <1>9, <1>11, <1>12 DEF CommitDispose, At, JobOK, OnePendingTicket
<1>13. CASE CommitRequest(r)
  <2>1. \A k \in Ticket : tickets[k] # "Pending"
    BY <1>4, <1>13 DEF CommitRequest, At, JobCurrent
  <2>2. OnePendingTicket'
    BY <1>1, <1>13, <2>1 DEF CommitRequest, OnePendingTicket
  <2> QED BY <1>4, <1>9, <1>13, <2>2 DEF CommitRequest, DisposedRemembers, vars
<1>14. CASE CommitReview(r)
  <2>1. \A k \in Ticket : tickets'[k] = "Pending" => tickets[k] = "Pending"
    BY <1>1, <1>14 DEF CommitReview
  <2>2. OnePendingTicket'
    BY <1>4, <2>1 DEF OnePendingTicket
  <2>3. DisposedRemembers'
    <3>1. CASE j.agreed
      BY <1>1, <1>11, <1>14, <3>1 DEF CommitReview, At, JobOK
    <3>2. CASE ~j.agreed
      BY <1>4, <1>14, <3>2 DEF CommitReview, DisposedRemembers
    <3> QED BY <3>1, <3>2
  <2> QED BY <1>9, <1>14, <2>2, <2>3 DEF CommitReview
<1>15. CASE CommitRestore(r)
  <2>1. doc'.status # "Disposed" /\ before' = "none"
    BY <1>1, <1>15 DEF CommitRestore, DocRecord, JobRecord, Finalized
  <2> QED BY <1>4, <1>9, <1>15, <2>1 DEF CommitRestore, DisposedRemembers, OnePendingTicket
<1>16. CASE CrashJob(r)
  BY <1>4, <1>9, <1>16 DEF CrashJob, DisposedRemembers, OnePendingTicket, vars
<1> QED BY <1>1, <1>6, <1>7, <1>8, <1>10, <1>12, <1>13, <1>14, <1>15, <1>16, JobsApart

LEMMA AloneInit == LifecycleInit => AloneInv
<1> SUFFICES ASSUME LifecycleInit PROVE AloneInv
  OBVIOUS
<1>1. LifecycleInv /\ ApprovalInv
  BY LifecycleInvInit, ApprovalInit DEF LifecycleInit
<1>2. \A r \in Req : JobCurrent(r)
  BY NoJobOK DEF LifecycleInit, JobCurrent
<1>3. OneCurrentRevision /\ OnePendingTicket
  BY RevisionAssumption DEF LifecycleInit, OneRev, OneCurrentRevision, OnePendingTicket
<1>4. DisposedRemembers
  <2>1. \A p \in Plan : FirstStatus(p) # "Disposed"
    BY StageStatusOK, GraphAssumption DEF FirstStatus, PlanRecord, InApproval
  <2> QED BY <2>1 DEF LifecycleInit, Init, Created, DisposedRemembers
<1> QED BY <1>1, <1>2, <1>3, <1>4 DEF AloneInv, ApprovalInv

LEMMA AloneSafe ==
  ASSUME OneAtATime
  PROVE  LifecycleSpec => []AloneInv
<1>1. AloneInv /\ [LifecycleNext]_<<vars, lvars>> => AloneInv'
  <2> SUFFICES ASSUME AloneInv, [LifecycleNext]_<<vars, lvars>> PROVE AloneInv'
    OBVIOUS
  <2>1. LifecycleInv'
    BY LifecycleInvNext DEF AloneInv
  <2>2. ASSUME NEW r \in Req, Revising(r) \/ Disposal(r) \/ CrashJob(r)
        PROVE  AloneInv'
    BY <2>1, <2>2, JobStepAlone
  <2>3. CASE UNCHANGED <<vars, lvars>>
    BY <2>1, <2>3 DEF AloneInv, OneCurrentRevision, DisposedRemembers, OnePendingTicket,
                      JobCurrent, Free, Checked, vars, lvars
  <2> QED BY <2>2, <2>3, WorkflowStepAlone DEF LifecycleNext
<1> QED BY <1>1, AloneInit, PTL DEF LifecycleSpec

\* finalizeRevision: while one handler runs at a time, and whichever of them crash, the
\* revision marked current is the one the softcopy points to.
THEOREM CurrentRevisionIsOne ==
  ASSUME OneAtATime
  PROVE  LifecycleSpec => []OneCurrentRevision
<1>1. AloneInv => OneCurrentRevision
  BY DEF AloneInv
<1> QED BY <1>1, AloneSafe, PTL

\* dispose, requestDisposal, reviewDisposalRequest and restore: while one handler runs at a
\* time, the status to give back is kept exactly while the document is disposed, and one
\* request at most waits for review.
THEOREM DisposalIsSound ==
  ASSUME OneAtATime
  PROVE  LifecycleSpec => []DisposalSound
<1>1. AloneInv => DisposalSound
  BY DEF AloneInv, LifecycleInv, DisposalSound
<1> QED BY <1>1, AloneSafe, PTL
=============================================================================
