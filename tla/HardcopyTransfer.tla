-------------------------- MODULE HardcopyTransfer --------------------------
(***************************************************************************)
(* The transfers of one hardcopy from place to place, as executed by       *)
(* HardcopyTransfersService: created and submitted by a requester, decided *)
(* by the configured approver, dispatched, and accepted by the recipient,  *)
(* which moves the hardcopy.  Editing the document may move it too, until  *)
(* the document is approved.                                               *)
(*                                                                         *)
(* Every handler reads the transfer and checks it, then writes it without  *)
(* a condition: the two halves are separate steps (Begin..., Commit...).   *)
(* Comments, dates, names and the permissions of roles are left out.       *)
(***************************************************************************)
CONSTANTS
  User, NoUser,
  Admins,          \* accounts with an administrative role
  Approvers,       \* accounts that may approve and dispatch transfers
  Place, NoPlace,  \* storage locations
  Transfer,        \* hardcopy_transfer_requests rows
  Slot             \* how many handlers can run at once

ASSUME TransferAssumption ==
  /\ NoUser \notin User /\ NoPlace \notin Place /\ "none" \notin Transfer
  /\ Admins \subseteq User /\ Approvers \subseteq User

VARIABLES
  place,      \* hardcopy_documents.location_id
  phase,      \* of the document: editable, final (Approved, Completed) or disposed
  routed,     \* places whose storage route has an area
  transfers,  \* the hardcopy_transfer_requests rows
  log,        \* hardcopy_transfer_history: [action, by] of each transfer
  tx          \* the handlers in flight

tvars == <<place, phase, routed, transfers, log, tx>>

RequesterOps == {"submit", "resubmit", "cancel"}
ReviewOps    == {"approve", "return", "reject"}
DispatchOps  == {"for-transfer", "transfer", "await-recipient-acceptance"}
Action       == RequesterOps \cup ReviewOps \cup DispatchOps \cup {"accept"}

\* Mutant: a transfer is dispatched before its approval
Expected_Unapproved == [o \in Action |->
  CASE o = "submit"       -> {"Draft"}
    [] o = "resubmit"     -> {"Returned"}
    [] o = "cancel"       -> {"Draft", "ForApproval", "Returned"}
    [] o \in ReviewOps    -> {"ForApproval"}
    [] o = "for-transfer" -> {"ForApproval", "Approved"}
    [] o = "transfer"     -> {"ForTransfer"}
    [] o = "accept"       -> {"PendingRecipientAcceptance"}
    [] o = "await-recipient-acceptance" -> {"Transferred"}]

\* The statuses an operation expects
Expected == [o \in Action |->
  CASE o = "submit"       -> {"Draft"}
    [] o = "resubmit"     -> {"Returned"}
    [] o = "cancel"       -> {"Draft", "ForApproval", "Returned"}
    [] o \in ReviewOps    -> {"ForApproval"}
    [] o = "for-transfer" -> {"Approved"}
    [] o = "transfer"     -> {"ForTransfer"}
    [] o = "accept"       -> {"PendingRecipientAcceptance"}
    [] o = "await-recipient-acceptance" -> {"Transferred"}]

\* The status an operation leads to
Result == [o \in Action |->
  CASE o \in {"submit", "resubmit"} -> "ForApproval"
    [] o = "cancel"       -> "Cancelled"
    [] o = "approve"      -> "Approved"
    [] o = "return"       -> "Returned"
    [] o = "reject"       -> "Rejected"
    [] o = "for-transfer" -> "ForTransfer"
    [] o = "transfer"     -> "Transferred"
    [] o = "accept"       -> "Completed"
    [] o = "await-recipient-acceptance" -> "PendingRecipientAcceptance"]

TransferStatus == {"NONE", "Draft"} \cup {Result[o] : o \in Action}

NoTransfer == [status |-> "NONE", requester |-> NoUser, recipient |-> NoUser,
               approver |-> NoUser, dest |-> NoPlace]

Idle == [pc |-> "idle", op |-> "none", by |-> NoUser, transfer |-> "none",
         row |-> NoTransfer, dest |-> NoPlace]

Free(s) == tx[s].pc = "idle"

Begin(s, o, u, t, row, dest) ==
  /\ Free(s)
  /\ tx' = [tx EXCEPT ![s] = [pc |-> "run", op |-> o, by |-> u, transfer |-> t,
                             row |-> row, dest |-> dest]]
  /\ UNCHANGED <<place, phase, routed, transfers, log>>

Done(s) == tx' = [tx EXCEPT ![s] = Idle]

-----------------------------------------------------------------------------
(* create *)

\* An administrator names another user as holder and recipient, anybody else is
\* both.  A destination whose route has no area is stored without one.
BeginCreate(s, t, u, holder, approver, dest) ==
  /\ phase = "final"
  /\ transfers[t].status = "NONE" /\ \A q \in Slot : tx[q].transfer # t
  /\ u \in Admins <=> holder # u
  /\ Begin(s, "create", u, t,
       [status |-> "Draft", requester |-> u, recipient |-> holder,
        approver |-> approver, dest |-> IF dest \in routed THEN dest ELSE NoPlace], NoPlace)

\* A destination whose area is gone by then is a foreign key error
CommitCreate(s) ==
  LET t == tx[s].transfer  row == tx[s].row IN
  /\ tx[s].pc = "run" /\ tx[s].op = "create"
  /\ IF row.dest \in routed \cup {NoPlace}
     THEN transfers' = [transfers EXCEPT ![t] = row] ELSE UNCHANGED transfers
  /\ Done(s)
  /\ UNCHANGED <<place, phase, routed, log>>

-----------------------------------------------------------------------------
(* submit, resubmit, cancel, the review, the dispatch and the acceptance *)

MayAct(u, t, o) ==
  CASE o \in RequesterOps -> u = transfers[t].requester
    [] o \in ReviewOps    -> u = transfers[t].approver
    [] o \in DispatchOps  -> u \in Admins \/ u = transfers[t].approver
    [] o = "accept"       -> u = transfers[t].recipient

BeginAction(s, u, t, o) ==
  /\ transfers[t].status \in Expected[o] /\ MayAct(u, t, o)
  /\ Begin(s, o, u, t, NoTransfer, IF o = "accept" THEN transfers[t].dest ELSE NoPlace)

\* changeStatus, review and cancel: the status is written whatever it is by then
CommitStatus(s) ==
  LET t == tx[s].transfer  o == tx[s].op IN
  /\ tx[s].pc = "run" /\ o \in Action \ {"accept"}
  /\ transfers' = [transfers EXCEPT ![t].status = Result[o]]
  /\ log' = [log EXCEPT ![t] = @ \cup {[op |-> o, by |-> tx[s].by]}]
  /\ Done(s)
  /\ UNCHANGED <<place, phase, routed>>

\* accept: the hardcopy moves to the destination that was read, if there was one;
\* a destination whose area is gone by then is a foreign key error
CommitAccept(s) ==
  LET t == tx[s].transfer  dest == tx[s].dest IN
  /\ tx[s].pc = "run" /\ tx[s].op = "accept"
  /\ IF dest \in routed \cup {NoPlace}
     THEN /\ place' = IF dest = NoPlace THEN place ELSE dest
          /\ transfers' = [transfers EXCEPT ![t].status = "Completed"]
          /\ log' = [log EXCEPT ![t] = @ \cup {[op |-> "accept", by |-> tx[s].by]}]
     ELSE UNCHANGED <<place, transfers, log>>
  /\ Done(s)
  /\ UNCHANGED <<phase, routed>>

-----------------------------------------------------------------------------
(* What changes around the transfers *)

\* Mutant: a final document is edited, too
BeginEdit_Final(s, p) == p \in routed /\ Begin(s, "edit", NoUser, "none", NoTransfer, p)

\* DocumentsService.update: the location is among what an edit writes
BeginEdit(s, p) ==
  /\ phase = "editable" /\ p \in routed
  /\ Begin(s, "edit", NoUser, "none", NoTransfer, p)

\* Written whatever the document's status is by then
CommitEdit(s) ==
  /\ tx[s].pc = "run" /\ tx[s].op = "edit"
  /\ place' = IF tx[s].dest \in routed THEN tx[s].dest ELSE place
  /\ Done(s)
  /\ UNCHANGED <<phase, routed, transfers, log>>

\* The document is approved; only softcopies are ever revised
Approve ==
  /\ phase = "editable" /\ phase' = "final"
  /\ UNCHANGED <<place, routed, transfers, log, tx>>

DisposeOrRestore ==
  /\ phase # "editable" /\ phase' = IF phase = "final" THEN "disposed" ELSE "final"
  /\ UNCHANGED <<place, routed, transfers, log, tx>>

\* AreasService.remove: refused while the hardcopy is in the area; transfers to
\* it lose their destination
RemoveArea(p) ==
  /\ p \in routed /\ p # place
  /\ routed' = routed \ {p}
  /\ transfers' = [t \in Transfer |->
       IF transfers[t].dest = p THEN [transfers[t] EXCEPT !.dest = NoPlace]
                                ELSE transfers[t]]
  /\ UNCHANGED <<place, phase, log, tx>>

-----------------------------------------------------------------------------

Init ==
  /\ place \in Place /\ phase \in {"editable", "final"}
  /\ routed \in {P \in SUBSET Place : place \in P}
  /\ transfers = [t \in Transfer |-> NoTransfer]
  /\ log = [t \in Transfer |-> {}]
  /\ tx = [s \in Slot |-> Idle]

Handler(s) ==
  \/ \E t \in Transfer, u, v \in User, a \in Approvers, p \in Place :
       BeginCreate(s, t, u, v, a, p)
  \/ CommitCreate(s)
  \/ \E t \in Transfer, u \in User, o \in Action : BeginAction(s, u, t, o)
  \/ CommitStatus(s) \/ CommitAccept(s)
  \/ CommitEdit(s) \/ \E p \in Place : BeginEdit(s, p)

Next == \/ \E s \in Slot : Handler(s)
        \/ Approve \/ DisposeOrRestore
        \/ \E p \in Place : RemoveArea(p)

Spec == Init /\ [][Next]_tvars

-----------------------------------------------------------------------------
(* Properties *)

TransferRecord == [status : TransferStatus, requester : User \cup {NoUser},
                   recipient : User \cup {NoUser}, approver : User \cup {NoUser},
                   dest : Place \cup {NoPlace}]

\* The rows, the history and the handlers in flight have the shapes above.
TransferTypeOK ==
  /\ place \in Place /\ routed \subseteq Place
  /\ phase \in {"editable", "final", "disposed"}
  /\ transfers \in [Transfer -> TransferRecord]
  /\ log \in [Transfer -> SUBSET [op : Action, by : User]]
  /\ tx \in [Slot -> [pc : {"idle", "run"}, op : Action \cup {"create", "edit", "none"},
                      by : User \cup {NoUser}, transfer : Transfer \cup {"none"},
                      row : TransferRecord, dest : Place \cup {NoPlace}]]

AfterSubmit   == TransferStatus \ {"NONE", "Draft", "Cancelled"}
AfterApproval == {"Approved", "ForTransfer", "Transferred",
                  "PendingRecipientAcceptance", "Completed"}
AfterDispatch == {"Transferred", "PendingRecipientAcceptance", "Completed"}

\* The edits of the document in flight
Edits == {s \in Slot : tx[s].pc = "run" /\ tx[s].op = "edit"}

Recorded(t, o, U) == \E e \in log[t] : e.op = o /\ e.by \in U

\* No transfer gets ahead of its history, however its handlers overlap: what its
\* status stands for was done, by the requester, the approver named in the row,
\* a dispatcher and the recipient.
TransferTrail ==
  \A t \in Transfer : LET x == transfers[t] IN
    /\ x.status \in AfterSubmit   => Recorded(t, "submit", {x.requester})
    /\ x.status \in AfterApproval => Recorded(t, "approve", {x.approver})
    /\ x.status \in AfterDispatch => Recorded(t, "transfer", Admins \cup {x.approver})
    /\ x.status = "Completed"     => Recorded(t, "accept", {x.recipient})

\* The hardcopy moves only when an edit of its document moves it, or when the
\* recipient of an approved and dispatched transfer accepts it, and then only to
\* that transfer's destination.
MovedByRecipient ==
  [][place' # place =>
       \/ \E s \in Edits : place' = tx[s].dest
       \/ \E t \in Transfer :
            /\ place' = transfers'[t].dest
            /\ Recorded(t, "approve", {transfers[t].approver})
            /\ Recorded(t, "transfer", Admins \cup {transfers[t].approver})
            /\ Recorded(t, "accept", {transfers[t].recipient})']_tvars

-----------------------------------------------------------------------------
(* Inductive invariant: what a handler in flight may rely on *)

HandlerOK(x) ==
  LET t == x.transfer  r == transfers[t] IN
  x.pc = "run" /\ x.op # "edit" =>
    /\ t \in Transfer
    /\ x.op = "create" => r.status = "NONE" /\ x.row.status = "Draft"
    /\ x.op # "create" => x.op \in Action /\ x.by \in User /\ r.status # "NONE"
    /\ x.op \in {"submit", "resubmit"} => x.by = r.requester
    /\ x.op \in ReviewOps => x.by = r.approver
    /\ x.op \in DispatchOps => x.by \in Admins \cup {r.approver}
    /\ x.op = "accept" => /\ x.by = r.recipient
                          /\ x.dest \in routed => x.dest = r.dest
    /\ x.op \in {"resubmit"} \cup ReviewOps \cup DispatchOps \cup {"accept"} =>
         Recorded(t, "submit", {r.requester})
    /\ x.op \in DispatchOps \cup {"accept"} => Recorded(t, "approve", {r.approver})
    /\ x.op \in {"await-recipient-acceptance", "accept"} =>
         Recorded(t, "transfer", Admins \cup {r.approver})

\* The operations its status stands for were done on every transfer, by the right
\* people (TransferTrail), with what makes it inductive: whoever acts on a transfer
\* had its earlier steps in the history, however handlers overlap, and a transfer
\* being created is touched by nobody else.
TransferInv ==
  /\ TransferTypeOK /\ TransferTrail
  /\ \A s \in Slot : HandlerOK(tx[s])
  /\ \A q, s \in Slot :
       q # s /\ tx[q].pc = "run" /\ tx[q].op = "create" => tx[s].transfer # tx[q].transfer

-----------------------------------------------------------------------------
(* Refinement *)

\* The transfers to which an operation was done
Did(o) == {t \in Transfer : Recorded(t, o, User)}

Custody == INSTANCE HardcopyCustody
  WITH granted <- Did("approve"), sent <- Did("transfer"),
       open <- phase = "editable", edits <- Edits

\* Whatever overlaps, the copy changes places only by transfers that were approved
\* and sent before, and by edits that began before the document was approved.
ImplementsCustody == Custody!Spec

=============================================================================
