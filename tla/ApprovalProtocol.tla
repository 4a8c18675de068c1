-------------------------- MODULE ApprovalProtocol --------------------------
(***************************************************************************)
(* What the approval workflow of a document promises, with every operation *)
(* atomic: a request is open (being edited), in review at one node of its  *)
(* workflow graph, or at one of its ends.  A review walks the graph from   *)
(* its first node, one decision per node; the decisions stay on record     *)
(* until the request is submitted again.                                   *)
(***************************************************************************)
CONSTANTS Node, NoNode, Plan, NoPlan, Graph, Outcome

VARIABLES phase, at, plan, decided

pvars == <<phase, at, plan, decided>>

Phase == {"open", "review", "approved", "completed", "rejected", "cancelled"}

Undecided == [n \in Node |-> "none"]

\* Phases in which a review may end: approving a cancellation request cancels
EndPhases(a) == CASE a = "approve" -> {"approved", "cancelled"}
                  [] a = "reject" -> {"rejected"}
                  [] a = "request-revision" -> {"open"}

StartReview(p) == /\ phase' = "review" /\ at' = Graph[p].first
                  /\ plan' = p /\ decided' = Undecided

Init == \/ phase \in {"open", "completed"} /\ at = NoNode /\ plan = NoPlan
             /\ decided = Undecided
        \/ phase = "review" /\ plan \in Plan /\ at = Graph[plan].first
             /\ decided = Undecided

\* The first submission fixes the plan, later ones keep it
Submit == /\ phase = "open"
          /\ \E p \in Plan : plan \in {p, NoPlan} /\ StartReview(p)

Decide(a) ==
  LET next == Graph[plan].next[a][at] IN
  /\ phase = "review"
  /\ decided' = [decided EXCEPT ![at] = a]
  /\ at' = next
  /\ phase' \in IF next = NoNode THEN EndPhases(a) ELSE {"review"}
  /\ UNCHANGED plan

Move(from, to) == /\ phase \in from /\ phase' = to /\ at' = NoNode
                  /\ UNCHANGED <<plan, decided>>

Revise   == Move({"approved", "completed"}, "open")
Cancel   == Move({"open", "review", "rejected"}, "cancelled")
Complete == Move({"approved"}, "completed")

Next == \/ Submit \/ Revise \/ Cancel \/ Complete
        \/ \E a \in Outcome : Decide(a)

Spec == Init /\ [][Next]_pvars

=============================================================================
