------------------------ MODULE MCDocumentLifecycle ------------------------
(***************************************************************************)
(* Small instances of DocumentLifecycle: the creator, one approver, a plan *)
(* of two steps, two or three revisions and two disposal requests.         *)
(***************************************************************************)
EXTENDS DocumentLifecycle, TLC

CONSTANTS n1, n2, p1, creator, ann, v1, v2, v3, k1, k2

Nowhere == [n \in Node |-> NoNode]

TwoSteps ==
  [first |-> n1, nodes |-> {n1, n2},
   next  |-> [approve |-> (n1 :> n2) @@ (n2 :> NoNode), reject |-> Nowhere]
             @@ ("request-revision" :> Nowhere)]

MCGraph     == p1 :> TwoSteps
MCQualified == [n \in Node |-> {ann}]
MCResolved  == [n \in Node |-> ann]
MCStages    == (n1 :> "PLANT_MANAGER") @@ (n2 :> "DOCUMENT_CONTROLLER_ADMIN")

MCData == {[type |-> "SOFTCOPY", action |-> "CREATE"], [type |-> "HARDCOPY", action |-> "CREATE"]}
Softcopies == {[type |-> "SOFTCOPY", action |-> "CREATE"]}

Approval    == {"submit", "approve", "reject", "revise", "complete"}
Everything  == Approval \cup LifecycleOps

Slots == Permutations(Req) \cup Permutations(Rev) \cup Permutations(Ticket)
=============================================================================
