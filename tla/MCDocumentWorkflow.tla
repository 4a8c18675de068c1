------------------------- MODULE MCDocumentWorkflow -------------------------
(***************************************************************************)
(* Small instances of DocumentWorkflow: a creator and two approvers, three *)
(* approval nodes, and the two versions a draft may be based on.           *)
(***************************************************************************)
EXTENDS DocumentWorkflow, TLC

CONSTANTS n1, n2, n3, p1, p2, creator, ann, ben

Nowhere == [n \in Node |-> NoNode]

\* n1, n2 and n3 in a row; n1 returns the request to n2 instead of to its
\* creator, and a rejection at n2 is confirmed at n3.
LongPlan ==
  [first |-> n1, nodes |-> {n1, n2, n3},
   next  |-> [approve  |-> (n1 :> n2) @@ (n2 :> n3) @@ (n3 :> NoNode),
              reject   |-> [Nowhere EXCEPT ![n2] = n3]]
             @@ ("request-revision" :> [Nowhere EXCEPT ![n1] = n2])]

\* n3 alone
ShortPlan ==
  [first |-> n3, nodes |-> {n3},
   next  |-> [o \in Outcome |-> Nowhere]]

MCGraph == (p1 :> LongPlan) @@ (p2 :> ShortPlan)

MCQualified == (n1 :> {ann, creator}) @@ (n2 :> {ann, ben}) @@ (n3 :> {ben})
\* The last step may be reassigned as well
WideQualified == [MCQualified EXCEPT ![n3] = {ann, ben}]

MCResolved  == (n1 :> ann) @@ (n2 :> ben) @@ (n3 :> ben)

\* Two steps of one stage, so that only the node key tells them apart
CustomStages == (n1 :> "CUSTOM") @@ (n2 :> "CUSTOM") @@ (n3 :> "PLANT_MANAGER")

\* The standard order of a softcopy request
StandardStages ==
  (n1 :> "NOTED_BY") @@ (n2 :> "PLANT_MANAGER") @@ (n3 :> "DOCUMENT_CONTROLLER_ADMIN")

Softcopy == [type |-> "SOFTCOPY", action |-> "CREATE"]
Hardcopy == [type |-> "HARDCOPY", action |-> "CREATE"]
Withdraw == [type |-> "SOFTCOPY", action |-> "CANCELLATION"]

OnlySoftcopy == {Softcopy}
BothTypes    == {Softcopy, Hardcopy}
AllData      == {Softcopy, Hardcopy, Withdraw}

Slots == Permutations(Req)

Transitions  == Outcome \cup {"submit", "revise", "cancel", "complete"}
Reviewing    == Transitions \cup {"reassign", "edit"}
WithEdits    == Transitions \cup {"edit", "reselect"}
WithFiles    == Transitions \cup {"attach", "detach"}
=============================================================================
