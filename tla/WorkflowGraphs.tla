--------------------------- MODULE WorkflowGraphs ---------------------------
(***************************************************************************)
(* Workflow graphs as WorkflowDefinitionsService accepts them              *)
(* (validateGraph) and the plan that DocumentsService makes of one for a   *)
(* request (workflowGraphToPlan).  A connection's conditions are           *)
(* abstracted to the set of requests that meet them.                       *)
(*                                                                         *)
(* The graph is drawn one connection at a time, every drawing is saved:    *)
(* its reachable values are the graphs validateGraph lets pass.            *)
(***************************************************************************)
EXTENDS FiniteSets, Naturals

CONSTANTS
  GraphNode,   \* node keys
  Approval,    \* the nodes of type APPROVAL, the others are END
  StartNode,   \* start_node_key
  Kind,        \* what conditions can tell requests apart by
  Condition,   \* the conditions used: sets of kinds
  MaxEdges     \* connections a graph may have

ASSUME WorkflowGraphAssumption ==
  /\ StartNode \in Approval /\ Approval \subseteq GraphNode
  /\ Condition \subseteq SUBSET Kind /\ MaxEdges \in Nat
  /\ "none" \notin GraphNode

VARIABLE edges

EdgeOutcome == {"APPROVE", "REJECT", "RETURN", "DEFAULT"}
StepOutcome == EdgeOutcome \ {"DEFAULT"}

EdgeRecord == [from : GraphNode, to : GraphNode, outcome : EdgeOutcome, when : Condition]

\* Mutant: only APPROVE and DEFAULT connections are looked at
Acyclic_ApproveOnly(E) ==
  ~\E S \in (SUBSET GraphNode) \ {{}} : \A n \in S : \E e \in E :
      e.from = n /\ e.to \in S /\ e.outcome \in {"APPROVE", "DEFAULT"}

\* No set of nodes is such that each has a connection into the set
Acyclic(E) ==
  ~\E S \in (SUBSET GraphNode) \ {{}} : \A n \in S : \E e \in E : e.from = n /\ e.to \in S

ValidGraph(E) ==
  /\ \A e \in E : e.from \in Approval
  /\ Acyclic(E)

-----------------------------------------------------------------------------
(* workflowGraphToPlan *)

Matching(E, n, o, k) == {e \in E : e.from = n /\ e.outcome = o /\ k \in e.when}

\* targetsFor: an approval falls back on the default connections
EdgesFor(E, n, o, k) ==
  IF o = "APPROVE" /\ Matching(E, n, o, k) = {}
  THEN Matching(E, n, "DEFAULT", k)
  ELSE Matching(E, n, o, k)

Leads(E, n, o, k, m) == \E e \in EdgesFor(E, n, o, k) : e.to = m

\* The nodes the traversal from the start comes to
Reachable(E, k) ==
  {m \in GraphNode : \A S \in SUBSET GraphNode :
     /\ StartNode \in S
     /\ \A n \in S \cap Approval, o \in StepOutcome :
          \A e \in EdgesFor(E, n, o, k) : e.to \in S
     => m \in S}

PlanNodes(E, k) == Reachable(E, k) \cap Approval

\* No path is ambiguous, and where approvals lead on, one does for this request
PlanExists(E, k) ==
  \A n \in PlanNodes(E, k) :
    /\ \A o \in StepOutcome : Cardinality(EdgesFor(E, n, o, k)) < 2
    /\ (\E e \in E : e.from = n /\ e.outcome \in {"APPROVE", "DEFAULT"})
         => EdgesFor(E, n, "APPROVE", k) # {}

\* targetFor: the approval node an outcome leads to
Target(E, n, o, k) ==
  IF \E m \in Approval : Leads(E, n, o, k, m)
  THEN CHOOSE m \in Approval : Leads(E, n, o, k, m)
  ELSE "none"

-----------------------------------------------------------------------------

GraphInit == edges = {}

Connect(e) ==
  /\ e \notin edges /\ Cardinality(edges) < MaxEdges
  /\ ValidGraph(edges \cup {e})
  /\ edges' = edges \cup {e}

Disconnect(e) ==
  /\ e \in edges
  /\ edges' = edges \ {e}

GraphNext == \E e \in EdgeRecord : Connect(e) \/ Disconnect(e)

GraphSpec == GraphInit /\ [][GraphNext]_edges

-----------------------------------------------------------------------------
(* Properties *)

\* What DocumentWorkflow assumes of a plan (GraphAssumption): it starts at one of
\* its nodes, and every outcome leads to another of them or to none.
PlanIsClosed ==
  \A k \in Kind : PlanExists(edges, k) =>
    /\ StartNode \in PlanNodes(edges, k)
    /\ \A n \in PlanNodes(edges, k), o \in StepOutcome :
         Target(edges, n, o, k) \in (PlanNodes(edges, k) \ {n}) \cup {"none"}

\* Every review ends: whatever the outcomes are, no set of steps is walked for ever.
PlanEnds ==
  \A k \in Kind : \A S \in (SUBSET Approval) \ {{}} :
    \E n \in S : \A o \in StepOutcome : Target(edges, n, o, k) \notin S

\* An approval ends the review only where the graph says so for this request: the
\* plan is refused rather than cut short when no approving connection applies.
ApprovalNotCutShort ==
  \A k \in Kind : PlanExists(edges, k) => \A n \in PlanNodes(edges, k) :
    Target(edges, n, "APPROVE", k) = "none" =>
      \A e \in edges : e.from = n /\ e.outcome \in {"APPROVE", "DEFAULT"} =>
        \E f \in edges : f.from = n /\ f.outcome \in {"APPROVE", "DEFAULT"}
                         /\ k \in f.when /\ f.to \notin Approval

\* All three: the plan of a graph that passed is closed, finite and whole.
PlanIsSound == PlanIsClosed /\ PlanEnds /\ ApprovalNotCutShort

=============================================================================
