---------------------- MODULE WorkflowDefinitionsProofs ----------------------
(***************************************************************************)
(* Theorems about workflow graphs, about their versions and about the tree *)
(* of softcopy folders: for any set of nodes, conditions, versions,        *)
(* folders and overlapping handlers.                                       *)
(***************************************************************************)
EXTENDS WorkflowGraphs, WorkflowDefinitions, SoftcopyFolders, FiniteSetTheorems,
        WellFoundedInduction, TLAPS

-----------------------------------------------------------------------------
(* Graphs *)

GraphInv == edges \subseteq EdgeRecord /\ Acyclic(edges)

LEMMA GraphSafe == GraphSpec => []GraphInv
<1>1. GraphInit => GraphInv
  <2>1. \A S \in (SUBSET GraphNode) \ {{}} : \E n \in S : TRUE
    OBVIOUS
  <2> QED BY <2>1 DEF GraphInit, GraphInv, Acyclic
<1>2. GraphInv /\ [GraphNext]_edges => GraphInv'
  BY DEF GraphInv, GraphNext, Connect, Disconnect, ValidGraph, Acyclic
<1> QED BY <1>1, <1>2, PTL DEF GraphSpec

\* A target that is a node is the end of a connection of the graph
LEMMA TargetIsConnected ==
  ASSUME GraphInv, NEW n \in Approval, NEW o, NEW k \in Kind, Target(edges, n, o, k) # "none"
  PROVE  /\ Target(edges, n, o, k) \in Approval
         /\ \E e \in EdgesFor(edges, n, o, k) : e.to = Target(edges, n, o, k)
<1>1. \E m \in Approval : Leads(edges, n, o, k, m)
  BY DEF Target
<1> DEFINE t == CHOOSE m \in Approval : Leads(edges, n, o, k, m)
<1>2. t \in Approval /\ Leads(edges, n, o, k, t)
  BY <1>1
<1>3. Target(edges, n, o, k) = t
  BY <1>1 DEF Target
<1> QED BY <1>2, <1>3 DEF Leads

LEMMA EdgesForFrom ==
  ASSUME NEW n, NEW o, NEW k
  PROVE  \A e \in EdgesFor(edges, n, o, k) : e \in edges /\ e.from = n
BY DEF EdgesFor, Matching

LEMMA EndsInGraph == GraphInv => PlanEnds
<1> SUFFICES ASSUME GraphInv, NEW k \in Kind, NEW S \in (SUBSET Approval) \ {{}},
                    \A n \in S : \E o \in StepOutcome : Target(edges, n, o, k) \in S
             PROVE  FALSE
  BY DEF PlanEnds
<1>1. S \subseteq GraphNode /\ S # {} /\ S \subseteq Approval /\ "none" \notin S
  BY WorkflowGraphAssumption
<1>2. \A n \in S : \E e \in edges : e.from = n /\ e.to \in S
  BY <1>1, TargetIsConnected, EdgesForFrom
<1> QED BY <1>1, <1>2 DEF GraphInv, Acyclic

LEMMA ClosedInGraph == GraphInv => PlanIsClosed
<1> SUFFICES ASSUME GraphInv, NEW k \in Kind
             PROVE  /\ StartNode \in PlanNodes(edges, k)
                    /\ \A n \in PlanNodes(edges, k), o \in StepOutcome :
                         Target(edges, n, o, k) \in (PlanNodes(edges, k) \ {n}) \cup {"none"}
  BY DEF PlanIsClosed
<1>1. StartNode \in PlanNodes(edges, k)
  BY WorkflowGraphAssumption DEF PlanNodes, Reachable
<1>2. ASSUME NEW n \in PlanNodes(edges, k), NEW o \in StepOutcome, Target(edges, n, o, k) # "none"
      PROVE  Target(edges, n, o, k) \in PlanNodes(edges, k) \ {n}
  <2> DEFINE m == Target(edges, n, o, k)
  <2>1. n \in Approval /\ n \in GraphNode /\ n \in Reachable(edges, k)
    BY DEF PlanNodes, Reachable
  <2>2. m \in Approval /\ m \in GraphNode /\ \E e \in EdgesFor(edges, n, o, k) : e.to = m
    BY <1>2, <2>1, TargetIsConnected, WorkflowGraphAssumption
  <2> HIDE DEF m
  <2>3. m \in Reachable(edges, k)
    BY <2>1, <2>2 DEF Reachable
  <2>4. m # n
    <3>1. ~\A x \in {n} : \E e \in edges : e.from = x /\ e.to \in {n}
      BY <2>1 DEF GraphInv, Acyclic
    <3> QED BY <2>2, <3>1, EdgesForFrom
  <2> QED BY <2>2, <2>3, <2>4 DEF m, PlanNodes
<1> QED BY <1>1, <1>2

LEMMA WholeInGraph == GraphInv => ApprovalNotCutShort
<1> SUFFICES ASSUME GraphInv, NEW k \in Kind, PlanExists(edges, k), NEW n \in PlanNodes(edges, k),
                    Target(edges, n, "APPROVE", k) = "none",
                    NEW e \in edges, e.from = n, e.outcome \in {"APPROVE", "DEFAULT"}
             PROVE  \E f \in edges : f.from = n /\ f.outcome \in {"APPROVE", "DEFAULT"}
                                     /\ k \in f.when /\ f.to \notin Approval
  BY DEF ApprovalNotCutShort
<1>1. PICK f \in EdgesFor(edges, n, "APPROVE", k) : TRUE
  BY DEF PlanExists
<1>2. f \in edges /\ f.from = n /\ f.outcome \in {"APPROVE", "DEFAULT"} /\ k \in f.when
  BY <1>1 DEF EdgesFor, Matching
<1>3. ~\E m \in Approval : Leads(edges, n, "APPROVE", k, m)
  <2> SUFFICES ASSUME \E m \in Approval : Leads(edges, n, "APPROVE", k, m) PROVE FALSE
    OBVIOUS
  <2> DEFINE t == CHOOSE m \in Approval : Leads(edges, n, "APPROVE", k, m)
  <2>1. t \in Approval
    OBVIOUS
  <2>2. Target(edges, n, "APPROVE", k) = t
    BY DEF Target
  <2> QED BY <2>1, <2>2, WorkflowGraphAssumption
<1> QED BY <1>1, <1>2, <1>3 DEF Leads

\* validateGraph: its check of cycles makes every review end, for any graph, request and
\* outcomes.
THEOREM ReviewsAreFinite == GraphSpec => []PlanEnds
BY GraphSafe, EndsInGraph, PTL

\* workflowGraphToPlan: a plan starts at one of its nodes and every outcome leads to
\* another of them or ends: what DocumentWorkflow assumes of every plan.
THEOREM PlansAreClosed == GraphSpec => []PlanIsClosed
BY GraphSafe, ClosedInGraph, PTL

\* workflowGraphToPlan: no plan ends a review where the graph's conditions do not.
THEOREM PlansAreWhole == GraphSpec => []ApprovalNotCutShort
BY GraphSafe, WholeInGraph, PTL

\* validateGraph and workflowGraphToPlan together: the plan of every graph that passes
\* is closed, ends, and ends nowhere before the graph does.
THEOREM PlansAreSound == GraphSpec => []PlanIsSound
<1>1. PlanIsClosed /\ PlanEnds /\ ApprovalNotCutShort => PlanIsSound
  BY DEF PlanIsSound
<1> QED BY <1>1, ReviewsAreFinite, PlansAreClosed, PlansAreWhole, PTL

-----------------------------------------------------------------------------
(* Versions *)

Row(r) == r = [status |-> r.status, number |-> r.number, graph |-> r.graph]

Shape ==
  /\ versions = [v \in Version |-> versions[v]] /\ \A v \in Version : Row(versions[v])
  /\ edits = [s \in Editor |-> edits[s]]
  /\ \A s \in Editor : edits[s] = [op |-> edits[s].op, version |-> edits[s].version,
                                   row |-> edits[s].row, seen |-> edits[s].seen]

\* A handler in flight holds a draft; only a creation holds a version without a row,
\* and holds it alone
Held ==
  \A s \in Editor : LET e == edits[s] IN
    /\ e.op \in {"idle", "create", "update", "publish", "replace"}
    /\ e.op = "idle" => e.version = "none"
    /\ e.op # "idle" => e.version \in Version /\ e.row.status = "DRAFT" /\ Row(e.row)
    /\ e.op \in {"update", "publish", "replace"} => versions[e.version].status # "NONE"
    /\ e.op = "replace" => \A v \in e.seen : v \in Version /\ versions[v].status # "NONE"
    /\ e.op = "create" => /\ versions[e.version].status = "NONE"
                          /\ \A r \in Editor \ {s} : edits[r].version # e.version

\* Without a collision one publication replaces what is published
Single ==
  ~collided =>
    /\ \A u, v \in Published : u = v
    /\ \A s \in Editor : edits[s].op = "replace" =>
         /\ edits[s].seen = Published
         /\ \A r \in Editor : edits[r].op = "replace" => r = s

DefinitionsInv == Shape /\ Held /\ Single /\ collided \in BOOLEAN

LEMMA EditStarts ==
  ASSUME DefinitionsInv, NEW s \in Editor, NEW o \in {"create", "update", "publish"},
         NEW v \in Version, NEW r, r.status = "DRAFT", Row(r), StartEdit(s, o, v, r),
         o = "create" => versions[v].status = "NONE" /\ \A q \in Editor : edits[q].version # v,
         o # "create" => versions[v].status # "NONE"
  PROVE  DefinitionsInv'
<1> DEFINE e == [op |-> o, version |-> v, row |-> r, seen |-> {}]
<1>1. /\ edits' = [edits EXCEPT ![s] = e] /\ edits[s].op = "idle"
      /\ UNCHANGED <<versions, collided>>
  BY DEF StartEdit, AtRest
<1>2. e.op = o /\ e.version = v /\ e.row = r /\ e.seen = {}
  OBVIOUS
<1>3. e = [op |-> e.op, version |-> e.version, row |-> e.row, seen |-> e.seen]
  OBVIOUS
<1> HIDE DEF e
<1>4. edits' = [q \in Editor |-> IF q = s THEN e ELSE edits[q]]
  BY <1>1 DEF DefinitionsInv, Shape
<1>5. Shape'
  BY <1>1, <1>3, <1>4 DEF DefinitionsInv, Shape
<1>6. Held'
  BY <1>1, <1>2, <1>4 DEF DefinitionsInv, Held
<1>7. Single'
  BY <1>1, <1>2, <1>4 DEF DefinitionsInv, Single, Published
<1> QED BY <1>1, <1>5, <1>6, <1>7 DEF DefinitionsInv

\* What remains when a handler ends and a row changes
LEMMA EditEnds ==
  ASSUME DefinitionsInv, NEW s \in Editor, EndEdit(s), UNCHANGED collided, Single',
         versions' = [v \in Version |-> versions'[v]], \A v \in Version : Row(versions'[v]),
         edits[s].op # "idle",
         \A v \in Version : v # edits[s].version =>
           (versions'[v].status = "NONE" <=> versions[v].status = "NONE"),
         edits[s].op # "create" => versions'[edits[s].version].status # "NONE"
  PROVE  DefinitionsInv'
<1>1. edits' = [q \in Editor |-> IF q = s THEN AtRest ELSE edits[q]]
  BY DEF EndEdit, DefinitionsInv, Shape
<1>2. /\ AtRest.op = "idle" /\ AtRest.version = "none"
      /\ AtRest = [op |-> AtRest.op, version |-> AtRest.version, row |-> AtRest.row, seen |-> AtRest.seen]
  BY DEF AtRest
<1>3. Shape'
  BY <1>1, <1>2 DEF DefinitionsInv, Shape
<1>4. \A q \in Editor : edits[q].op \in {"update", "publish", "replace"} /\ q # s =>
        (edits[s].op = "create" => edits[q].version # edits[s].version)
  BY DEF DefinitionsInv, Held
<1>6. \A q \in Editor : edits[q].op = "replace" /\ q # s =>
        \A v \in edits[q].seen : v \in Version /\ versions'[v].status # "NONE"
  BY DEF DefinitionsInv, Held
<1>5. Held'
  BY <1>1, <1>2, <1>4, <1>6, VersionAssumption DEF DefinitionsInv, Held
<1> QED BY <1>3, <1>5 DEF DefinitionsInv

LEMMA VersionCommits ==
  ASSUME DefinitionsInv, NEW s \in Editor, CommitVersion(s)
  PROVE  DefinitionsInv' /\ Published' = Published
<1> DEFINE w == edits[s].version
           r == edits[s].row
<1>1. /\ edits[s].op = "create" /\ w \in Version /\ r.status = "DRAFT" /\ Row(r)
      /\ versions[w].status = "NONE"
  BY DEF CommitVersion, DefinitionsInv, Held
<1>2. versions' = versions \/ versions' = [versions EXCEPT ![w] = r]
  BY DEF CommitVersion
<1> HIDE DEF w, r
<1>3. /\ versions' = [v \in Version |-> versions'[v]] /\ \A v \in Version : Row(versions'[v])
      /\ \A v \in Version \ {w} : versions'[v] = versions[v]
      /\ versions'[w].status \in {"NONE", "DRAFT"}
  BY <1>1, <1>2 DEF DefinitionsInv, Shape
<1>4. Published' = Published
  BY <1>1, <1>3 DEF Published
<1>5. Single'
  BY <1>1, <1>4 DEF CommitVersion, EndEdit, AtRest, DefinitionsInv, Single, Shape
<1>6. EndEdit(s) /\ UNCHANGED collided
  BY DEF CommitVersion
<1> QED BY <1>1, <1>3, <1>4, <1>5, <1>6, EditEnds DEF w

LEMMA UpdateCommits ==
  ASSUME DefinitionsInv, NEW s \in Editor, CommitUpdate(s)
  PROVE  DefinitionsInv' /\ Published' = Published
<1> DEFINE w == edits[s].version
           g == edits[s].row.graph
<1>1. edits[s].op = "update" /\ w \in Version /\ versions[w].status # "NONE"
  BY DEF CommitUpdate, DefinitionsInv, Held
<1>2. versions' = [versions EXCEPT ![w].graph = g]
  BY DEF CommitUpdate
<1> HIDE DEF w, g
<1>3. /\ versions' = [v \in Version |-> versions'[v]]
      /\ \A v \in Version \ {w} : versions'[v] = versions[v]
      /\ versions'[w] = [status |-> versions[w].status, number |-> versions[w].number, graph |-> g]
  BY <1>1, <1>2 DEF DefinitionsInv, Shape, Row
<1>4. \A v \in Version : Row(versions'[v]) /\ versions'[v].status = versions[v].status
  BY <1>3 DEF DefinitionsInv, Shape, Row
<1>5. Published' = Published
  BY <1>4 DEF Published
<1>6. Single'
  BY <1>1, <1>5 DEF CommitUpdate, EndEdit, AtRest, DefinitionsInv, Single, Shape
<1>7. EndEdit(s) /\ UNCHANGED collided
  BY DEF CommitUpdate
<1> QED BY <1>1, <1>3, <1>4, <1>5, <1>6, <1>7, EditEnds DEF w

LEMMA PublicationSees ==
  ASSUME DefinitionsInv, NEW s \in Editor, SeePublished(s)
  PROVE  DefinitionsInv'
<1>1. /\ edits[s].op = "publish" /\ versions' = versions
      /\ edits' = [edits EXCEPT ![s].op = "replace", ![s].seen = Published]
  BY DEF SeePublished
<1>2. /\ collided => collided'
      /\ collided' \in BOOLEAN
      /\ ~collided' => \A r \in Editor : edits[r].op # "replace"
  BY Zenon DEF SeePublished, DefinitionsInv
<1> DEFINE e == [op |-> "replace", version |-> edits[s].version, row |-> edits[s].row, seen |-> Published]
<1>3. edits' = [q \in Editor |-> IF q = s THEN e ELSE edits[q]]
  <2>1. edits[s] = [op |-> edits[s].op, version |-> edits[s].version,
                    row |-> edits[s].row, seen |-> edits[s].seen]
    BY DEF DefinitionsInv, Shape
  <2>2. [[edits[s] EXCEPT !.op = "replace"] EXCEPT !.seen = Published] = e
    <3> DEFINE m == [op |-> "replace", version |-> edits[s].version, row |-> edits[s].row,
                     seen |-> edits[s].seen]
    <3>1. [edits[s] EXCEPT !.op = "replace"] = m
      BY <2>1
    <3>2. [m EXCEPT !.seen = Published] = e
      OBVIOUS
    <3> QED BY <3>1, <3>2
  <2>3. edits' = [edits EXCEPT ![s] = [[edits[s] EXCEPT !.op = "replace"] EXCEPT !.seen = Published]]
    BY <1>1 DEF DefinitionsInv, Shape
  <2> HIDE DEF e
  <2> QED BY <2>2, <2>3 DEF DefinitionsInv, Shape
<1>4. /\ e.op = "replace" /\ e.version = edits[s].version /\ e.row = edits[s].row /\ e.seen = Published
      /\ e = [op |-> e.op, version |-> e.version, row |-> e.row, seen |-> e.seen]
  OBVIOUS
<1> HIDE DEF e
<1>5. Shape'
  BY <1>1, <1>3, <1>4 DEF DefinitionsInv, Shape
<1>6. Held'
  BY <1>1, <1>3, <1>4 DEF DefinitionsInv, Held, Published
<1>7. Published' = Published
  BY <1>1 DEF Published
<1>8. Single'
  BY <1>2, <1>3, <1>4, <1>7 DEF DefinitionsInv, Single
<1> QED BY <1>2, <1>5, <1>6, <1>8 DEF DefinitionsInv

LEMMA PublicationCommits ==
  ASSUME DefinitionsInv, NEW s \in Editor, CommitPublish(s)
  PROVE  DefinitionsInv' /\ Published' # {}
<1> DEFINE w == edits[s].version
<1>1. edits[s].op = "replace" /\ w \in Version
  BY DEF CommitPublish, DefinitionsInv, Held
<1>2. EndEdit(s) /\ UNCHANGED collided
  BY DEF CommitPublish
<1>3. versions' = [v \in Version |->
        IF v = w THEN [versions[v] EXCEPT !.status = "PUBLISHED"]
        ELSE IF v \in edits[s].seen THEN [versions[v] EXCEPT !.status = "ARCHIVED"]
        ELSE versions[v]]
  BY DEF CommitPublish
<1> HIDE DEF w
<1>4. \A v \in Version, x \in {"PUBLISHED", "ARCHIVED"} :
        [versions[v] EXCEPT !.status = x] = [status |-> x, number |-> versions[v].number,
                                             graph |-> versions[v].graph]
  BY DEF DefinitionsInv, Shape, Row
<1>5. /\ versions' = [v \in Version |-> versions'[v]] /\ \A v \in Version : Row(versions'[v])
      /\ versions'[w].status = "PUBLISHED"
      /\ \A v \in Version \ {w} : versions'[v].status =
           IF v \in edits[s].seen THEN "ARCHIVED" ELSE versions[v].status
  BY <1>1, <1>3, <1>4 DEF DefinitionsInv, Shape, Row
<1>6. w \in Published'
  BY <1>1, <1>5 DEF Published
<1>7. ~collided => edits[s].seen = Published /\ \A r \in Editor : edits[r].op = "replace" => r = s
  BY <1>1 DEF DefinitionsInv, Single
<1>8. ~collided => Published' = {w}
  BY <1>1, <1>5, <1>6, <1>7 DEF Published
<1>9. Single'
  BY <1>2, <1>7, <1>8 DEF EndEdit, AtRest, DefinitionsInv, Single, Shape
<1>10. \A v \in edits[s].seen : v \in Version /\ versions[v].status # "NONE"
  BY <1>1 DEF DefinitionsInv, Held
<1> QED BY <1>1, <1>2, <1>5, <1>6, <1>9, <1>10, EditEnds DEF w

LEMMA DefinitionsStep ==
  ASSUME DefinitionsInv, [DefinitionsNext]_dvars
  PROVE  DefinitionsInv' /\ (Published' = Published \/ Published' # {})
<1>1. ASSUME NEW s \in Editor, NEW v \in Version, NEW g \in Draft, BeginVersion(s, v, g)
      PROVE  DefinitionsInv' /\ Published' = Published
  <2> DEFINE r == [status |-> "DRAFT", number |-> Latest + 1, graph |-> g]
  <2>1. /\ StartEdit(s, "create", v, r) /\ versions[v].status = "NONE"
        /\ \A q \in Editor : edits[q].version # v
    BY <1>1 DEF BeginVersion, Exists
  <2>2. r.status = "DRAFT" /\ Row(r)
    BY DEF Row
  <2> HIDE DEF r
  <2> QED BY <2>1, <2>2, EditStarts DEF StartEdit, Published
<1>2. ASSUME NEW s \in Editor, NEW v \in Version, NEW g \in Draft, BeginUpdate(s, v, g)
      PROVE  DefinitionsInv' /\ Published' = Published
  <2> DEFINE r == [versions[v] EXCEPT !.graph = g]
  <2>1. StartEdit(s, "update", v, r) /\ versions[v].status = "DRAFT"
    BY <1>2 DEF BeginUpdate, Alterable
  <2>2. r.status = "DRAFT" /\ Row(r)
    BY <2>1 DEF Row, DefinitionsInv, Shape
  <2> HIDE DEF r
  <2> QED BY <2>1, <2>2, EditStarts DEF StartEdit, Published
<1>3. ASSUME NEW s \in Editor, NEW v \in Version, BeginPublish(s, v)
      PROVE  DefinitionsInv' /\ Published' = Published
  <2>1. StartEdit(s, "publish", v, versions[v]) /\ versions[v].status = "DRAFT" /\ Row(versions[v])
    BY <1>3 DEF BeginPublish, DefinitionsInv, Shape
  <2> QED BY <2>1, EditStarts DEF StartEdit, Published
<1>4. ASSUME NEW s \in Editor, SeePublished(s) PROVE Published' = Published
  BY <1>4 DEF SeePublished, Published
<1>5. CASE UNCHANGED dvars
  BY <1>5 DEF dvars, DefinitionsInv, Shape, Row, Held, Single, Published
<1> QED BY <1>1, <1>2, <1>3, <1>4, <1>5, VersionCommits, UpdateCommits, PublicationSees,
           PublicationCommits DEF DefinitionsNext

LEMMA DefinitionsSafe == DefinitionsSpec => []DefinitionsInv
<1>1. DefinitionsInit => DefinitionsInv
  <2> SUFFICES ASSUME DefinitionsInit PROVE DefinitionsInv
    OBVIOUS
  <2>1. Shape /\ Held /\ Published = {}
    BY DEF DefinitionsInit, NoVersion, AtRest, Shape, Row, Held, Published
  <2>2. Single /\ collided \in BOOLEAN
    BY <2>1 DEF DefinitionsInit, AtRest, Single
  <2> QED BY <2>1, <2>2 DEF DefinitionsInv
<1> QED BY <1>1, DefinitionsStep, PTL DEF DefinitionsSpec

\* publish(): once a version is published there is always one for new requests,
\* however publications, edits and creations overlap.
THEOREM WorkflowStaysPublished == DefinitionsSpec => AlwaysPublished
<1>1. DefinitionsInv /\ [DefinitionsNext]_dvars => [Published # {} => Published' # {}]_dvars
  BY DefinitionsStep
<1> QED BY <1>1, DefinitionsSafe, PTL DEF DefinitionsSpec, AlwaysPublished

\* publish(): two versions are published only after publications that overlapped.
THEOREM OneVersionPublished == DefinitionsSpec => []OnePublished
<1>1. ASSUME DefinitionsInv, ~collided PROVE ~(Cardinality(Published) > 1)
  <2>1. \A u, v \in Published : u = v
    BY <1>1 DEF DefinitionsInv, Single
  <2>2. CASE Published = {}
    BY <2>2, FS_EmptySet
  <2>3. CASE Published # {}
    <3>1. PICK v \in Published : Published = {v}
      BY <2>1, <2>3
    <3> QED BY <3>1, FS_Singleton
  <2> QED BY <2>2, <2>3
<1>2. DefinitionsInv => OnePublished
  BY <1>1 DEF OnePublished
<1> QED BY <1>2, DefinitionsSafe, PTL

LEMMA IssuedStep ==
  ASSUME DefinitionsInv, [DefinitionsNext]_dvars, NEW v \in Version,
         versions[v].status \in {"PUBLISHED", "ARCHIVED"}, ~HeldAsDraft(v)
  PROVE  versions'[v] = versions[v] \/ versions'[v] = [versions[v] EXCEPT !.status = "ARCHIVED"]
<1>1. \A s \in Editor : edits[s].op # "idle" => edits[s].version # v
  BY DEF HeldAsDraft, DefinitionsInv, Held
<1>2. versions = [w \in Version |-> versions[w]]
  BY DEF DefinitionsInv, Shape
<1>3. ASSUME NEW s \in Editor, CommitVersion(s) \/ CommitUpdate(s) PROVE versions'[v] = versions[v]
  BY <1>1, <1>2, <1>3 DEF CommitVersion, CommitUpdate
<1>4. ASSUME NEW s \in Editor, CommitPublish(s)
      PROVE  versions'[v] = versions[v] \/ versions'[v] = [versions[v] EXCEPT !.status = "ARCHIVED"]
  BY <1>1, <1>4 DEF CommitPublish
<1>5. CASE UNCHANGED versions
  BY <1>5
<1> QED BY <1>3, <1>4, <1>5
        DEF DefinitionsNext, BeginVersion, BeginUpdate, BeginPublish, StartEdit, SeePublished, dvars

\* updateVersion() and publish(): a published or archived version changes only by being
\* archived, unless a handler still in flight read it as a draft.
THEOREM IssuedVersionsStay == DefinitionsSpec => IssuedIsFixed
<1>1. DefinitionsInv /\ [DefinitionsNext]_dvars =>
        [\A v \in Version : versions[v].status \in {"PUBLISHED", "ARCHIVED"} /\ ~HeldAsDraft(v) =>
           versions'[v] = versions[v] \/ versions'[v] = [versions[v] EXCEPT !.status = "ARCHIVED"]]_dvars
  BY IssuedStep
<1> QED BY <1>1, DefinitionsSafe, PTL DEF DefinitionsSpec, IssuedIsFixed

\* publish() and replaceGraph() together: new requests always find a published version,
\* and those that use an issued one find the graph they were submitted to.
THEOREM PublicationsAreLasting == DefinitionsSpec => PublicationsLast
BY WorkflowStaysPublished, IssuedVersionsStay DEF PublicationsLast

-----------------------------------------------------------------------------
(* Softcopy folders: paths *)

LEMMA SuffixNat == Cardinality(Folder) \in Nat /\ Suffix \subseteq Nat /\ 1 \in Suffix
BY FS_CardinalityType, FolderAssumption DEF Suffix

\* A sequence with one element replaced.
LEMMA ExceptSeq ==
  ASSUME NEW X, NEW t \in Seq(X), NEW n \in 1 .. Len(t), NEW x \in X
  PROVE  /\ [t EXCEPT ![n] = x] \in Seq(X) /\ Len([t EXCEPT ![n] = x]) = Len(t)
         /\ \A i \in 1 .. Len(t) : [t EXCEPT ![n] = x][i] = IF i = n THEN x ELSE t[i]
OBVIOUS

\* A suffix replaces the last one.
LEMMA SuffixedAppend ==
  ASSUME NEW s \in Path, NEW n \in Name, NEW k \in Suffix
  PROVE  Suffixed(Append(s, <<n, 1>>), k) = Append(s, <<n, k>>)
<1>1. <<n, 1>> \in Name \X Suffix /\ <<n, k>> \in Name \X Suffix
  BY SuffixNat
<1> DEFINE t == Append(s, <<n, 1>>)
<1>2. t \in Path /\ Len(t) = Len(s) + 1 /\ t[Len(t)] = <<n, 1>> /\ \A i \in 1 .. Len(s) : t[i] = s[i]
  BY <1>1 DEF Path
<1>3. [<<n, 1>> EXCEPT ![2] = k] = <<n, k>>
  OBVIOUS
<1>4. Suffixed(t, k) = [t EXCEPT ![Len(t)] = <<n, k>>]
  BY <1>2, <1>3 DEF Suffixed
<1>5. [t EXCEPT ![Len(t)] = <<n, k>>] = Append(s, <<n, k>>)
  <2> DEFINE a == [t EXCEPT ![Len(t)] = <<n, k>>]
             b == Append(s, <<n, k>>)
  <2>1. a \in Path /\ Len(a) = Len(t) /\ \A i \in 1 .. Len(t) : a[i] = IF i = Len(t) THEN <<n, k>> ELSE t[i]
    <3>1. t \in Path /\ Len(t) \in 1 .. Len(t) /\ <<n, k>> \in Name \X Suffix
      BY <1>1, <1>2 DEF Path
    <3> HIDE DEF t
    <3> QED BY <3>1, ExceptSeq DEF Path
  <2>2. b \in Path /\ Len(b) = Len(s) + 1 /\ \A i \in 1 .. Len(s) + 1 : b[i] = IF i = Len(s) + 1 THEN <<n, k>> ELSE s[i]
    BY <1>1 DEF Path
  <2> HIDE DEF a, b
  <2>3. Len(a) = Len(b) /\ \A i \in 1 .. Len(a) : a[i] = b[i]
    BY <1>2, <2>1, <2>2
  <2>4. a = b
    BY <2>1, <2>2, <2>3 DEF Path
  <2> QED BY <2>4 DEF a, b
<1> QED BY <1>4, <1>5

LEMMA UnderAppend ==
  ASSUME NEW rows, NEW p, Above(rows, p) \in Path, NEW n \in Name
  PROVE  /\ Under(rows, p, n) = Append(Above(rows, p), <<n, 1>>)
         /\ \A k \in Suffix : Suffixed(Under(rows, p, n), k) = Append(Above(rows, p), <<n, k>>)
<1>1. Above(rows, p) \o <<<<n, 1>>>> = Append(Above(rows, p), <<n, 1>>)
  BY SuffixNat DEF Path
<1> QED BY <1>1, SuffixedAppend DEF Under, Above

\* The first suffix that is free exists, if the taken ones are those of folders.
LEMMA FirstFreeOK ==
  ASSUME NEW path, NEW taken, NEW mark,
         \A k \in Suffix : Suffixed(path, k) \in taken => \E f \in Folder : mark[f] = k
  PROVE  \E k \in Suffix : FirstFree(path, taken) = Suffixed(path, k)
<1> DEFINE Free == {k \in Suffix : Suffixed(path, k) \notin taken}
<1>1. Free # {}
  <2> SUFFICES ASSUME \A k \in Suffix : \E f \in Folder : mark[f] = k PROVE FALSE
    OBVIOUS
  <2> DEFINE h == [k \in Suffix |-> CHOOSE f \in Folder : mark[f] = k]
  <2>1. h \in [Suffix -> Folder] /\ \A k \in Suffix : mark[h[k]] = k
    OBVIOUS
  <2>2. IsFiniteSet(Suffix) /\ Cardinality(Suffix) = Cardinality(Folder) + 1
    BY SuffixNat, FS_Interval DEF Suffix
  <2>3. Cardinality(Folder) < Cardinality(Suffix)
    BY <2>2, SuffixNat
  <2> HIDE DEF h
  <2>4. PICK x, y \in Suffix : x # y /\ h[x] = h[y]
    BY <2>1, <2>2, <2>3, FS_PigeonHole, FolderAssumption
  <2> QED BY <2>1, <2>4
<1>2. Free \subseteq Nat
  BY SuffixNat
<1>3. PICK k \in Free : \A j \in Free : ~(<<j, k>> \in OpToRel(<, Nat))
  BY <1>1, <1>2, NatLessThanWellFounded, WFMin
<1>4. \A j \in Free : ~(j < k)
  BY <1>2, <1>3 DEF OpToRel
<1>5. \A j \in 1 .. k - 1 : Suffixed(path, j) \in taken
  BY <1>2, <1>4, SuffixNat DEF Suffix
<1>6. k \in Suffix /\ Suffixed(path, k) \notin taken
  OBVIOUS
<1> QED BY <1>5, <1>6 DEF FirstFree, Suffix

LEMMA SameSeq ==
  ASSUME NEW X, NEW a \in Seq(X), NEW b \in Seq(X), Len(a) = Len(b), \A i \in 1 .. Len(a) : a[i] = b[i]
  PROVE  a = b
OBVIOUS

LEMMA SubSeqOf ==
  ASSUME NEW X, NEW a \in Seq(X), NEW m \in Nat, m =< Len(a)
  PROVE  /\ SubSeq(a, m + 1, Len(a)) \in Seq(X) /\ Len(SubSeq(a, m + 1, Len(a))) = Len(a) - m
         /\ \A i \in 1 .. Len(a) - m : SubSeq(a, m + 1, Len(a))[i] = a[m + i]
OBVIOUS

LEMMA AppendOf ==
  ASSUME NEW X, NEW a \in Seq(X), NEW x \in X
  PROVE  /\ Append(a, x) \in Seq(X) /\ Len(Append(a, x)) = Len(a) + 1
         /\ \A i \in 1 .. Len(a) + 1 : Append(a, x)[i] = IF i = Len(a) + 1 THEN x ELSE a[i]
OBVIOUS

\* Rebasing a path keeps what follows the old one: a subfolder's path follows its parent's.
LEMMA RebasedFollows ==
  ASSUME NEW old \in Path, NEW q \in Path, NEW s \in Path, Len(old) =< Len(s)
  PROVE  /\ Rebased(old, q, s) \in Path /\ Rebased(old, q, old) = q
         /\ Len(q) > 0 => Rebased(old, q, s)[Len(q)] = q[Len(q)]
         /\ \A x \in Name \X Suffix : Rebased(old, q, Append(s, x)) = Append(Rebased(old, q, s), x)
<1> DEFINE L == Len(old)
           t == SubSeq(s, L + 1, Len(s))
<1>1. L \in Nat /\ L =< Len(s)
  BY DEF Path
<1>2. t \in Path /\ Len(t) = Len(s) - L /\ \A i \in 1 .. Len(s) - L : t[i] = s[L + i]
  BY <1>1, SubSeqOf DEF Path
<1>3. Rebased(old, q, s) = q \o t
  BY DEF Rebased
<1>4. /\ q \o t \in Path /\ Len(q \o t) = Len(q) + Len(s) - L
      /\ \A i \in 1 .. Len(q) : (q \o t)[i] = q[i]
      /\ \A i \in 1 .. Len(s) - L : (q \o t)[Len(q) + i] = s[L + i]
  <2>1. Len(s) \in Nat /\ Len(q) \in Nat
    BY DEF Path
  <2> HIDE DEF t, L
  <2>2. /\ q \o t \in Path /\ Len(q \o t) = Len(q) + Len(t)
        /\ \A i \in 1 .. Len(q) : (q \o t)[i] = q[i]
        /\ \A i \in 1 .. Len(t) : (q \o t)[Len(q) + i] = t[i]
    <3>1. q \in Seq(Name \X Suffix) /\ t \in Seq(Name \X Suffix)
      BY <1>2 DEF Path
    <3>2. /\ q \o t \in Seq(Name \X Suffix) /\ Len(q \o t) = Len(q) + Len(t)
          /\ \A i \in 1 .. Len(q) : (q \o t)[i] = q[i]
          /\ \A i \in 1 .. Len(t) : (q \o t)[Len(q) + i] = t[i]
      BY <3>1
    <3> QED BY <3>2 DEF Path
  <2> QED BY <1>1, <1>2, <2>1, <2>2
<1>5. Rebased(old, q, old) = q
  <2>1. SubSeq(old, L + 1, Len(old)) = <<>>
    BY <1>1 DEF Path
  <2> QED BY <2>1 DEF Rebased, Path
<1>6. ASSUME NEW x \in Name \X Suffix
      PROVE  Rebased(old, q, Append(s, x)) = Append(Rebased(old, q, s), x)
  <2> DEFINE sx == Append(s, x)
             u == SubSeq(sx, L + 1, Len(sx))
             tx == Append(t, x)
  <2>1. sx \in Path /\ Len(sx) = Len(s) + 1 /\ \A i \in 1 .. Len(s) + 1 : sx[i] = IF i = Len(s) + 1 THEN x ELSE s[i]
    BY DEF Path
  <2>2. /\ u \in Path /\ Len(u) = Len(s) + 1 - L
        /\ \A i \in 1 .. Len(s) + 1 - L : u[i] = IF L + i = Len(s) + 1 THEN x ELSE s[L + i]
    <3> HIDE DEF sx
    <3>1. /\ u \in Path /\ Len(u) = Len(s) + 1 - L /\ \A i \in 1 .. Len(s) + 1 - L : u[i] = sx[L + i]
      BY <1>1, <2>1, SubSeqOf DEF Path
    <3>2. Len(s) \in Nat
      BY DEF Path
    <3> HIDE DEF u, L
    <3> QED BY <1>1, <2>1, <3>1, <3>2
  <2>3. /\ tx \in Path /\ Len(tx) = Len(s) - L + 1
        /\ \A i \in 1 .. Len(s) - L + 1 : tx[i] = IF i = Len(s) - L + 1 THEN x ELSE s[L + i]
    <3>1. Len(s) \in Nat
      BY DEF Path
    <3> HIDE DEF t, L
    <3>2. /\ tx \in Path /\ Len(tx) = Len(t) + 1
          /\ \A i \in 1 .. Len(t) + 1 : tx[i] = IF i = Len(t) + 1 THEN x ELSE t[i]
      BY <1>2, AppendOf DEF Path
    <3> HIDE DEF tx
    <3> QED BY <1>1, <1>2, <3>1, <3>2
  <2>4. u = tx
    <3>1. Len(s) \in Nat
      BY DEF Path
    <3> HIDE DEF u, tx, sx, t, L
    <3>2. Len(u) = Len(tx) /\ \A i \in 1 .. Len(u) : u[i] = tx[i]
      BY <1>1, <2>2, <2>3, <3>1
    <3> QED BY <2>2, <2>3, <3>2, SameSeq DEF Path
  <2>5. q \o Append(t, x) = Append(q \o t, x)
    <3> HIDE DEF t
    <3> QED BY <1>2 DEF Path
  <2> QED BY <1>3, <2>4, <2>5 DEF Rebased
<1>7. Len(q) > 0 => Rebased(old, q, s)[Len(q)] = q[Len(q)]
  BY <1>3, <1>4 DEF Path
<1> QED BY <1>3, <1>4, <1>5, <1>6, <1>7

\* The subtree of a folder is the least set that holds it and every subfolder.
LEMMA SubtreeIsLeast ==
  ASSUME NEW rows, NEW f \in Live(rows)
  PROVE  /\ Subtree(rows, f) \subseteq Live(rows) /\ Whole(rows, f, Subtree(rows, f))
         /\ \A S \in SUBSET Live(rows) : Whole(rows, f, S) => Subtree(rows, f) \subseteq S
         /\ \A g \in Subtree(rows, f) \ {f} : rows[g].parent \in Subtree(rows, f)
<1> DEFINE T == Subtree(rows, f)
<1>1. T = {g \in Live(rows) : \A S \in SUBSET Live(rows) : Whole(rows, f, S) => g \in S}
  BY DEF Subtree, Whole
<1>2. T \subseteq Live(rows) /\ \A S \in SUBSET Live(rows) : Whole(rows, f, S) => T \subseteq S
  BY <1>1
<1>3. f \in T
  BY <1>1 DEF Whole
<1>4. ASSUME NEW c \in Live(rows), rows[c].parent \in T PROVE c \in T
  <2> SUFFICES ASSUME NEW S \in SUBSET Live(rows), Whole(rows, f, S) PROVE c \in S
    BY <1>1
  <2>1. rows[c].parent \in S
    BY <1>2, <1>4
  <2> QED BY <2>1 DEF Whole
<1> HIDE DEF T
<1>5. Whole(rows, f, T)
  BY <1>3, <1>4 DEF Whole
<1>6. ASSUME NEW g \in T \ {f} PROVE rows[g].parent \in T
  <2> SUFFICES ASSUME rows[g].parent \notin T PROVE FALSE
    OBVIOUS
  <2>1. Whole(rows, f, T \ {g})
    BY <1>5, <1>6 DEF Whole
  <2> QED BY <1>2, <1>6, <2>1
<1> QED BY <1>2, <1>5, <1>6 DEF T

-----------------------------------------------------------------------------
(* Softcopy folders: the tree *)

LEMMA RestingOK ==
  /\ Unused \in FolderRow /\ Deleted \in FolderRow /\ Deleted # Unused /\ ~Deleted.live /\ ~Unused.live
  /\ MoveOK(Resting) /\ Resting.op = "idle" /\ Resting.id = NoFolder
<1>1. <<>> \in Path
  BY DEF Path
<1>2. Unused \in FolderRow /\ Deleted \in FolderRow /\ Deleted # Unused /\ ~Deleted.live /\ ~Unused.live
  BY <1>1 DEF Unused, Deleted, FolderRow
<1>3. /\ Resting.op = "idle" /\ Resting.id = NoFolder /\ Resting.row = Unused /\ Resting.reparent = FALSE
      /\ Resting.paths = <<>> /\ Resting.stale = {}
      /\ Resting = [op |-> Resting.op, id |-> Resting.id, row |-> Resting.row, reparent |-> Resting.reparent,
                    paths |-> Resting.paths, stale |-> Resting.stale]
  BY DEF Resting
<1>4. DOMAIN Resting.paths = {}
  BY <1>3
<1> QED BY <1>2, <1>3, <1>4 DEF MoveOK

\* A move while rows are written by others.
Staled(m, rows) == [m EXCEPT !.stale = @ \cup Outdates(rows, m)]

LEMMA StaledOK ==
  ASSUME NEW m, MoveOK(m), NEW rows
  PROVE  /\ MoveOK(Staled(m, rows))
         /\ Staled(m, rows).op = m.op /\ Staled(m, rows).id = m.id /\ Staled(m, rows).row = m.row
         /\ Staled(m, rows).reparent = m.reparent /\ Staled(m, rows).paths = m.paths
         /\ Staled(m, rows).stale = m.stale \cup Outdates(rows, m)
<1> DEFINE x == Staled(m, rows)
<1>1. Outdates(rows, m) \subseteq {"path", "tree"}
  BY DEF Outdates
<1>2. m = [op |-> m.op, id |-> m.id, row |-> m.row, reparent |-> m.reparent,
          paths |-> m.paths, stale |-> m.stale]
  BY DEF MoveOK
<1> DEFINE w == m.stale \cup Outdates(rows, m)
<1>6. x = [m EXCEPT !.stale = w]
  BY DEF Staled
<1> HIDE DEF w
<1>7. [m EXCEPT !.stale = w] = [op |-> m.op, id |-> m.id, row |-> m.row, reparent |-> m.reparent,
                                paths |-> m.paths, stale |-> w]
  BY <1>2
<1>3. x = [op |-> m.op, id |-> m.id, row |-> m.row, reparent |-> m.reparent,
           paths |-> m.paths, stale |-> m.stale \cup Outdates(rows, m)]
  BY <1>6, <1>7 DEF w
<1> HIDE DEF x
<1>4. /\ x.op = m.op /\ x.id = m.id /\ x.row = m.row /\ x.reparent = m.reparent /\ x.paths = m.paths
      /\ x.stale = m.stale \cup Outdates(rows, m)
      /\ x = [op |-> x.op, id |-> x.id, row |-> x.row, reparent |-> x.reparent,
              paths |-> x.paths, stale |-> x.stale]
  BY <1>3
<1>5. MoveOK(x)
  BY <1>1, <1>4 DEF MoveOK
<1> QED BY <1>4, <1>5 DEF x

\* Rows that a step leaves: new folders were unused, and none is inside a new one.
Grown(rows) ==
  /\ RowsOK(rows) /\ ParentsLive(rows)
  /\ \A g \in Folder : rows[g] = Unused => folders[g] = Unused
  /\ \A g \in Live(rows) \ Live(folders) : folders[g] = Unused
  /\ \A g \in Live(rows) : rows[g].parent \in Live(folders) \cup {NoFolder}

\* A move that goes out of its folder still does, if the tree has not changed.
LEMMA StillMovesOut ==
  ASSUME FoldersTypeOK, NEW rows, Grown(rows), NEW m, MoveOK(m), Known(m, folders), MovesOut(m, folders)
  PROVE  MovesOut(Staled(m, rows), rows)
<1> DEFINE x == Staled(m, rows)
<1>1. /\ x.op = m.op /\ x.id = m.id /\ x.row = m.row /\ x.reparent = m.reparent
      /\ x.stale = m.stale \cup Outdates(rows, m)
  BY StaledOK
<1> HIDE DEF x
<1> SUFFICES ASSUME x.op = "update", x.reparent, "tree" \notin x.stale, x.id \in Live(rows),
                    x.row.parent \in Live(rows)
             PROVE  \E S \in SUBSET Live(rows) : Whole(rows, x.id, S) /\ x.row.parent \notin S
  BY DEF MovesOut, x
<1>2. /\ m.id \in Live(folders) /\ m.row.parent \in Live(folders) /\ Live(rows) \subseteq Folder
  BY <1>1 DEF Grown, Known, Live
<1>3. \A g \in Live(folders) \cap Live(rows) : rows[g].parent = folders[g].parent
  <2> SUFFICES ASSUME NEW g \in Live(folders) \cap Live(rows), rows[g].parent # folders[g].parent PROVE FALSE
    OBVIOUS
  <2>1. g \in Folder /\ rows[g] # folders[g] /\ folders[g].live /\ rows[g].live
    BY DEF Live
  <2>2. "tree" \in Outdates(rows, m)
    BY <1>1, <2>1 DEF Outdates
  <2> QED BY <1>1, <2>2
<1>4. PICK S \in SUBSET Live(folders) : Whole(folders, m.id, S) /\ m.row.parent \notin S
  BY <1>1, <1>2 DEF MovesOut
<1> DEFINE T == {g \in Live(rows) : g \in S \/ (g \notin Live(folders) /\ rows[g].parent \in S)}
<1>5. T \in SUBSET Live(rows) /\ m.id \in T /\ m.row.parent \notin T
  BY <1>1, <1>2, <1>4 DEF Whole
<1>6. ASSUME NEW c \in Live(rows), rows[c].parent \in T PROVE c \in T
  <2>1. rows[c].parent \in Live(folders)
    BY <1>6, FolderAssumption DEF Grown, Live
  <2>2. rows[c].parent \in S
    BY <1>6, <2>1
  <2> QED BY <1>3, <1>4, <1>6, <2>2 DEF Whole
<1> HIDE DEF T
<1> QED BY <1>1, <1>5, <1>6 DEF Whole

\* What a move writes still follows the paths, if none that it read has changed.
LEMMA StillWritesFollow ==
  ASSUME FoldersTypeOK, NEW rows, RowsOK(rows), NEW m, MoveOK(m), m.op # "idle",
         "path" \notin Staled(m, rows).stale, WritesFollow(m, folders)
  PROVE  WritesFollow(Staled(m, rows), rows)
<1> DEFINE x == Staled(m, rows)
<1>1. /\ x.op = m.op /\ x.id = m.id /\ x.row = m.row /\ x.reparent = m.reparent /\ x.paths = m.paths
      /\ x.stale = m.stale \cup Outdates(rows, m)
  BY StaledOK
<1> HIDE DEF x
<1>2. \A g \in Folder : rows[g] # folders[g] =>
        g \notin DOMAIN m.paths /\ g # m.row.parent /\ rows[g].parent \notin DOMAIN m.paths
  <2> SUFFICES ASSUME NEW g \in Folder, rows[g] # folders[g],
                      g \in DOMAIN m.paths \cup {m.row.parent} \/ rows[g].parent \in DOMAIN m.paths
               PROVE  FALSE
    OBVIOUS
  <2>1. "path" \in Outdates(rows, m)
    BY DEF Outdates
  <2> QED BY <1>1, <2>1 DEF x
<1>3. m.row.parent \in Folder \cup {NoFolder} /\ DOMAIN m.paths \subseteq Folder
  BY DEF MoveOK, FolderRow
<1>4. Above(rows, m.row.parent) = Above(folders, m.row.parent)
  BY <1>2, <1>3 DEF Above
<1>5. \A g \in DOMAIN m.paths : rows[g] = folders[g]
  BY <1>2, <1>3
<1>6. \A g \in Live(rows) : rows[g].parent \in DOMAIN m.paths => g \in Live(folders) /\ rows[g] = folders[g]
  BY <1>2 DEF Live
<1>7. Follows(x.row.path, Above(rows, x.row.parent), x.row.name)
  BY <1>1, <1>4 DEF WritesFollow
<1>8. ASSUME x.op = "update"
      PROVE  /\ x.paths[x.id] = x.row.path /\ x.row.parent \notin DOMAIN x.paths
             /\ ~x.reparent => rows[x.id].parent = x.row.parent
             /\ \A g \in DOMAIN x.paths \ {x.id} :
                  /\ rows[g].parent \in DOMAIN x.paths
                  /\ Follows(x.paths[g], x.paths[rows[g].parent], rows[g].name)
             /\ \A g \in Live(rows) : rows[g].parent \in DOMAIN x.paths => g \in DOMAIN x.paths
  <2>1. m.id \in DOMAIN m.paths
    BY <1>1, <1>8 DEF MoveOK
  <2> QED BY <1>1, <1>5, <1>6, <1>8, <2>1 DEF WritesFollow
<1> QED BY <1>7, <1>8 DEF WritesFollow, x

InItself(rows) == \E S \in SUBSET Live(rows) : S # {} /\ \A f \in S : rows[f].parent \in S

\* A step that writes rows keeps the invariant, if the rows do.
LEMMA RowsWritten ==
  ASSUME FoldersInv, NEW rows, Grown(rows), folders' = rows,
         moves' = [r \in Mover |-> moves'[r]],
         \A r \in Mover : \/ moves'[r] = Resting
                          \/ /\ moves'[r] = Staled(moves[r], rows)
                             /\ moves[r].op = "create" => rows[moves[r].id] = Unused,
         outdated \subseteq outdated',
         "tree" \notin outdated' => ~InItself(rows), "path" \notin outdated' => TreeFollows(rows)
  PROVE  FoldersInv'
<1>1. \A r \in Mover : MoveOK(moves[r]) /\ Known(moves[r], folders) /\ MovesOut(moves[r], folders)
  BY DEF FoldersInv, FoldersTypeOK, KnownFolders
<1>2. \A r \in Mover : moves'[r].op # "idle" => moves'[r] = Staled(moves[r], rows)
  BY RestingOK
<1>3. \A r \in Mover : moves'[r].op # "idle" =>
        /\ MoveOK(moves'[r]) /\ moves'[r].op = moves[r].op /\ moves'[r].id = moves[r].id
        /\ moves'[r].row = moves[r].row
  BY <1>1, <1>2, StaledOK
<1>4. \A r \in Mover : MoveOK(moves'[r]) /\ (moves'[r].id = moves[r].id \/ moves'[r] = Resting)
  BY <1>1, RestingOK, StaledOK
<1>5. FoldersTypeOK'
  <2>1. RowsOK(folders')
    BY DEF Grown
  <2> QED BY <1>4, <2>1 DEF FoldersTypeOK, RowsOK, Live, MoveOK
<1>6. \A r \in Mover : Known(moves'[r], rows)
  <2> SUFFICES ASSUME NEW r \in Mover, moves'[r].op # "idle" PROVE Known(moves'[r], rows)
    BY DEF Known
  <2>1. /\ moves'[r].op = moves[r].op /\ moves'[r].id = moves[r].id /\ moves'[r].row = moves[r].row
        /\ moves[r].id \in Folder /\ (moves[r].op = "create" => rows[moves[r].id] = Unused)
    BY <1>1, <1>3, RestingOK DEF MoveOK
  <2> QED BY <1>1, <2>1 DEF Known, Grown
<1>7. KnownFolders'
  <2>1. ParentsLive(folders')
    BY DEF Grown
  <2>2. \A r, s \in Mover : moves'[s].op = "create" /\ r # s => moves'[r].id # moves'[s].id
    <3> SUFFICES ASSUME NEW r \in Mover, NEW s \in Mover, moves'[s].op = "create", r # s
                 PROVE  moves'[r].id # moves'[s].id
      OBVIOUS
    <3>1. /\ moves[s].op = "create" /\ moves'[s].id = moves[s].id /\ moves[s].id \in Folder
      BY <1>1, <1>3 DEF MoveOK
    <3>2. moves[r].id # moves[s].id
      BY <3>1 DEF FoldersInv, KnownFolders
    <3> QED BY <1>4, <3>1, <3>2, RestingOK, FolderAssumption
  <2> QED BY <1>6, <2>1, <2>2 DEF KnownFolders, ParentsLive, Live, Known
<1>8. NoFolderInItself'
  BY DEF NoFolderInItself, InItself, Live
<1>9. \A r \in Mover : MovesOut(moves'[r], rows)
  <2> SUFFICES ASSUME NEW r \in Mover, moves'[r].op # "idle" PROVE MovesOut(moves'[r], rows)
    BY DEF MovesOut
  <2> QED BY <1>1, <1>2, StillMovesOut DEF FoldersInv
<1>10. ASSUME "path" \notin outdated', NEW r \in Mover, moves'[r].op # "idle", "path" \notin moves'[r].stale
       PROVE  WritesFollow(moves'[r], rows)
  <2>1. moves'[r] = Staled(moves[r], rows) /\ moves[r].op # "idle" /\ "path" \notin moves[r].stale
    BY <1>1, <1>2, <1>3, <1>10, StaledOK
  <2>2. WritesFollow(moves[r], folders)
    BY <1>10, <2>1 DEF FoldersInv, PathsAgree
  <2> QED BY <1>1, <1>10, <2>1, <2>2, StillWritesFollow DEF FoldersInv, Grown
<1>11. PathsAgree'
  <2>1. "path" \notin outdated' => TreeFollows(folders)'
    BY DEF TreeFollows, Live, Above, Follows
  <2>2. ASSUME "path" \notin outdated', NEW r \in Mover, moves'[r].op # "idle", "path" \notin moves'[r].stale
        PROVE  WritesFollow(moves[r], folders)'
    BY <1>10, <2>2 DEF WritesFollow, Above, Follows
  <2> QED BY <2>1, <2>2 DEF PathsAgree
<1>12. \A r \in Mover : MovesOut(moves'[r], folders')
  BY <1>9
<1> QED BY <1>5, <1>7, <1>8, <1>11, <1>12 DEF FoldersInv, MovesOut, Whole, Live

\* A handler that begins, or ends without writing.
LEMMA MoveSet ==
  ASSUME FoldersInv, NEW s \in Mover, NEW n, moves' = [moves EXCEPT ![s] = n], UNCHANGED <<folders, outdated>>,
         MoveOK(n), Known(n, folders), MovesOut(n, folders),
         \A r \in Mover \ {s} : n.op = "create" \/ moves[r].op = "create" => moves[r].id # n.id,
         "path" \notin outdated /\ n.op # "idle" => WritesFollow(n, folders)
  PROVE  FoldersInv'
<1>1. \A r \in Mover : MoveOK(moves[r]) /\ Known(moves[r], folders) /\ MovesOut(moves[r], folders)
  BY DEF FoldersInv, FoldersTypeOK, KnownFolders
<1>2. /\ moves'[s] = n /\ \A r \in Mover \ {s} : moves'[r] = moves[r]
      /\ moves' = [r \in Mover |-> moves'[r]]
  BY DEF FoldersInv, FoldersTypeOK
<1>3. \A r \in Mover : MoveOK(moves'[r]) /\ Known(moves'[r], folders) /\ MovesOut(moves'[r], folders)
  BY <1>1, <1>2
<1>4. FoldersTypeOK'
  BY <1>2, <1>3 DEF FoldersInv, FoldersTypeOK, RowsOK, Live
<1>5. \A r, v \in Mover : moves'[v].op = "create" /\ r # v => moves'[r].id # moves'[v].id
  BY <1>2 DEF FoldersInv, KnownFolders
<1>6. KnownFolders'
  BY <1>3, <1>5 DEF FoldersInv, KnownFolders, ParentsLive, Live, Known
<1>7. NoFolderInItself'
  BY DEF FoldersInv, NoFolderInItself, Live
<1>8. PathsAgree'
  <2> SUFFICES ASSUME "path" \notin outdated PROVE PathsAgree'
    BY DEF PathsAgree
  <2>1. TreeFollows(folders)
    BY DEF FoldersInv, PathsAgree
  <2>2. \A r \in Mover : moves'[r].op # "idle" /\ "path" \notin moves'[r].stale => WritesFollow(moves'[r], folders)
    BY <1>2 DEF FoldersInv, PathsAgree
  <2> QED BY <2>1, <2>2 DEF PathsAgree, TreeFollows, WritesFollow, Live, Above
<1> QED BY <1>3, <1>4, <1>6, <1>7, <1>8 DEF FoldersInv, MovesOut, Whole, Live

LEMMA AboveOK ==
  ASSUME RowsOK(folders), NEW p \in Live(folders) \cup {NoFolder}
  PROVE  Above(folders, p) \in Path
BY DEF RowsOK, Above, Live, FolderRow, Path

LEMMA LastOf ==
  ASSUME NEW a \in Path, NEW x \in Name \X Suffix
  PROVE  /\ Append(a, x) \in Path /\ Len(Append(a, x)) = Len(a) + 1 /\ Append(a, x)[Len(a) + 1] = x
         /\ Len(a) \in Nat
BY DEF Path

\* What create computes: the parent's path and a name with a suffix.
LEMMA BeginFolderOK ==
  ASSUME FoldersInv, NEW s \in Mover, NEW f \in Folder, NEW p \in Folder \cup {NoFolder}, NEW n \in Name,
         BeginFolder(s, f, p, n)
  PROVE  FoldersInv'
<1> DEFINE above == Above(folders, p)
           under == Under(folders, p, n)
           taken == Paths(folders, Live(folders))
           path == FirstFree(under, taken)
           row == [live |-> TRUE, parent |-> p, name |-> n, path |-> path]
           m == [op |-> "create", id |-> f, row |-> row, reparent |-> TRUE, paths |-> <<>>, stale |-> {}]
<1>1. /\ p \in Live(folders) \cup {NoFolder} /\ folders[f] = Unused /\ \A r \in Mover : moves[r].id # f
      /\ moves' = [moves EXCEPT ![s] = m] /\ UNCHANGED <<folders, outdated>>
  BY DEF BeginFolder, BeginMove
<1>2. above \in Path /\ RowsOK(folders) /\ Live(folders) \subseteq Folder
  BY <1>1, AboveOK DEF FoldersInv, FoldersTypeOK, Live
<1>3. \A k \in Suffix : Suffixed(under, k) = Append(above, <<n, k>>) /\ <<n, k>> \in Name \X Suffix
  BY <1>2, UnderAppend
<1>4. under = Append(above, <<n, 1>>) /\ Len(under) = Len(above) + 1
  BY <1>2, UnderAppend, LastOf, SuffixNat
<1>5. \E k \in Suffix : path = Suffixed(under, k)
  <2> DEFINE mark == [g \in Folder |-> folders[g].path[Len(under)][2]]
  <2>1. ASSUME NEW k \in Suffix, Suffixed(under, k) \in taken PROVE \E g \in Folder : mark[g] = k
    <3>1. PICK g \in Live(folders) : folders[g].path = Append(above, <<n, k>>)
      BY <1>3, <2>1 DEF Paths
    <3>2. folders[g].path[Len(under)] = <<n, k>>
      BY <1>2, <1>3, <1>4, <3>1, LastOf
    <3>3. mark[g] = k /\ g \in Folder
      BY <1>2, <3>2
    <3> QED BY <3>3
  <2> HIDE DEF mark, under, taken
  <2>2. \E k \in Suffix : FirstFree(under, taken) = Suffixed(under, k)
    BY <2>1, FirstFreeOK
  <2> QED BY <2>2
<1>6. PICK k \in Suffix : path = Append(above, <<n, k>>)
  BY <1>3, <1>5
<1>7. path \in Path /\ Follows(path, above, n)
  BY <1>2, <1>3, <1>6, LastOf DEF Follows
<1> HIDE DEF path, under, taken
<1>8. row \in FolderRow /\ row.parent = p /\ row.path = path /\ row.name = n /\ row.live
  BY <1>7 DEF FolderRow
<1> HIDE DEF row
<1>9. /\ m.op = "create" /\ m.id = f /\ m.row = row /\ m.reparent = TRUE /\ m.paths = <<>> /\ m.stale = {}
      /\ m = [op |-> m.op, id |-> m.id, row |-> m.row, reparent |-> m.reparent, paths |-> m.paths, stale |-> m.stale]
  OBVIOUS
<1> HIDE DEF m
<1>10. MoveOK(m)
  <2>1. DOMAIN m.paths = {}
    BY <1>9
  <2> QED BY <1>8, <1>9, <2>1 DEF MoveOK
<1>11. Known(m, folders)
  BY <1>1, <1>8, <1>9, RestingOK, FolderAssumption DEF Known, Live
<1>12. MovesOut(m, folders) /\ WritesFollow(m, folders)
  BY <1>7, <1>8, <1>9 DEF MovesOut, WritesFollow
<1> QED BY <1>1, <1>9, <1>10, <1>11, <1>12, MoveSet

LEMMA RebasedOK ==
  ASSUME NEW old \in Path, NEW q \in Path, NEW s \in Path
  PROVE  Rebased(old, q, s) \in Path /\ (Len(q) > 0 => Rebased(old, q, s)[Len(q)] = q[Len(q)])
<1>1. CASE Len(old) =< Len(s)
  BY <1>1, RebasedFollows
<1>2. CASE Len(old) > Len(s)
  <2>1. SubSeq(s, Len(old) + 1, Len(s)) = <<>>
    BY <1>2 DEF Path
  <2>2. q \o <<>> = q
    BY DEF Path
  <2>3. Rebased(old, q, s) = q
    BY <2>1, <2>2, Zenon DEF Rebased
  <2> QED BY <2>3
<1>3. Len(old) \in Nat /\ Len(s) \in Nat
  BY DEF Path
<1> QED BY <1>1, <1>2, <1>3

\* Where paths follow their parents, those of subfolders are longer.
LEMMA LongerInside ==
  ASSUME RowsOK(folders), TreeFollows(folders), NEW f \in Live(folders), NEW g \in Subtree(folders, f)
  PROVE  Len(folders[f].path) =< Len(folders[g].path)
<1> DEFINE S == {h \in Live(folders) : Len(folders[f].path) =< Len(folders[h].path)}
<1>1. \A h \in Live(folders) : h \in Folder /\ folders[h].path \in Path /\ Len(folders[h].path) \in Nat
  BY DEF RowsOK, Live, FolderRow, Path
<1>2. ASSUME NEW c \in Live(folders), folders[c].parent \in S PROVE c \in S
  <2>1. /\ folders[c].parent \in Live(folders)
        /\ Len(folders[f].path) =< Len(folders[folders[c].parent].path)
    BY <1>2
  <2>2. PICK k \in Suffix : folders[c].path = Append(folders[folders[c].parent].path, <<folders[c].name, k>>)
    BY <1>1, <2>1, FolderAssumption DEF TreeFollows, Follows, Above
  <2>3. Len(folders[c].path) = Len(folders[folders[c].parent].path) + 1
    <3>1. <<folders[c].name, k>> \in Name \X Suffix
      BY DEF RowsOK
    <3> QED BY <1>1, <2>1, <2>2, <3>1, LastOf
  <2> QED BY <1>1, <2>1, <2>3
<1>3. Whole(folders, f, S)
  BY <1>1, <1>2 DEF Whole
<1>4. S \in SUBSET Live(folders)
  OBVIOUS
<1> HIDE DEF S
<1>5. g \in S
  BY <1>3, <1>4, SubtreeIsLeast
<1> QED BY <1>5 DEF S

\* What update computes: a path for the folder, and with it those of its subtree.
LEMMA BeginRenameOK ==
  ASSUME FoldersInv, NEW s \in Mover, NEW f \in Folder, NEW p \in Folder \cup {NoFolder}, NEW n \in Name,
         NEW reparent \in BOOLEAN, BeginRename(s, f, p, n, reparent)
  PROVE  FoldersInv'
<1> DEFINE inside == Subtree(folders, f)
           old == folders[f].path
           outside == Paths(folders, Live(folders) \ inside)
           above == Above(folders, p)
           new == Under(folders, p, n)
           taken == {q \in Suffixes(new) : \E g \in inside : Rebased(old, q, folders[g].path) \in outside}
           free == FirstFree(new, taken)
           row == [live |-> TRUE, parent |-> p, name |-> n, path |-> free]
           paths == [g \in inside |-> Rebased(old, free, folders[g].path)]
           m == [op |-> "update", id |-> f, row |-> row, reparent |-> reparent, paths |-> paths, stale |-> {}]
<1>1. /\ f \in Live(folders) /\ p \in Live(folders) \cup {NoFolder} /\ p \notin inside
      /\ reparent \/ p = folders[f].parent
      /\ moves' = [moves EXCEPT ![s] = m] /\ UNCHANGED <<folders, outdated>>
  BY DEF BeginRename, BeginMove, MayHold, Live
<1>2. above \in Path /\ RowsOK(folders) /\ Live(folders) \subseteq Folder /\ old \in Path
      /\ \A g \in Folder : folders[g].path \in Path
  BY <1>1, AboveOK DEF FoldersInv, FoldersTypeOK, Live, RowsOK, FolderRow
<1>3. \A k \in Suffix : Suffixed(new, k) = Append(above, <<n, k>>) /\ <<n, k>> \in Name \X Suffix
  BY <1>2, UnderAppend
<1>4. new = Append(above, <<n, 1>>) /\ Len(new) = Len(above) + 1 /\ Len(above) \in Nat
  BY <1>2, UnderAppend, LastOf, SuffixNat
<1>5. /\ inside \subseteq Live(folders) /\ Whole(folders, f, inside)
      /\ \A g \in inside \ {f} : folders[g].parent \in inside
  BY <1>1, SubtreeIsLeast
<1> HIDE DEF inside
<1>6. \E k \in Suffix : free = Suffixed(new, k)
  <2> DEFINE mark == [g \in Folder |-> folders[g].path[Len(new)][2]]
  <2>1. ASSUME NEW k \in Suffix, Suffixed(new, k) \in taken PROVE \E g \in Folder : mark[g] = k
    <3> DEFINE q == Append(above, <<n, k>>)
    <3>1. Suffixed(new, k) = q /\ q \in Path /\ Len(q) = Len(new) /\ q[Len(q)] = <<n, k>>
      <4>1. above \in Path /\ <<n, k>> \in Name \X Suffix /\ Suffixed(new, k) = q
        BY <1>2, <1>3
      <4>2. q \in Path /\ Len(q) = Len(above) + 1 /\ q[Len(above) + 1] = <<n, k>>
        BY <4>1, LastOf
      <4> HIDE DEF q, above, new
      <4> QED BY <1>4, <4>1, <4>2
    <3>2. PICK g \in inside : Rebased(old, Suffixed(new, k), folders[g].path) \in outside
      BY <2>1
    <3>3. PICK o \in Live(folders) : folders[o].path = Rebased(old, q, folders[g].path)
      BY <3>1, <3>2 DEF Paths
    <3>4. folders[g].path \in Path /\ Len(q) > 0
      BY <1>2, <1>4, <1>5, <3>1
    <3> HIDE DEF q
    <3>5. folders[o].path[Len(new)] = <<n, k>>
      BY <1>2, <3>1, <3>3, <3>4, RebasedOK
    <3>6. mark[o] = k /\ o \in Folder
      BY <1>2, <3>5
    <3> QED BY <3>6
  <2> HIDE DEF mark, new, taken
  <2>2. \E k \in Suffix : FirstFree(new, taken) = Suffixed(new, k)
    BY <2>1, FirstFreeOK
  <2> QED BY <2>2
<1>7. PICK k \in Suffix : free = Append(above, <<n, k>>)
  BY <1>3, <1>6
<1>8. free \in Path /\ Follows(free, above, n)
  BY <1>2, <1>3, <1>7, LastOf DEF Follows
<1> HIDE DEF free, new, taken, outside
<1>9. row \in FolderRow /\ row.parent = p /\ row.path = free /\ row.name = n /\ row.live
  BY <1>8 DEF FolderRow
<1> HIDE DEF row
<1>10. /\ DOMAIN paths = inside /\ inside \subseteq Folder /\ f \in inside
       /\ \A g \in inside : paths[g] = Rebased(old, free, folders[g].path) /\ paths[g] \in Path
  BY <1>2, <1>5, <1>8, RebasedOK DEF Whole
<1>11. paths[f] = free
  <2>1. Len(old) =< Len(old)
    BY <1>2 DEF Path
  <2>2. Rebased(old, free, old) = free
    BY <1>2, <1>8, <2>1, RebasedFollows
  <2> QED BY <1>10, <2>2
<1> HIDE DEF paths
<1>12. /\ m.op = "update" /\ m.id = f /\ m.row = row /\ m.reparent = reparent /\ m.paths = paths /\ m.stale = {}
       /\ m = [op |-> m.op, id |-> m.id, row |-> m.row, reparent |-> m.reparent, paths |-> m.paths, stale |-> m.stale]
  OBVIOUS
<1> HIDE DEF m
<1>13. MoveOK(m)
  BY <1>9, <1>10, <1>12 DEF MoveOK
<1>14. Known(m, folders)
  BY <1>1, <1>9, <1>12, RestingOK, FolderAssumption DEF Known, Live
<1>15. MovesOut(m, folders)
  BY <1>1, <1>5, <1>9, <1>12 DEF MovesOut
<1>16. ASSUME NEW r \in Mover \ {s}, moves[r].op = "create" PROVE moves[r].id # m.id
  BY <1>1, <1>12, <1>16, RestingOK DEF FoldersInv, KnownFolders, Known, Live
<1>17. ASSUME "path" \notin outdated PROVE WritesFollow(m, folders)
  <2>1. TreeFollows(folders)
    BY <1>17 DEF FoldersInv, PathsAgree
  <2>2. ASSUME NEW g \in inside \ {f}
        PROVE  folders[g].parent \in inside /\ Follows(paths[g], paths[folders[g].parent], folders[g].name)
    <3> DEFINE h == folders[g].parent
    <3>1. h \in inside /\ h \in Folder /\ h # NoFolder /\ g \in Live(folders)
      BY <1>5, <1>10, <2>2, FolderAssumption
    <3>2. PICK j \in Suffix : folders[g].path = Append(folders[h].path, <<folders[g].name, j>>)
      BY <2>1, <3>1 DEF TreeFollows, Follows, Above
    <3>3. Len(old) =< Len(folders[h].path) /\ folders[h].path \in Path
      BY <1>1, <1>2, <2>1, <3>1, LongerInside DEF inside
    <3>4. <<folders[g].name, j>> \in Name \X Suffix
      BY <1>2, <3>1 DEF RowsOK
    <3>5. paths[g] = Append(paths[h], <<folders[g].name, j>>)
      <4>1. Rebased(old, free, Append(folders[h].path, <<folders[g].name, j>>))
              = Append(Rebased(old, free, folders[h].path), <<folders[g].name, j>>)
        BY <1>2, <1>8, <3>3, <3>4, RebasedFollows
      <4>2. paths[g] = Rebased(old, free, folders[g].path) /\ paths[h] = Rebased(old, free, folders[h].path)
        BY <1>10, <2>2, <3>1
      <4> QED BY <3>2, <4>1, <4>2
    <3> QED BY <3>1, <3>5 DEF Follows
  <2>3. \A g \in Live(folders) : folders[g].parent \in inside => g \in inside
    BY <1>5 DEF Whole
  <2>4. Follows(m.row.path, Above(folders, m.row.parent), m.row.name)
    BY <1>8, <1>9, <1>12
  <2> QED BY <1>1, <1>9, <1>10, <1>11, <1>12, <2>2, <2>3, <2>4 DEF WritesFollow
<1> QED BY <1>1, <1>12, <1>13, <1>14, <1>15, <1>16, <1>17, MoveSet

\* A handler that writes, or is refused by the table.
LEMMA WriteOrRefuse ==
  ASSUME FoldersInv, NEW s \in Mover, NEW rows, WriteRows(s, rows),
         Grown(rows) \/ ~Accepted(rows),
         Accepted(rows) => \A r \in Mover \ {s} : moves[r].op = "create" => rows[moves[r].id] = Unused,
         Accepted(rows) /\ "tree" \notin outdated \cup moves[s].stale => ~InItself(rows),
         Accepted(rows) /\ "path" \notin outdated \cup moves[s].stale => TreeFollows(rows)
  PROVE  FoldersInv'
<1>1. CASE Accepted(rows)
  <2>1. /\ folders' = rows /\ outdated' = outdated \cup moves[s].stale
        /\ moves' = [r \in Mover |-> IF r = s THEN Resting ELSE Staled(moves[r], rows)]
    BY <1>1 DEF WriteRows, Staled
  <2> QED BY <1>1, <2>1, RowsWritten
<1>2. CASE ~Accepted(rows)
  <2>1. moves' = [moves EXCEPT ![s] = Resting] /\ UNCHANGED <<folders, outdated>>
    BY <1>2 DEF WriteRows, RefuseMove
  <2>2. \A r \in Mover : moves[r].op = "create" => moves[r].id # NoFolder
    BY FolderAssumption DEF FoldersInv, FoldersTypeOK, MoveOK
  <2>3. Known(Resting, folders) /\ MovesOut(Resting, folders)
    BY RestingOK DEF Known, MovesOut
  <2> QED BY <2>1, <2>2, <2>3, RestingOK, MoveSet
<1> QED BY <1>1, <1>2

\* A new folder is nobody's parent, and its own is another one.
LEMMA CommitFolderOK ==
  ASSUME FoldersInv, NEW s \in Mover, CommitFolder(s)
  PROVE  FoldersInv'
<1> DEFINE m == moves[s]
           rows == [folders EXCEPT ![m.id] = m.row]
<1>1. /\ m.op = "create" /\ WriteRows(s, rows) /\ MoveOK(m) /\ Known(m, folders)
      /\ m.id \in Folder /\ m.row.live /\ m.row.name \in Name /\ m.row \in FolderRow
  BY DEF CommitFolder, FoldersInv, FoldersTypeOK, KnownFolders, MoveOK
<1>2. /\ RowsOK(folders) /\ ParentsLive(folders) /\ folders[m.id] = Unused
      /\ m.row.parent \in Folder \cup {NoFolder} /\ m.row.parent # m.id
  BY <1>1, FolderAssumption DEF FoldersInv, FoldersTypeOK, KnownFolders, Known, FolderRow
<1>3. rows[m.id] = m.row /\ (\A g \in Folder \ {m.id} : rows[g] = folders[g]) /\ RowsOK(rows)
  BY <1>1, <1>2 DEF RowsOK, Live
<1> HIDE DEF rows
<1>4. /\ m.id \notin Live(folders) /\ Live(rows) = Live(folders) \cup {m.id} /\ Live(folders) \subseteq Folder
  BY <1>1, <1>2, <1>3, RestingOK DEF Live
<1>5. \A g \in Live(folders) : rows[g] = folders[g] /\ folders[g].parent # m.id
  BY <1>1, <1>2, <1>3, <1>4, FolderAssumption DEF ParentsLive
<1>6. ASSUME Accepted(rows) PROVE Grown(rows)
  <2>1. ParentsLive(rows)
    BY <1>6 DEF Accepted, ParentsLive
  <2>2. \A g \in Live(rows) : rows[g].parent \in Live(folders) \cup {NoFolder}
    BY <1>2, <1>3, <1>4, <1>5, <2>1 DEF ParentsLive
  <2>3. \A g \in Folder : rows[g] = Unused => folders[g] = Unused
    BY <1>2, <1>3
  <2>4. \A g \in Live(rows) \ Live(folders) : folders[g] = Unused
    BY <1>2, <1>4
  <2> QED BY <1>3, <2>1, <2>2, <2>3, <2>4 DEF Grown
<1>7. \A r \in Mover \ {s} : moves[r].op = "create" => rows[moves[r].id] = Unused
  <2> SUFFICES ASSUME NEW r \in Mover \ {s}, moves[r].op = "create" PROVE rows[moves[r].id] = Unused
    OBVIOUS
  <2>1. moves[r].id \in Folder /\ folders[moves[r].id] = Unused /\ moves[r].id # m.id
    BY DEF FoldersInv, FoldersTypeOK, KnownFolders, Known, MoveOK
  <2> QED BY <1>3, <2>1
<1>8. ASSUME "tree" \notin outdated, InItself(rows) PROVE FALSE
  <2>1. PICK S \in SUBSET Live(rows) : S # {} /\ \A f \in S : rows[f].parent \in S
    BY <1>8 DEF InItself
  <2> DEFINE T == S \ {m.id}
  <2>2. T \in SUBSET Live(folders) /\ \A f \in T : folders[f].parent \in T
    BY <1>4, <1>5, <2>1
  <2>3. T # {}
    BY <1>2, <1>3, <2>1
  <2> HIDE DEF T
  <2> QED BY <1>8, <2>2, <2>3 DEF FoldersInv, NoFolderInItself
<1>9. ASSUME "path" \notin outdated \cup m.stale PROVE TreeFollows(rows)
  <2>1. TreeFollows(folders) /\ Follows(m.row.path, Above(folders, m.row.parent), m.row.name)
    BY <1>1, <1>9 DEF FoldersInv, PathsAgree, WritesFollow
  <2>2. \A p \in Folder \cup {NoFolder} : p # m.id => Above(rows, p) = Above(folders, p)
    BY <1>3 DEF Above
  <2>3. ASSUME NEW g \in Live(folders)
        PROVE  Follows(rows[g].path, Above(rows, rows[g].parent), rows[g].name)
    <3>1. rows[g] = folders[g] /\ folders[g].parent \in Folder \cup {NoFolder} /\ folders[g].parent # m.id
      BY <1>2, <1>4, <1>5 DEF ParentsLive
    <3> QED BY <2>1, <2>2, <3>1 DEF TreeFollows
  <2>4. Follows(rows[m.id].path, Above(rows, rows[m.id].parent), rows[m.id].name)
    BY <1>2, <1>3, <2>1, <2>2
  <2> QED BY <1>4, <2>3, <2>4 DEF TreeFollows
<1> QED BY <1>1, <1>6, <1>7, <1>8, <1>9, WriteOrRefuse

\* A move writes the rows of its subtree only, and the parent of the one folder.
LEMMA CommitRenameOK ==
  ASSUME FoldersInv, NEW s \in Mover, CommitRename(s)
  PROVE  FoldersInv'
<1> DEFINE m == moves[s]
           D == DOMAIN m.paths
           rows == Moved(m)
<1>1. /\ m.op = "update" /\ MoveOK(m) /\ Known(m, folders) /\ m.id \in Folder /\ m.id \in D
      /\ D \subseteq Folder /\ m.row \in FolderRow /\ m.row.live /\ m.row.name \in Name
      /\ RowsOK(folders) /\ ParentsLive(folders)
  BY DEF CommitRename, FoldersInv, FoldersTypeOK, KnownFolders, MoveOK
<1>2. CASE ~(D \subseteq Live(folders))
  <2>1. moves' = [moves EXCEPT ![s] = Resting] /\ UNCHANGED <<folders, outdated>>
    BY <1>2 DEF CommitRename, RefuseMove
  <2>2. \A r \in Mover : moves[r].op = "create" => moves[r].id # NoFolder
    BY FolderAssumption DEF FoldersInv, FoldersTypeOK, MoveOK
  <2>3. Known(Resting, folders) /\ MovesOut(Resting, folders)
    BY RestingOK DEF Known, MovesOut
  <2> QED BY <2>1, <2>2, <2>3, RestingOK, MoveSet
<1>3. CASE D \subseteq Live(folders)
  <2>1. WriteRows(s, rows)
    BY <1>3 DEF CommitRename
  <2>2. /\ rows = [f \in Folder |-> rows[f]] /\ \A f \in Folder \ D : rows[f] = folders[f]
        /\ \A f \in D \ {m.id} : rows[f] = [folders[f] EXCEPT !.path = m.paths[f]]
        /\ rows[m.id] = [m.row EXCEPT !.parent = IF m.reparent THEN @ ELSE folders[m.id].parent]
    BY <1>1 DEF Moved
  <2> HIDE DEF rows
  <2>3. \A f \in D \ {m.id} : /\ rows[f] \in FolderRow /\ rows[f].live = folders[f].live
                              /\ rows[f].parent = folders[f].parent /\ rows[f].name = folders[f].name
                              /\ rows[f].path = m.paths[f]
    <3> SUFFICES ASSUME NEW f \in D \ {m.id}
                 PROVE  /\ rows[f] \in FolderRow /\ rows[f].live = folders[f].live
                        /\ rows[f].parent = folders[f].parent /\ rows[f].name = folders[f].name
                        /\ rows[f].path = m.paths[f]
      OBVIOUS
    <3>1. folders[f] \in FolderRow /\ m.paths[f] \in Path /\ rows[f] = [folders[f] EXCEPT !.path = m.paths[f]]
      BY <1>1, <2>2 DEF RowsOK, MoveOK
    <3> QED BY <3>1 DEF FolderRow
  <2>4. /\ rows[m.id] \in FolderRow /\ rows[m.id].live /\ rows[m.id].name = m.row.name /\ rows[m.id].path = m.row.path
        /\ rows[m.id].parent = IF m.reparent THEN m.row.parent ELSE folders[m.id].parent
    <3>1. folders[m.id].parent \in Folder \cup {NoFolder}
      BY <1>1 DEF RowsOK, FolderRow
    <3> QED BY <1>1, <2>2, <3>1 DEF FolderRow
  <2>5. Live(rows) = Live(folders) /\ Live(folders) \subseteq Folder /\ RowsOK(rows)
    <3>1. \A f \in Folder : rows[f].live <=> f \in Live(folders)
      <4>1. ASSUME NEW f \in Folder \ D PROVE rows[f].live <=> f \in Live(folders)
        BY <2>2 DEF Live
      <4>2. ASSUME NEW f \in D \ {m.id} PROVE rows[f].live <=> f \in Live(folders)
        BY <1>1, <2>3 DEF Live
      <4>3. rows[m.id].live <=> m.id \in Live(folders)
        BY <1>1, <1>3, <2>4 DEF Live
      <4> QED BY <4>1, <4>2, <4>3
    <3>2. rows \in [Folder -> FolderRow]
      BY <1>1, <2>2, <2>3, <2>4 DEF RowsOK
    <3>3. \A f \in Live(folders) : rows[f].name \in Name
      BY <1>1, <2>2, <2>3, <2>4 DEF RowsOK, Live
    <3>4. Live(rows) = Live(folders) /\ Live(folders) \subseteq Folder
      BY <3>1 DEF Live
    <3> QED BY <3>2, <3>3, <3>4 DEF RowsOK
  <2>6. ASSUME Accepted(rows) PROVE Grown(rows)
    <3>1. ParentsLive(rows)
      BY <2>6 DEF Accepted, ParentsLive
    <3>2. ASSUME NEW g \in Folder, rows[g] = Unused PROVE folders[g] = Unused
      <4>1. g \notin Live(rows)
        BY <3>2, RestingOK DEF Live
      <4> QED BY <1>3, <2>2, <2>5, <3>2, <4>1
    <3> QED BY <2>5, <3>1, <3>2 DEF Grown, ParentsLive
  <2>7. \A r \in Mover \ {s} : moves[r].op = "create" => rows[moves[r].id] = Unused
    <3> SUFFICES ASSUME NEW r \in Mover \ {s}, moves[r].op = "create" PROVE rows[moves[r].id] = Unused
      OBVIOUS
    <3>1. moves[r].id \in Folder /\ folders[moves[r].id] = Unused
      BY DEF FoldersInv, FoldersTypeOK, KnownFolders, Known, MoveOK
    <3>2. moves[r].id \notin D
      BY <1>3, <3>1, RestingOK DEF Live
    <3> QED BY <2>2, <3>1, <3>2
  <2>8. \A g \in Live(folders) \ {m.id} : rows[g].parent = folders[g].parent
    BY <2>2, <2>3, <2>5
  <2>9. ASSUME "tree" \notin outdated \cup m.stale, InItself(rows) PROVE FALSE
    <3>1. PICK T \in SUBSET Live(rows) : T # {} /\ \A f \in T : rows[f].parent \in T
      BY <2>9 DEF InItself
    <3>2. ~\E S \in SUBSET Live(folders) : S # {} /\ \A f \in S : folders[f].parent \in S
      BY <2>9 DEF FoldersInv, NoFolderInItself
    <3>3. CASE m.id \notin T
      BY <2>5, <2>8, <3>1, <3>2, <3>3
    <3>4. CASE ~m.reparent
      BY <2>4, <2>5, <2>8, <3>1, <3>2, <3>4
    <3>5. CASE m.id \in T /\ m.reparent
      <4>1. m.row.parent \in T /\ m.row.parent \in Live(folders) /\ m.id \in Live(folders)
        BY <2>4, <2>5, <3>1, <3>5
      <4>2. PICK S \in SUBSET Live(folders) : Whole(folders, m.id, S) /\ m.row.parent \notin S
        BY <1>1, <2>9, <3>5, <4>1 DEF FoldersInv, MovesOut
      <4>3. ASSUME NEW g \in T \ S PROVE folders[g].parent \in T \ S
        BY <2>5, <2>8, <3>1, <4>2, <4>3 DEF Whole
      <4>4. T \ S \in SUBSET Live(folders) /\ T \ S # {}
        BY <2>5, <3>1, <4>1, <4>2
      <4> QED BY <3>2, <4>3, <4>4
    <3> QED BY <3>3, <3>4, <3>5
  <2>10. ASSUME "path" \notin outdated \cup m.stale PROVE TreeFollows(rows)
    <3>1. TreeFollows(folders) /\ WritesFollow(m, folders)
      BY <1>1, <2>10 DEF FoldersInv, PathsAgree
    <3>2. /\ Follows(m.row.path, Above(folders, m.row.parent), m.row.name)
          /\ m.paths[m.id] = m.row.path /\ m.row.parent \notin D /\ rows[m.id].parent = m.row.parent
          /\ m.row.parent \in Folder \cup {NoFolder}
      BY <1>1, <2>4, <3>1 DEF WritesFollow, FolderRow
    <3>3. \A p \in Folder \cup {NoFolder} : p \notin D => Above(rows, p) = Above(folders, p)
      BY <2>2 DEF Above
    <3>4. \A g \in D : rows[g].path = m.paths[g]
      BY <2>3, <2>4, <3>2
    <3>5. ASSUME NEW g \in D \ {m.id}
          PROVE  Follows(rows[g].path, Above(rows, rows[g].parent), rows[g].name)
      <4>1. folders[g].parent \in D /\ Follows(m.paths[g], m.paths[folders[g].parent], folders[g].name)
        BY <1>1, <3>1 DEF WritesFollow
      <4>2. Above(rows, folders[g].parent) = m.paths[folders[g].parent]
        BY <1>1, <3>4, <4>1, FolderAssumption DEF Above
      <4> QED BY <2>3, <3>4, <4>1, <4>2
    <3>6. ASSUME NEW g \in Live(folders) \ D
          PROVE  Follows(rows[g].path, Above(rows, rows[g].parent), rows[g].name)
      <4>1. rows[g] = folders[g] /\ folders[g].parent \in Folder \cup {NoFolder} /\ folders[g].parent \notin D
        BY <1>1, <2>2, <2>5, <3>1 DEF WritesFollow, ParentsLive
      <4> QED BY <3>1, <3>3, <4>1 DEF TreeFollows
    <3>7. Follows(rows[m.id].path, Above(rows, rows[m.id].parent), rows[m.id].name)
      BY <2>4, <3>2, <3>3
    <3> QED BY <2>5, <3>5, <3>6, <3>7 DEF TreeFollows
  <2> QED BY <2>1, <2>6, <2>7, <2>9, <2>10, WriteOrRefuse
<1> QED BY <1>2, <1>3

LEMMA DeleteFolderOK ==
  ASSUME FoldersInv, NEW f \in Folder, DeleteFolder(f)
  PROVE  FoldersInv'
<1> DEFINE rows == [folders EXCEPT ![f] = Deleted]
<1>1. /\ f \in Live(folders) /\ (\A g \in Live(folders) : folders[g].parent # f) /\ folders' = rows
      /\ moves' = [r \in Mover |-> Staled(moves[r], rows)] /\ UNCHANGED outdated
      /\ RowsOK(folders) /\ ParentsLive(folders)
  BY DEF DeleteFolder, Staled, Live, FoldersInv, FoldersTypeOK, KnownFolders
<1>2. rows[f] = Deleted /\ (\A g \in Folder \ {f} : rows[g] = folders[g]) /\ rows \in [Folder -> FolderRow]
  BY <1>1, RestingOK DEF RowsOK
<1> HIDE DEF rows
<1>3. Live(rows) = Live(folders) \ {f} /\ Live(folders) \subseteq Folder
  BY <1>2, RestingOK DEF Live
<1>4. RowsOK(rows)
  BY <1>1, <1>2, <1>3 DEF RowsOK
<1>5. \A g \in Live(rows) : rows[g] = folders[g] /\ folders[g].parent \in Live(rows) \cup {NoFolder}
  BY <1>1, <1>2, <1>3 DEF ParentsLive
<1>6. Grown(rows)
  BY <1>2, <1>3, <1>4, <1>5, RestingOK DEF Grown, ParentsLive
<1>7. \A r \in Mover : moves[r].op = "create" => rows[moves[r].id] = Unused
  <2> SUFFICES ASSUME NEW r \in Mover, moves[r].op = "create" PROVE rows[moves[r].id] = Unused
    OBVIOUS
  <2>1. moves[r].id \in Folder /\ folders[moves[r].id] = Unused
    BY DEF FoldersInv, FoldersTypeOK, KnownFolders, Known, MoveOK
  <2>2. moves[r].id # f
    BY <1>1, <2>1, RestingOK DEF Live
  <2> QED BY <1>2, <2>1, <2>2
<1>8. "tree" \notin outdated => ~InItself(rows)
  BY <1>3, <1>5 DEF InItself, FoldersInv, NoFolderInItself
<1>9. ASSUME "path" \notin outdated PROVE TreeFollows(rows)
  <2>1. TreeFollows(folders)
    BY <1>9 DEF FoldersInv, PathsAgree
  <2>2. \A p \in Live(rows) \cup {NoFolder} : Above(rows, p) = Above(folders, p)
    BY <1>5 DEF Above
  <2> QED BY <1>3, <1>5, <2>1, <2>2 DEF TreeFollows
<1>10. moves' = [r \in Mover |-> moves'[r]] /\ \A r \in Mover : moves'[r] = Staled(moves[r], rows)
  BY <1>1
<1> QED BY <1>1, <1>6, <1>7, <1>8, <1>9, <1>10, RowsWritten

\* Every handler keeps the invariant.
LEMMA FoldersStep ==
  ASSUME FoldersInv, [FoldersNext]_fvars
  PROVE  FoldersInv'
<1>1. CASE UNCHANGED fvars
  BY <1>1 DEF fvars, FoldersInv, FoldersTypeOK, KnownFolders, NoFolderInItself, PathsAgree, MovesOut, Whole, Live,
              RowsOK, ParentsLive, Known, TreeFollows, WritesFollow, Above
<1>2. CASE FoldersNext
  <2>1. CASE \E s \in Mover, f \in Folder, p \in Folder \cup {NoFolder}, n \in Name : BeginFolder(s, f, p, n)
    BY <2>1, BeginFolderOK
  <2>2. CASE \E s \in Mover, f \in Folder, p \in Folder \cup {NoFolder}, n \in Name, reparent \in BOOLEAN :
               BeginRename(s, f, p, n, reparent)
    BY <2>2, BeginRenameOK
  <2>3. CASE \E s \in Mover : CommitFolder(s)
    BY <2>3, CommitFolderOK
  <2>4. CASE \E s \in Mover : CommitRename(s)
    BY <2>4, CommitRenameOK
  <2>5. CASE \E f \in Folder : DeleteFolder(f)
    BY <2>5, DeleteFolderOK
  <2> QED BY <1>2, <2>1, <2>2, <2>3, <2>4, <2>5 DEF FoldersNext
<1> QED BY <1>1, <1>2

\* create(), update() and delete() of softcopy categories, each of which reads before it
\* writes: as long as nothing was written from rows that another handler had changed, no
\* folder is inside itself and every path is that of the parent and the folder's own name.
THEOREM FoldersAreATree == FoldersSpec => []TreeIsSound
<1>1. FoldersInit => FoldersInv
  <2> SUFFICES ASSUME FoldersInit PROVE FoldersInv
    OBVIOUS
  <2>1. (\A f \in Folder : folders[f] = Unused) /\ (\A s \in Mover : moves[s] = Resting) /\ Live(folders) = {}
    BY RestingOK DEF FoldersInit, Live
  <2>2. FoldersTypeOK
    BY <2>1, RestingOK DEF FoldersInit, FoldersTypeOK, RowsOK
  <2>3. KnownFolders
    BY <2>1, RestingOK DEF KnownFolders, ParentsLive, Known
  <2> QED BY <2>1, <2>2, <2>3, RestingOK DEF FoldersInv, NoFolderInItself, PathsAgree, TreeFollows, MovesOut
<1>2. FoldersInv => TreeIsSound
  <2> SUFFICES ASSUME FoldersInv PROVE PathsFollowTree
    BY DEF TreeIsSound, FoldersInv
  <2> SUFFICES ASSUME "path" \notin outdated, NEW f \in Live(folders)
               PROVE  \E k \in Suffix :
                        folders[f].path = Suffixed(Under(folders, folders[f].parent, folders[f].name), k)
    BY DEF PathsFollowTree, Suffix
  <2>1. RowsOK(folders) /\ folders[f].name \in Name /\ folders[f].parent \in Live(folders) \cup {NoFolder}
    BY DEF FoldersInv, FoldersTypeOK, KnownFolders, RowsOK, ParentsLive
  <2>2. Follows(folders[f].path, Above(folders, folders[f].parent), folders[f].name)
    BY DEF FoldersInv, PathsAgree, TreeFollows
  <2> QED BY <2>1, <2>2, AboveOK, UnderAppend DEF Follows
<1>3. FoldersInv /\ [FoldersNext]_fvars => FoldersInv'
  BY FoldersStep
<1> QED BY <1>1, <1>2, <1>3, PTL DEF FoldersSpec

=============================================================================
