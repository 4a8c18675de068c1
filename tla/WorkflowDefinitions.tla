------------------------ MODULE WorkflowDefinitions ------------------------
(***************************************************************************)
(* The versions of one workflow definition: WorkflowDefinitionsService     *)
(* creates drafts, edits them and publishes them.  Graphs are values that  *)
(* validateGraph accepts (WorkflowGraphs).  Publication is a transaction   *)
(* of two statements: it archives the versions that the first one sees     *)
(* published, then publishes its own.  No update repeats the check that    *)
(* was made when the version was read.                                     *)
(***************************************************************************)
EXTENDS Naturals, FiniteSets

CONSTANTS
  Version,     \* workflow_versions rows
  Draft,       \* values of a graph
  Editor       \* how many handlers can run at once

ASSUME VersionAssumption == "none" \notin Version

VARIABLES
  versions,  \* the rows
  edits,     \* the handlers in flight
  collided   \* whether two publications ever had read before either wrote

dvars == <<versions, edits, collided>>

NoVersion == [status |-> "NONE", number |-> 0, graph |-> "none"]

AtRest == [op |-> "idle", version |-> "none", row |-> NoVersion, seen |-> {}]

Exists(v) == versions[v].status # "NONE"
Published == {v \in Version : versions[v].status = "PUBLISHED"}

\* A handler keeps the row it has read, or means to write
StartEdit(s, o, v, r) ==
  /\ edits[s] = AtRest
  /\ edits' = [edits EXCEPT ![s] = [op |-> o, version |-> v, row |-> r, seen |-> {}]]
  /\ UNCHANGED <<versions, collided>>

EndEdit(s) == edits' = [edits EXCEPT ![s] = AtRest]

-----------------------------------------------------------------------------
(* createVersion *)

Latest == CHOOSE n \in 0 .. Cardinality(Version) :
            /\ \A v \in Version : versions[v].number =< n
            /\ n # 0 => \E v \in Version : versions[v].number = n

\* The number is taken now and inserted later
BeginVersion(s, v, g) ==
  /\ ~Exists(v) /\ \A r \in Editor : edits[r].version # v
  /\ StartEdit(s, "create", v, [status |-> "DRAFT", number |-> Latest + 1, graph |-> g])

\* @@unique([workflow_definition_id, version_number])
CommitVersion(s) ==
  LET r == edits[s].row IN
  /\ edits[s].op = "create"
  /\ versions' = IF \E v \in Version : versions[v].number = r.number THEN versions
                 ELSE [versions EXCEPT ![edits[s].version] = r]
  /\ EndEdit(s) /\ UNCHANGED collided

-----------------------------------------------------------------------------
(* updateVersion *)

\* Mutant: any version may be edited
Alterable_Any(v) == Exists(v)

Alterable(v) == versions[v].status = "DRAFT"

BeginUpdate(s, v, g) ==
  /\ Alterable(v)
  /\ StartEdit(s, "update", v, [versions[v] EXCEPT !.graph = g])

CommitUpdate(s) ==
  /\ edits[s].op = "update"
  /\ versions' = [versions EXCEPT ![edits[s].version].graph = edits[s].row.graph]
  /\ EndEdit(s) /\ UNCHANGED collided

-----------------------------------------------------------------------------
(* publish *)

BeginPublish(s, v) ==
  /\ versions[v].status = "DRAFT"
  /\ StartEdit(s, "publish", v, versions[v])

\* The update of the published versions takes the rows it sees
SeePublished(s) ==
  /\ edits[s].op = "publish"
  /\ edits' = [edits EXCEPT ![s].op = "replace", ![s].seen = Published]
  /\ collided' = (collided \/ \E r \in Editor : edits[r].op = "replace")
  /\ UNCHANGED versions

\* Mutant: the published versions are left as they are
CommitPublish_Beside(s) ==
  /\ edits[s].op = "replace"
  /\ versions' = [versions EXCEPT ![edits[s].version].status = "PUBLISHED"]
  /\ EndEdit(s) /\ UNCHANGED collided

CommitPublish(s) ==
  /\ edits[s].op = "replace"
  /\ versions' = [v \in Version |->
       IF v = edits[s].version THEN [versions[v] EXCEPT !.status = "PUBLISHED"]
       ELSE IF v \in edits[s].seen THEN [versions[v] EXCEPT !.status = "ARCHIVED"]
       ELSE versions[v]]
  /\ EndEdit(s) /\ UNCHANGED collided

-----------------------------------------------------------------------------

DefinitionsInit ==
  /\ versions = [v \in Version |-> NoVersion]
  /\ edits = [s \in Editor |-> AtRest]
  /\ collided = FALSE

DefinitionsNext ==
  \E s \in Editor :
    \/ \E v \in Version, g \in Draft : BeginVersion(s, v, g) \/ BeginUpdate(s, v, g)
    \/ \E v \in Version : BeginPublish(s, v)
    \/ CommitVersion(s) \/ CommitUpdate(s) \/ SeePublished(s) \/ CommitPublish(s)

DefinitionsSpec == DefinitionsInit /\ [][DefinitionsNext]_dvars

-----------------------------------------------------------------------------
(* Properties *)

\* Two versions are published only after publications that overlapped.
OnePublished == Cardinality(Published) > 1 => collided

\* Once a version is published some version always is, however publications and
\* edits overlap: new requests never lose their workflow by a publication.
AlwaysPublished == [][Published # {} => Published' # {}]_dvars

HeldAsDraft(v) == \E s \in Editor : edits[s].version = v /\ edits[s].row.status = "DRAFT"

\* A version that is published or archived keeps its graph and is never published
\* again, except by a handler that had read it while it was a draft.
IssuedIsFixed ==
  [][\A v \in Version : versions[v].status \in {"PUBLISHED", "ARCHIVED"} /\ ~HeldAsDraft(v) =>
       versions'[v] = versions[v] \/ versions'[v] = [versions[v] EXCEPT !.status = "ARCHIVED"]]_dvars

\* Both: what was published serves the requests that use it, and new ones.
PublicationsLast == AlwaysPublished /\ IssuedIsFixed

=============================================================================
