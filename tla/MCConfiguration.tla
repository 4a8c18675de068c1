-------------------------- MODULE MCConfiguration --------------------------
(***************************************************************************)
(* One document in its review with the files it takes and gives up, or     *)
(* the graph that a workflow is configured by, or the automatic backups.   *)
(* One of them moves in every behaviour, the others stay as they began, so *)
(* each fairness condition holds where its component moves.                *)
(***************************************************************************)
EXTENDS MCDocumentWorkflow, WorkflowGraphs, BackupAutomation

CONSTANTS g1, g2, g3, e1, d1, d2

VARIABLE live

Parts == {"review", "graph", "backups"}

\* A connection for one kind of request, or for all
SomeConditions == {{d1}, {d1, d2}}

ConfigurationInit ==
  /\ live \in Parts
  /\ Init /\ GraphInit /\ AutomationInit
  /\ live # "review" => doc = Created("Draft", Graph[p1].first, p1, Softcopy, FALSE)

Stays(part, v) == IF live = part THEN TRUE ELSE UNCHANGED v

OthersStay ==
  /\ UNCHANGED live
  /\ Stays("review", vars) /\ Stays("graph", edges) /\ Stays("backups", mvars)

ConfigurationNext ==
  \/ live = "review"  /\ Next           /\ OthersStay
  \/ live = "graph"   /\ GraphNext      /\ OthersStay
  \/ live = "backups" /\ AutomationNext /\ OthersStay

\* ServerFairness and UserFairness
ReviewFairness ==
  /\ \A r \in Req : WF_vars(live = "review" /\ Ending(r))
  /\ SF_vars(live = "review" /\ \E r \in Req : Approve(r))

\* AutomationFairness
BackupFairness ==
  /\ WF_mvars(live = "backups" /\ FireBackup) /\ WF_mvars(live = "backups" /\ BackupFails)
  /\ WF_mvars(live = "backups" /\ \E c \in Cycle : FireRetention(c))
  /\ \A c \in Cycle : WF_mvars(live = "backups" /\ CycleStep(c))

ConfigurationSpec ==
  /\ ConfigurationInit
  /\ [][ConfigurationNext]_<<live, vars, edges, mvars>>
  /\ ReviewFairness /\ BackupFairness
=============================================================================
