CONSTANTS
  n1 = n1  n2 = n2  n3 = n3  p1 = p1  p2 = p2
  creator = creator  ann = ann  ben = ben
  NoUser = NoUser  NoNode = NoNode  NoPlan = NoPlan
  User = {creator, ann, ben}
  Creator = creator
  Managers = {creator, ann}
  Node = {n1, n2, n3}
  Stage <- StandardStages
  Qualified <- MCQualified
  Resolved <- MCResolved
  Plan = {p1, p2}
  Graph <- MCGraph
  Reselectable = {}
  Req = {r1, r2}
  Data <- OnlySoftcopy
  Att = {a1, a2}
  Crashes = FALSE
  Offered <- WithFiles
  g1 = g1  g2 = g2  g3 = g3  e1 = e1  d1 = d1  d2 = d2
  GraphNode = {g1, g2, g3, e1}
  Approval = {g1, g2, g3}
  StartNode = g1
  Kind = {d1, d2}
  Condition <- SomeConditions
  MaxEdges = 3
  Backup = {b1, b2}
  Cycle = {c1, c2}
  MaxBoots = 1
SPECIFICATION ConfigurationSpec
CHECK_DEADLOCK FALSE
INVARIANTS FileInv PlanIsSound TimersInOrder
PROPERTIES ReviewEnds RejectedFilesRemoved ExpiredIsDeleted
