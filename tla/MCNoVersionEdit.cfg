CONSTANTS
  n1 = n1  n2 = n2  n3 = n3  p1 = p1  p2 = p2
  creator = creator  ann = ann  ben = ben
  NoUser = NoUser  NoNode = NoNode  NoPlan = NoPlan
  User = {creator, ann, ben}
  Creator = creator
  Managers = {creator, ann}
  Node = {n1, n2, n3}
  Stage <- StandardStages
  Qualified <- MCQualified
  Resolved <- MCResolved
  Plan = {p1, p2}
  Graph <- MCGraph
  Reselectable = {p1}
  Req = {r1}
  Data <- OnlySoftcopy
  Att = {}
  Crashes = FALSE
  Offered <- WithEdits
SPECIFICATION Spec
PROPERTIES RefusalMeansChange
CHECK_DEADLOCK FALSE
