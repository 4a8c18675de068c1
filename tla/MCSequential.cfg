CONSTANTS
  n1 = n1  n2 = n2  n3 = n3  p1 = p1  p2 = p2
  creator = creator  ann = ann  ben = ben
  NoUser = NoUser  NoNode = NoNode  NoPlan = NoPlan
  User = {creator, ann, ben}
  Creator = creator
  Managers = {creator, ann}
  Node = {n1, n2, n3}
  Stage <- StandardStages
  Qualified <- WideQualified
  Resolved <- MCResolved
  Plan = {p1, p2}
  Graph <- MCGraph
  Reselectable = {p1, p2}
  Req = {r1}
  Data <- AllData
  Att = {a1}
  Crashes = TRUE
  Offered <- Operation
SPECIFICATION Spec
CHECK_DEADLOCK FALSE
INVARIANTS AttachmentsSettled
