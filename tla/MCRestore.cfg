CONSTANTS
  n1 = n1  n2 = n2  p1 = p1  creator = creator  ann = ann
  v1 = v1  v2 = v2  v3 = v3  k1 = k1  k2 = k2
  NoUser = NoUser  NoNode = NoNode  NoPlan = NoPlan  NoRev = NoRev
  User = {creator, ann}
  Creator = creator
  Managers = {creator}
  Node = {n1, n2}
  Stage <- MCStages
  Qualified <- MCQualified
  Resolved <- MCResolved
  Plan = {p1}
  Graph <- MCGraph
  Reselectable = {}
  Req = {r1}
  Data <- Softcopies
  Att = {}
  Crashes = FALSE
  Offered <- Everything
  Rev = {v1}
  Ticket = {k1}
SPECIFICATION LifecycleSpec
CHECK_DEADLOCK FALSE
PROPERTIES RestoredWhenDisposed
