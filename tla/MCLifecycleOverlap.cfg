CONSTANTS
  n1 = n1  n2 = n2  p1 = p1  creator = creator  ann = ann
  v1 = v1  v2 = v2  v3 = v3  k1 = k1  k2 = k2
  NoUser = NoUser  NoNode = NoNode  NoPlan = NoPlan  NoRev = NoRev
  User = {creator, ann}
  Creator = creator
  Managers = {creator}
  Node = {n1, n2}
  Stage <- MCStages
  Qualified <- MCQualified
  Resolved <- MCResolved
  Plan = {p1}
  Graph <- MCGraph
  Reselectable = {}
  Req = {s1, s2}
  Data <- Softcopies
  Att = {}
  Crashes = TRUE
  Offered <- Everything
  Rev = {v1, v2}
  Ticket = {k1}
  s1 = s1  s2 = s2
  Fetch = {v1, v2}
  Mutation = {s1, s2}
  MaxVersions = 3
  MaxLoads = 3
SPECIFICATION OverlapSpec
CHECK_DEADLOCK FALSE
SYMMETRY Interchangeable
INVARIANTS CompletedHasCopy OneActiveStep NoStaleAnswer OwnChangeShown
PROPERTIES ListNeverOlder
