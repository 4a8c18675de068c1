CONSTANTS
  n1 = n1  n2 = n2  p1 = p1  creator = creator  ann = ann
  v1 = v1  v2 = v2  v3 = v3  k1 = k1  k2 = k2
  NoUser = NoUser  NoNode = NoNode  NoPlan = NoPlan  NoRev = NoRev
  User = {creator, ann}
  Creator = creator
  Managers = {creator}
  Node = {n1, n2}
  Stage <- MCStages
  Qualified <- MCQualified
  Resolved <- MCResolved
  Plan = {p1}
  Graph <- MCGraph
  Reselectable = {}
  Req = {r1}
  Data <- MCData
  Att = {}
  Crashes = TRUE
  Offered <- Everything
  Rev = {v1, v2, v3}
  Ticket = {k1, k2}
  s1 = s1  s2 = s2
  Username = {creator, ann}
  Root = creator
  Registration = {s1, s2}
  Clerk = {s1, s2}
  Folder = {v1, v2, v3}
  NoFolder = NoFolder
  Name = {a}
  MaxDepth = 4
  Mover = {s1, s2}
  GoOn = FALSE
  Version = {v1, v2, v3}
  Draft = {d1, d2}
  Editor = {s1, s2}
  FirstYear = 2023
  Years = 3
  NoDate = NoDate
  Date = {58, 89, 395, 424, 425, 789}
  Uploader = {s1, s2}
  MaxRevisions = 3
  Get = {s1, s2}
  TTL = 2
  Longest = 1
  MaxChanges = 1
  MaxTime = 8
SPECIFICATION AdministrationSpec
CHECK_DEADLOCK FALSE
SYMMETRY Interchangeable
INVARIANTS OneCurrentRevision DisposalSound AdministratorLeft RegistrationsSettled
INVARIANTS TreeIsSound OnePublished  CacheInTime
PROPERTIES PublicationsLast CountdownFalls
