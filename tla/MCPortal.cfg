CONSTANTS
  admin = admin  ben = ben
  q1 = q1  q2 = q2  s1 = s1  s2 = s2  f3 = f3  i1 = i1  i2 = i2
  NoUser = NoUser
  User = {admin, ben}
  Creator = ben
  Admins = {admin}
  Approvers = {admin, ben}
  Request = {q1, q2}
  Slot = {s1, s2}
  Area = {q1, q2}
  Specific = {s1, s2}
  Asset = {x1}
  Place = {p1}
  MaxBegun = 2
  None = None
  Folder = {q1, q2, f3}
  Organizer = {s1, s2}
  Start = f3
  MaxCrashes = 2
  Importer = {i1, i2}
  Part = {a1}
  MaxFiles = 2
  MaxFailures = 1
  MaxSuffix = 4
  Letters = 2
  MaxLocations = 7
SPECIFICATION PortalSpec
CHECK_DEADLOCK FALSE
SYMMETRY Interchangeable
INVARIANTS AccessInv CopyInAreaOfSpecific RowFindsFile FilesAreFiled
INVARIANTS CodesFollowRows
PROPERTIES RefusedForGood
