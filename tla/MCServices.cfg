CONSTANTS
  admin = admin  ann = ann
  p1 = p1  p2 = p2  d3 = d3  s1 = s1  s2 = s2
  i1 = i1  i2 = i2
  NoUser = NoUser  NoPlace = NoPlace
  User = {admin, ann}
  Admins = {admin}
  Approvers = {admin, ann}
  Place = {p1, p2}
  Transfer = {t1}
  Slot = {s1, s2}
  Download = {p1, p2, d3}
  MaxChanges = 4
  MaxFaults = 1
  Import = {i1, i2}
  Area = {p1, p2}
  Location = {s1, s2}
  MaxRows = 3
  MaxBroken = 1
  Doc = {p1, p2}
  Workbook = {s1, s2}
  None = None
  File = {p1, p2}
  Package = {b1}
  Worker = {s1, s2}
  MaxRestores = 2
  GoOn = FALSE
  Permission = {s1, s2}
  MaxLinks = 3
SPECIFICATION ServicesSpec
CHECK_DEADLOCK FALSE
SYMMETRY Handlers
INVARIANTS TransferInv StampedAsRead ImportsExplained DialogsAgree FilesAreKept
PROPERTIES ImplementsCustody SavedAsChosen
