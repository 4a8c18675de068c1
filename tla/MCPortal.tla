------------------------------ MODULE MCPortal ------------------------------
(***************************************************************************)
(* Small instances of what surrounds a document: access to it, the routes  *)
(* and codes of locations, the files on disk, imports of folders.  One of  *)
(* them moves in every behaviour, the others stay as they began.  Two      *)
(* overlapping handlers and two access requests of an administrator and of *)
(* ben, who created the document; either may be its approver.              *)
(***************************************************************************)
EXTENDS AccessRequests, StorageRoutes, RevisionStorage, FolderImport, LocationCodes, TLC

CONSTANTS admin, ben, q1, q2, s1, s2, f3, i1, i2

VARIABLE live

Parts == {"access", "routes", "files", "imports", "codes"}

Interchangeable == Permutations({s1, s2}) \cup Permutations({q1, q2})

PortalInit ==
  /\ live \in Parts
  /\ Init /\ RoutesInit /\ StorageInit /\ FolderImportInit /\ CodesInit
  /\ live # "access" => assigned = [u \in User |-> NoUser]

Stays(part, v) == IF live = part THEN TRUE ELSE UNCHANGED v

OthersStay ==
  /\ UNCHANGED live
  /\ Stays("access", avars)  /\ Stays("routes", rvars)  /\ Stays("files", ovars)
  /\ Stays("imports", dvars) /\ Stays("codes", cvars)

\* Nothing of the catalog refers to specific s
Spare(s) ==
  /\ areaOf[s] = None /\ copy.specific # s /\ \A x \in Asset : assetOn[x] # s
  /\ \A l \in Place : placeAt[l].specific # s /\ \A j \in begun : j.of.specific # s

\* An edit of the catalog is under way
Editing == \E j \in begun : j.by \in {"specific", "asset", "place"}

\* Two handlers overlap only while one specific is spare, one of them edits the catalog (the
\* others leave it alone), no form is open, and nothing has strayed; a form is open only
\* beside one edit of the catalog.
RoutesBounded ==
  /\ Cardinality(begun') = 2 =>
       form' = Empty /\ ~strayed' /\ Editing' /\ \E s \in Specific : Spare(s)'
  /\ form' # Empty /\ begun' # {} => ~strayed' /\ Editing'

PortalNext ==
  \/ live = "access"  /\ Next             /\ OthersStay
  \/ live = "routes"  /\ RoutesNext       /\ OthersStay /\ RoutesBounded
  \/ live = "files"   /\ StorageNext      /\ OthersStay
  \/ live = "imports" /\ FolderImportNext /\ OthersStay
  \/ live = "codes"   /\ CodesNext        /\ OthersStay

PortalSpec ==
  PortalInit /\ [][PortalNext]_<<live, avars, rvars, ovars, dvars, cvars>>
=============================================================================
