----------------------------- MODULE MCServices -----------------------------
(***************************************************************************)
(* Small instances of the services that do not share state: one of them    *)
(* moves in every behaviour, the others stay as they began.  A set of      *)
(* model values stands for the handlers of any of them.                    *)
(***************************************************************************)
EXTENDS HardcopyTransfer, RevisionArtifacts, BatchImport, PageDialogs, BackupRestore,
        RolePermissions, TLC

CONSTANTS admin, ann, p1, p2, d3, s1, s2, i1, i2

VARIABLE live

Parts == {"transfers", "artifacts", "import", "dialogs", "restore", "roles"}

Handlers == Permutations({s1, s2}) \cup Permutations({p1, p2})

ServicesInit ==
  /\ live \in Parts
  /\ Init /\ ArtifactsInit /\ ImportInit /\ DialogsInit /\ RestoreInit /\ LinksInit
  /\ live # "transfers" => phase = "final" /\ routed = Place
  /\ live # "restore" => definitions

Stays(part, v) == IF live = part THEN TRUE ELSE UNCHANGED v

OthersStay ==
  /\ UNCHANGED live
  /\ Stays("transfers", tvars)   /\ Stays("artifacts", artifactVars) /\ Stays("import", ivars)
  /\ Stays("dialogs", <<dialogVars, batchVars>>) /\ Stays("restore", pvars)
  /\ Stays("roles", lvars)

ServicesNext ==
  \/ live = "transfers" /\ Next          /\ OthersStay
  \/ live = "artifacts" /\ ArtifactsNext /\ OthersStay
  \/ live = "import"    /\ ImportNext    /\ OthersStay
  \/ live = "dialogs"   /\ DialogsNext   /\ OthersStay
  \/ live = "restore"   /\ RestoreNext   /\ OthersStay
  \/ live = "roles"     /\ LinksNext     /\ OthersStay

ServicesSpec ==
  ServicesInit /\ [][ServicesNext]_<<live, tvars, artifactVars, ivars, dialogVars, batchVars, pvars,
                                     lvars>>
=============================================================================
