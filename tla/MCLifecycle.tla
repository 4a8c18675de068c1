----------------------------- MODULE MCLifecycle -----------------------------
(***************************************************************************)
(* The lifecycle of a document handled by one user at a time, or what the  *)
(* administrators around it keep: accounts, folders, versions of the       *)
(* workflow, retention periods, revision numbers, the cached answers.  One *)
(* of them moves in every behaviour, the others stay as they began.        *)
(***************************************************************************)
EXTENDS MCDocumentLifecycle, Accounts, SoftcopyFolders, WorkflowDefinitions, Retention,
        RevisionNumbers, ServerCache

CONSTANTS s1, s2

VARIABLE live

Parts == {"lifecycle", "accounts", "folders", "versions", "retention", "numbers", "answers"}

Interchangeable == Permutations({s1, s2}) \cup Permutations({v1, v2, v3})

AdministrationInit ==
  /\ live \in Parts
  /\ LifecycleInit /\ AccountsInit /\ FoldersInit /\ DefinitionsInit
  /\ RetentionInit /\ NumbersInit /\ CacheInit
  /\ live # "lifecycle" =>
       /\ doc = Created("Draft", n1, p1, [type |-> "SOFTCOPY", action |-> "CREATE"], FALSE)
       /\ revs = OneRev(NoRev, "NONE")

Stays(part, v) == IF live = part THEN TRUE ELSE UNCHANGED v

OthersStay ==
  /\ UNCHANGED live
  /\ Stays("lifecycle", <<vars, lvars>>) /\ Stays("accounts", uvars)
  /\ Stays("folders", fvars)             /\ Stays("versions", dvars)
  /\ Stays("retention", periodVars)      /\ Stays("numbers", nvars)
  /\ Stays("answers", kvars)

AdministrationNext ==
  \/ live = "lifecycle" /\ LifecycleNext   /\ OthersStay
  \/ live = "accounts"  /\ AccountsNext    /\ OthersStay
  \/ live = "folders"   /\ FoldersNext     /\ OthersStay
  \/ live = "versions"  /\ DefinitionsNext /\ OthersStay
  \/ live = "retention" /\ RetentionNext   /\ OthersStay
  \/ live = "numbers"   /\ NumbersNext     /\ OthersStay
  \/ live = "answers"   /\ CacheNext       /\ OthersStay

AdministrationSpec ==
  AdministrationInit /\ [][AdministrationNext]_<<live, vars, lvars, uvars, fvars, dvars,
                                                periodVars, nvars, kvars>>
=============================================================================
