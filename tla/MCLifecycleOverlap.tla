-------------------------- MODULE MCLifecycleOverlap --------------------------
(***************************************************************************)
(* A small instance of what overlaps without any lock: two handlers of the *)
(* lifecycle of one document, or the requests of one browser tab for the   *)
(* list of documents and its own and others' changes.  One of them moves   *)
(* in every behaviour, the others stay as they began.  A set of model      *)
(* values stands for the handlers, or the requests, of either.             *)
(***************************************************************************)
EXTENDS MCDocumentLifecycle, DocumentsPage

CONSTANTS s1, s2

VARIABLE live

Parts == {"lifecycle", "list", "answers"}

Interchangeable == Permutations({s1, s2}) \cup Permutations({v1, v2})

OverlapInit ==
  /\ live \in Parts
  /\ LifecycleInit /\ PageInit
  /\ live # "lifecycle" =>
       /\ doc = Created("Draft", n1, p1, [type |-> "SOFTCOPY", action |-> "CREATE"], FALSE)
       /\ revs = OneRev(NoRev, "NONE")

OverlapNext ==
  /\ UNCHANGED live
  /\ \/ live = "lifecycle" /\ LifecycleNext /\ UNCHANGED wvars
     \/ live = "list"      /\ PageNext      /\ UNCHANGED <<vars, lvars>>
     \/ live = "answers"   /\ BrowserNext   /\ UNCHANGED <<vars, lvars, pageVars>>

OverlapSpec == OverlapInit /\ [][OverlapNext]_<<live, vars, lvars, wvars>>
=============================================================================
