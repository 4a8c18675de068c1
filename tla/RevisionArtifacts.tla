-------------------------- MODULE RevisionArtifacts --------------------------
(***************************************************************************)
(* Stamped copies of a softcopy revision.  A download reads the document   *)
(* and the revision, and takes a fingerprint of what it read; it serves    *)
(* the stored copy of that fingerprint, joins a build of it in flight, or  *)
(* builds it: a temporary file is renamed to a path that holds the         *)
(* fingerprint, then the one row of the revision is replaced.  Meanwhile   *)
(* the document moves on, and the process may end.                         *)
(***************************************************************************)
EXTENDS Naturals

CONSTANTS
  Download,     \* downloads, each asked for once
  MaxChanges,   \* bound: changes of the document or the revision
  MaxFaults     \* bound: ends of the process and stored files lost

ASSUME ArtifactsAssumption == MaxChanges \in Nat /\ MaxFaults \in Nat

VARIABLES
  facts,      \* what a stamp depends on: [status, revision]
  row,        \* the fingerprint in the row of the revision's copies, if there is one
  files,      \* the file at the path of each fingerprint: [state, stamp]
  downloads,  \* [at, read, stamp, whole] of each download
  changes, faults

artifactVars == <<facts, row, files, downloads, changes, faults>>

Status == {"Approved", "Completed", "ForRevision", "Rejected", "Disposed"}

Facts == [status : Status, revision : {"uploaded", "current", "superseded"}]

\* buildStamp, in the order of its tests
Stamp(f) ==
  CASE f.revision = "superseded"           -> "SUPERSEDED"
    [] f.status = "Disposed"               -> "OBSOLETE"
    [] f.status = "Rejected"               -> "UNCONTROLLED"
    [] f.status \in {"Approved", "Completed"} -> "CONTROLLED"
    [] OTHER                               -> "DRAFT"

\* revisionArtifactFingerprint
Fingerprint(f) == f

Prints == {Fingerprint(f) : f \in Facts}

NoFile == [state |-> "none", stamp |-> "none"]

Asked == [at |-> "new", read |-> [status |-> "Approved", revision |-> "uploaded"],
          stamp |-> "none", whole |-> TRUE]

-----------------------------------------------------------------------------
(* What other operations change: the status, finalizeRevision *)

Moves ==
  {<<"Completed", "ForRevision">>, <<"ForRevision", "Approved">>,
   <<"ForRevision", "Rejected">>, <<"Completed", "Disposed">>}

ChangeFacts ==
  /\ changes < MaxChanges /\ changes' = changes + 1
  /\ \/ /\ facts.status = "Approved"    \* this revision or the next one is finalized
        /\ facts' = [status |-> "Completed",
                     revision |-> IF facts.revision = "uploaded" THEN "current" ELSE "superseded"]
     \/ \E m \in Moves : facts.status = m[1] /\ facts' = [facts EXCEPT !.status = m[2]]
  /\ UNCHANGED <<row, files, downloads, faults>>

-----------------------------------------------------------------------------
(* getOrCreateRevisionArtifact *)

Ask(d) ==
  /\ downloads[d].at = "new"
  /\ downloads' = [downloads EXCEPT ![d] = [@ EXCEPT !.at = "look", !.read = facts]]
  /\ UNCHANGED <<facts, row, files, changes, faults>>

\* Mutant: a build is joined whatever it is a copy of
BuildKey_Revision(p) == 0

\* revision and type are fixed here
BuildKey(p) == p

Building(p) == \E d \in Download : downloads[d].at \in {"build", "rename", "upsert"}
                                 /\ BuildKey(Fingerprint(downloads[d].read)) = BuildKey(p)

Served(d, p) == [downloads[d] EXCEPT !.at = "served", !.stamp = files[p].stamp,
                                     !.whole = files[p].state = "whole"]

\* The stored copy, a build in flight, or a build of its own
Look(d) ==
  LET p == Fingerprint(downloads[d].read) IN
  /\ downloads[d].at = "look"
  /\ downloads' = [downloads EXCEPT ![d] =
       IF p \in row /\ files[p].state # "none" THEN Served(d, p)
       ELSE [@ EXCEPT !.at = IF Building(p) THEN "join" ELSE "build"]]
  /\ UNCHANGED <<facts, row, files, changes, faults>>

\* The temporary path is of this build alone: nobody else finds the file there
WriteFile(d) ==
  /\ downloads[d].at = "build"
  /\ downloads' = [downloads EXCEPT ![d].at = "rename"]
  /\ UNCHANGED <<facts, row, files, changes, faults>>

RenameFile(d) ==
  /\ downloads[d].at = "rename"
  /\ files' = [files EXCEPT ![Fingerprint(downloads[d].read)] =
                 [state |-> "whole", stamp |-> Stamp(downloads[d].read)]]
  /\ downloads' = [downloads EXCEPT ![d].at = "upsert"]
  /\ UNCHANGED <<facts, row, changes, faults>>

\* The builder and all who joined get the copy that was built
UpsertRow(d) ==
  LET p == Fingerprint(downloads[d].read) IN
  /\ downloads[d].at = "upsert"
  /\ row' = {p}
  /\ downloads' = [e \in Download |->
       IF e = d \/ (downloads[e].at = "join" /\ BuildKey(Fingerprint(downloads[e].read)) = BuildKey(p))
       THEN [downloads[e] EXCEPT !.at = "served", !.stamp = Stamp(downloads[d].read)]
       ELSE downloads[e]]
  /\ UNCHANGED <<facts, files, changes, faults>>

-----------------------------------------------------------------------------
(* Faults *)

\* The process ends: every download in flight is gone
EndProcess ==
  /\ faults < MaxFaults /\ faults' = faults + 1
  /\ downloads' = [d \in Download |->
       IF downloads[d].at \in {"new", "served"} THEN downloads[d] ELSE [downloads[d] EXCEPT !.at = "gone"]]
  /\ UNCHANGED <<facts, row, files, changes>>

\* A stored copy is removed from the volume by hand
LoseFile(p) ==
  /\ faults < MaxFaults /\ faults' = faults + 1
  /\ files[p].state = "whole"
  /\ files' = [files EXCEPT ![p] = NoFile]
  /\ UNCHANGED <<facts, row, downloads, changes>>

-----------------------------------------------------------------------------

ArtifactsInit ==
  /\ facts = Asked.read /\ row = {}
  /\ files = [p \in Prints |-> NoFile]
  /\ downloads = [d \in Download |-> Asked]
  /\ changes = 0 /\ faults = 0

ArtifactsNext ==
  \/ ChangeFacts \/ EndProcess
  \/ \E p \in Prints : LoseFile(p)
  \/ \E d \in Download : Ask(d) \/ Look(d) \/ WriteFile(d) \/ RenameFile(d) \/ UpsertRow(d)

ArtifactsSpec == ArtifactsInit /\ [][ArtifactsNext]_artifactVars

-----------------------------------------------------------------------------
(* Properties *)

\* A download hands out the stamp of what it read, whoever built the copy and however
\* the document moved on: none that read a superseded or disposed document gets a
\* copy marked as controlled.  Nor does it hand out a file that another build is still
\* writing, or that the end of the process cut off.
StampedAsRead ==
  \A d \in Download : downloads[d].at = "served" =>
    downloads[d].stamp = Stamp(downloads[d].read) /\ downloads[d].whole

-----------------------------------------------------------------------------
(* Inductive invariant *)

Stamps == {"none", "SUPERSEDED", "OBSOLETE", "UNCONTROLLED", "CONTROLLED", "DRAFT"}

DownloadRecord == [at : {"new", "look", "join", "build", "rename", "upsert", "served", "gone"},
                   read : Facts, stamp : Stamps, whole : BOOLEAN]

ArtifactsTypeOK ==
  /\ facts \in Facts
  /\ files \in [Prints -> [state : {"none", "whole"}, stamp : Stamps]]
  /\ downloads \in [Download -> DownloadRecord]

\* The file at the path of a fingerprint bears its stamp.
FilesBearStamp == \A p \in Prints : files[p].state = "whole" => files[p].stamp = Stamp(p)

\* StampedAsRead with what makes it inductive
ArtifactsInv ==
  /\ ArtifactsTypeOK /\ FilesBearStamp /\ StampedAsRead
  /\ \A d \in Download : downloads[d].at # "served" => downloads[d].whole

=============================================================================
