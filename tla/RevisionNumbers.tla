--------------------------- MODULE RevisionNumbers ---------------------------
(***************************************************************************)
(* The numbers of a softcopy's revisions: typed by hand, or one more than  *)
(* the number of the latest row.  The file of an upload is stored before   *)
(* its handler runs; this looks for the number among the rows, moves the   *)
(* file to the category's folder and adds its row, which                   *)
(* @@unique([softcopy_id, revision_number]) may still refuse.  Nothing     *)
(* removes the file of an upload that is refused.  Refusals that do not    *)
(* depend on the number are left out.                                      *)
(***************************************************************************)
EXTENDS Integers, Sequences

CONSTANTS
  Uploader,      \* uploads at once
  MaxRevisions   \* bound: revisions of the softcopy

ASSUME NumbersAssumption == MaxRevisions \in Nat

VARIABLES
  numbers,  \* the rows' numbers in the order of their ids
  uploads,  \* [at, number, seen]: seen counts the rows when the number was looked for
  orphans,  \* [number, seen, moved] of the uploads that left their file without a row: in
            \* the folder that uploads arrive in, or moved
  blocked   \* whether a counted number was ever found taken

nvars == <<numbers, uploads, orphans, blocked>>

\* What is typed, as Number() reads it: -1 stands for text, and only a padded number
\* is the text that counting writes
Typed == [value : -1 .. MaxRevisions, padded : BOOLEAN]

NoUpload == [at |-> "none", number |-> [value |-> 0, padded |-> TRUE], seen |-> 0]

\* getNextRevisionNumber: text counts as before the first
NextNumber ==
  [value |-> IF numbers = <<>> THEN 0 ELSE numbers[Len(numbers)].value + 1, padded |-> TRUE]

Rows == {numbers[i] : i \in DOMAIN numbers}

\* Mutant: the number is not looked for before the file is moved
Found_None(n) == FALSE

Found(n) == n \in Rows

Orphan(n, seen, moved) == [number |-> n, seen |-> seen, moved |-> moved]

\* A number in use is refused, otherwise the file is moved
LookUp(u, n) ==
  /\ uploads[u].at = "none" /\ Len(numbers) < MaxRevisions
  /\ IF Found(n)
     THEN orphans' = orphans \cup {Orphan(n, Len(numbers), FALSE)} /\ UNCHANGED uploads
     ELSE /\ uploads' = [uploads EXCEPT ![u] = [at |-> "moved", number |-> n, seen |-> Len(numbers)]]
          /\ UNCHANGED orphans

UploadTyped(u, n) == LookUp(u, n) /\ UNCHANGED <<numbers, blocked>>

UploadCounted(u) ==
  /\ LookUp(u, NextNumber)
  /\ blocked' = (blocked \/ NextNumber \in Rows)
  /\ UNCHANGED numbers

\* The unique constraint decides; nothing removes the file of a row refused
AddRow(u) ==
  /\ uploads[u].at = "moved"
  /\ IF uploads[u].number \in Rows
     THEN /\ orphans' = orphans \cup {Orphan(uploads[u].number, uploads[u].seen, TRUE)}
          /\ UNCHANGED numbers
     ELSE /\ numbers' = Append(numbers, uploads[u].number)
          /\ UNCHANGED orphans
  /\ uploads' = [uploads EXCEPT ![u] = NoUpload]
  /\ UNCHANGED blocked

NumbersInit ==
  numbers = <<>> /\ uploads = [u \in Uploader |-> NoUpload] /\ orphans = {} /\ blocked = FALSE

NumbersNext ==
  \E u \in Uploader :
    \/ \E n \in Typed : UploadTyped(u, n)
    \/ UploadCounted(u)
    \/ AddRow(u)

NumbersSpec == NumbersInit /\ [][NumbersNext]_nvars

-----------------------------------------------------------------------------
(* Properties *)

\* A counted number is found taken only after a number that did not exceed the one
\* before it: gaps, leading zeros and text in rising order never block an upload.
NextNumberFree ==
  blocked => \E i \in 1 .. Len(numbers) - 1 : numbers[i + 1].value <= numbers[i].value

\* An upload leaves its file without a row, where uploads arrive, because its number was
\* in use when it was looked for, or in the category's folder, because another upload of
\* the same number overtook it between the look and the row.
OrphansExplained ==
  \A f \in orphans :
    \E i \in 1 .. Len(numbers) : numbers[i] = f.number /\ (f.moved <=> i > f.seen)

\* Both: an upload is refused, and its file stays without a row, only for a reason.
NumbersExplained == NextNumberFree /\ OrphansExplained

-----------------------------------------------------------------------------
(* Inductive invariant *)

RevisionNumber == [value : Int, padded : BOOLEAN]

NumbersTypeOK ==
  /\ numbers \in Seq(RevisionNumber)
  /\ uploads \in [Uploader -> [at : {"none", "moved"}, number : RevisionNumber, seen : Nat]]
  /\ orphans \subseteq [number : RevisionNumber, seen : Nat, moved : BOOLEAN]

\* A number exceeds all before it, or there is one that did not exceed the one before it.
RisingOrNot ==
  \/ \A j \in 1 .. Len(numbers) : \A i \in 1 .. j - 1 : numbers[i].value < numbers[j].value
  \/ \E i \in 1 .. Len(numbers) - 1 : numbers[i + 1].value <= numbers[i].value

\* The number of a file that was moved is not among the rows that were looked at.
NotSeen ==
  \A u \in Uploader : uploads[u].at = "moved" =>
    /\ uploads[u].seen =< Len(numbers)
    /\ \A i \in 1 .. uploads[u].seen : numbers[i] # uploads[u].number

\* NumbersExplained with what makes it inductive
NumbersInv == NumbersTypeOK /\ RisingOrNot /\ NotSeen /\ NumbersExplained

=============================================================================
