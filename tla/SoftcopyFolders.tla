-------------------------- MODULE SoftcopyFolders --------------------------
(***************************************************************************)
(* The tree of softcopy folders (SoftcopyCategoriesService): every row has *)
(* its parent and its whole path.  Creating a folder reads its parent;     *)
(* moving or renaming one reads all rows, checks and computes on that      *)
(* snapshot, and rewrites the paths of the subtree in one transaction.     *)
(*                                                                         *)
(* A path is a sequence of steps <<name, k>>: k is the suffix that keeps   *)
(* paths distinct (1: none).  Owners, descriptions and the documents in a  *)
(* folder are left out.                                                    *)
(***************************************************************************)
EXTENDS Naturals, Sequences, FiniteSets

CONSTANTS
  Folder, NoFolder,  \* softcopy_categories rows; no parent
  Name,              \* slugs of category names
  MaxDepth,          \* steps that fit in folder_name
  Mover,             \* how many handlers can run at once
  GoOn               \* bound: whether handlers still start after an outdated write

ASSUME FolderAssumption ==
  IsFiniteSet(Folder) /\ NoFolder \notin Folder /\ MaxDepth \in Nat /\ GoOn \in BOOLEAN

VARIABLES
  folders,  \* the rows
  moves,    \* the handlers in flight
  outdated  \* what was ever written from rows that had changed: "tree", "path"

fvars == <<folders, moves, outdated>>

Unused  == [live |-> FALSE, parent |-> NoFolder, name |-> "unused", path |-> <<>>]
Deleted == [Unused EXCEPT !.name = "deleted"]

\* row: of the folder created or moved; reparent: whether its parent is written;
\* paths: those a move writes over its subtree; stale: what changed since it read
Resting == [op |-> "idle", id |-> NoFolder, row |-> Unused, reparent |-> FALSE,
            paths |-> <<>>, stale |-> {}]

Live(rows) == {f \in Folder : rows[f].live}

\* The loop over subtreeIds
Subtree(rows, f) ==
  {g \in Live(rows) : \A S \in SUBSET Live(rows) :
     f \in S /\ (\A c \in Live(rows) : rows[c].parent \in S => c \in S) => g \in S}

Under(rows, p, n) == (IF p = NoFolder THEN <<>> ELSE rows[p].path) \o <<<<n, 1>>>>

Suffixed(path, k) == [path EXCEPT ![Len(path)][2] = k]

Suffixes(path) == {Suffixed(path, k) : k \in 1 .. Cardinality(Folder) + 1}

\* The path with the first suffix that is not taken
FirstFree(path, taken) ==
  Suffixed(path, CHOOSE k \in 1 .. Cardinality(Folder) + 1 :
                   Suffixed(path, k) \notin taken /\ \A j \in 1 .. k - 1 : Suffixed(path, j) \in taken)

Paths(rows, F) == {rows[f].path : f \in F}

Rebased(old, new, path) == new \o SubSeq(path, Len(old) + 1, Len(path))

\* The constraints of the table: distinct paths, distinct names under a parent,
\* parents that exist, and the length of folder_name
Accepted(rows) ==
  \A f \in Live(rows) :
    /\ rows[f].parent \in Live(rows) \cup {NoFolder}
    /\ Len(rows[f].path) =< MaxDepth
    /\ \A g \in Live(rows) \ {f} :
         /\ rows[f].path # rows[g].path
         /\ rows[f].parent = rows[g].parent /\ rows[f].parent # NoFolder
              => rows[f].name # rows[g].name

-----------------------------------------------------------------------------

MayStart(s) == moves[s] = Resting /\ (GoOn \/ outdated = {})

BeginMove(s, o, f, r, reparent, paths) ==
  /\ moves' = [moves EXCEPT ![s] = [op |-> o, id |-> f, row |-> r,
                       reparent |-> reparent, paths |-> paths, stale |-> {}]]
  /\ UNCHANGED <<folders, outdated>>

\* What of the rows that m read is changed by writing rows: those it works on, or
\* the parent of any folder
Outdates(rows, m) ==
  LET changed == {g \in Folder : rows[g] # folders[g]} IN
  {x \in {"path", "tree"} : m.op # "idle" /\
     \/ x = "path" /\ \E g \in changed :
          g \in DOMAIN m.paths \cup {m.row.parent} \/ rows[g].parent \in DOMAIN m.paths
     \/ x = "tree" /\ \E g \in changed :
          folders[g].live /\ rows[g].live /\ rows[g].parent # folders[g].parent}

RefuseMove(s) ==
  /\ moves' = [moves EXCEPT ![s] = Resting]
  /\ UNCHANGED <<folders, outdated>>

\* The handler in s ends and writes rows, if the table takes them
WriteRows(s, rows) ==
  IF Accepted(rows)
  THEN /\ folders' = rows
       /\ outdated' = outdated \cup moves[s].stale
       /\ moves' = [r \in Mover |-> IF r = s THEN Resting ELSE
                      [moves[r] EXCEPT !.stale = @ \cup Outdates(rows, moves[r])]]
  ELSE RefuseMove(s)

-----------------------------------------------------------------------------
(* create *)

BeginFolder(s, f, p, n) ==
  /\ MayStart(s) /\ folders[f] = Unused /\ \A r \in Mover : moves[r].id # f
  /\ p \in Live(folders) \cup {NoFolder}
  /\ BeginMove(s, "create", f,
       [live |-> TRUE, parent |-> p, name |-> n,
        path |-> FirstFree(Under(folders, p, n), Paths(folders, Live(folders)))],
       TRUE, <<>>)

CommitFolder(s) ==
  /\ moves[s].op = "create"
  /\ WriteRows(s, [folders EXCEPT ![moves[s].id] = moves[s].row])

-----------------------------------------------------------------------------
(* update *)

MayHold(rows, p, f) == p \notin Subtree(rows, f)

\* A request without a parent keeps the one the folder has
BeginRename(s, f, p, n, reparent) ==
  LET inside == Subtree(folders, f)
      old == folders[f].path
      outside == Paths(folders, Live(folders) \ inside)
      new == Under(folders, p, n)
      free == FirstFree(new, {q \in Suffixes(new) :
                \E g \in inside : Rebased(old, q, folders[g].path) \in outside})
  IN
  /\ MayStart(s) /\ folders[f].live
  /\ reparent \/ p = folders[f].parent
  /\ p \in Live(folders) \cup {NoFolder} /\ MayHold(folders, p, f)
  /\ BeginMove(s, "update", f, [live |-> TRUE, parent |-> p, name |-> n, path |-> free],
       reparent, [g \in inside |-> Rebased(old, free, folders[g].path)])

\* Mutant: the paths of the subfolders are left
Moved_Alone(m) == [folders EXCEPT ![m.id] =
                      [m.row EXCEPT !.parent = IF m.reparent THEN @ ELSE folders[m.id].parent]]

\* The rows after the transaction
Moved(m) ==
  [f \in Folder |-> IF f = m.id
                    THEN [m.row EXCEPT !.parent = IF m.reparent THEN @ ELSE folders[f].parent]
                    ELSE IF f \in DOMAIN m.paths
                    THEN [folders[f] EXCEPT !.path = m.paths[f]]
                    ELSE folders[f]]

\* A row that is gone fails the transaction
CommitRename(s) ==
  LET m == moves[s] IN
  /\ m.op = "update"
  /\ IF DOMAIN m.paths \subseteq Live(folders) THEN WriteRows(s, Moved(m)) ELSE RefuseMove(s)

\* delete: the foreign key of the subfolders repeats its check
DeleteFolder(f) ==
  LET rows == [folders EXCEPT ![f] = Deleted] IN
  /\ folders[f].live /\ \A g \in Live(folders) : folders[g].parent # f
  /\ folders' = rows
  /\ moves' = [r \in Mover |-> [moves[r] EXCEPT !.stale = @ \cup Outdates(rows, moves[r])]]
  /\ UNCHANGED outdated

-----------------------------------------------------------------------------

FoldersInit ==
  /\ folders = [f \in Folder |-> Unused]
  /\ moves = [s \in Mover |-> Resting]
  /\ outdated = {}

FoldersNext ==
  \/ \E s \in Mover :
       \/ \E f \in Folder, p \in Folder \cup {NoFolder}, n \in Name :
            \/ BeginFolder(s, f, p, n)
            \/ \E reparent \in BOOLEAN : BeginRename(s, f, p, n, reparent)
       \/ CommitFolder(s) \/ CommitRename(s)
  \/ \E f \in Folder : DeleteFolder(f)

FoldersSpec == FoldersInit /\ [][FoldersNext]_fvars

-----------------------------------------------------------------------------
(* Properties *)

\* A folder is inside itself only if a move was written over a tree that another
\* handler had changed: creations, renames and deletions never do it.
NoFolderInItself ==
  "tree" \notin outdated =>
    ~\E S \in SUBSET Live(folders) : S # {} /\ \A f \in S : folders[f].parent \in S

\* Unless a handler wrote from rows that had changed, every path is the parent's
\* path and the folder's own name: moving a folder takes its whole subtree along.
PathsFollowTree ==
  "path" \notin outdated =>
    \A f \in Live(folders) : \E k \in 1 .. Cardinality(Folder) + 1 :
      folders[f].path = Suffixed(Under(folders, folders[f].parent, folders[f].name), k)

\* Both: the folders are a tree, and their paths say so.
TreeIsSound == NoFolderInItself /\ PathsFollowTree

-----------------------------------------------------------------------------
(* Inductive invariant *)

Suffix == 1 .. Cardinality(Folder) + 1

Path == Seq(Name \X Suffix)

FolderRow == [live : BOOLEAN, parent : Folder \cup {NoFolder},
              name : Name \cup {"unused", "deleted"}, path : Path]

MoveOK(m) ==
  /\ m = [op |-> m.op, id |-> m.id, row |-> m.row, reparent |-> m.reparent,
          paths |-> m.paths, stale |-> m.stale]
  /\ m.op \in {"idle", "create", "update"} /\ m.row \in FolderRow
  /\ m.reparent \in BOOLEAN /\ m.stale \subseteq {"path", "tree"}
  /\ DOMAIN m.paths \subseteq Folder /\ \A g \in DOMAIN m.paths : m.paths[g] \in Path
  /\ m.op # "idle" => m.id \in Folder /\ m.row.live /\ m.row.name \in Name
  /\ m.op = "create" => DOMAIN m.paths = {}
  /\ m.op = "update" => m.id \in DOMAIN m.paths

RowsOK(rows) == rows \in [Folder -> FolderRow] /\ \A f \in Live(rows) : rows[f].name \in Name

FoldersTypeOK ==
  RowsOK(folders) /\ moves = [s \in Mover |-> moves[s]] /\ \A s \in Mover : MoveOK(moves[s])

\* Parents exist, and so did what m read; nobody else knows the folder that it creates.
ParentsLive(rows) == \A f \in Live(rows) : rows[f].parent \in Live(rows) \cup {NoFolder}

Known(m, rows) ==
  /\ m.op # "idle" /\ m.row.parent \in Folder => rows[m.row.parent] # Unused
  /\ m.op = "update" => rows[m.id] # Unused
  /\ m.op = "create" => rows[m.id] = Unused

KnownFolders ==
  /\ ParentsLive(folders)
  /\ \A s \in Mover : Known(moves[s], folders)
  /\ \A s, r \in Mover : moves[s].op = "create" /\ r # s => moves[r].id # moves[s].id

\* S holds f and every subfolder.
Whole(rows, f, S) == f \in S /\ \A c \in Live(rows) : rows[c].parent \in S => c \in S

\* A move whose tree has not changed goes to a folder outside of the one it moves.
MovesOut(m, rows) ==
  /\ m.op = "update" /\ m.reparent /\ "tree" \notin m.stale
  /\ m.id \in Live(rows) /\ m.row.parent \in Live(rows)
  => \E S \in SUBSET Live(rows) : Whole(rows, m.id, S) /\ m.row.parent \notin S

Follows(path, above, name) == \E k \in Suffix : path = Append(above, <<name, k>>)

Above(rows, p) == IF p = NoFolder THEN <<>> ELSE rows[p].path

TreeFollows(rows) ==
  \A f \in Live(rows) : Follows(rows[f].path, Above(rows, rows[f].parent), rows[f].name)

\* What m writes follows the path of its parent, and over the subtree of a folder what m
\* writes to its parent: no row that m read has changed.
WritesFollow(m, rows) ==
  /\ Follows(m.row.path, Above(rows, m.row.parent), m.row.name)
  /\ m.op = "update" =>
       /\ m.paths[m.id] = m.row.path /\ m.row.parent \notin DOMAIN m.paths
       /\ ~m.reparent => rows[m.id].parent = m.row.parent
       /\ \A g \in DOMAIN m.paths \ {m.id} :
            /\ rows[g].parent \in DOMAIN m.paths
            /\ Follows(m.paths[g], m.paths[rows[g].parent], rows[g].name)
       /\ \A g \in Live(rows) : rows[g].parent \in DOMAIN m.paths => g \in DOMAIN m.paths

PathsAgree ==
  "path" \notin outdated =>
    /\ TreeFollows(folders)
    /\ \A s \in Mover : moves[s].op # "idle" /\ "path" \notin moves[s].stale => WritesFollow(moves[s], folders)

\* TreeIsSound with what makes it inductive
FoldersInv ==
  /\ FoldersTypeOK /\ KnownFolders /\ NoFolderInItself /\ PathsAgree
  /\ \A s \in Mover : MovesOut(moves[s], folders)

=============================================================================
