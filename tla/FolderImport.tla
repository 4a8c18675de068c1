----------------------------- MODULE FolderImport -----------------------------
(***************************************************************************)
(* The import of softcopies from a directory.  An import reads the folders *)
(* (categories) into a map once.  For each file it walks the directory     *)
(* part by part, creating the folders that the map misses outside of any   *)
(* transaction, moves the file into the last one, and adds the document in *)
(* one transaction; when that fails the file is removed again.  Imports    *)
(* overlap, and the process may end.                                       *)
(***************************************************************************)
EXTENDS Naturals, Sequences, FiniteSets

CONSTANTS
  Importer,     \* imports
  Part,         \* names of directories; all have the same slug
  MaxFiles,     \* bound: files of an import
  MaxFailures,  \* bound: transactions that fail
  MaxSuffix     \* bound: suffixes of a folder's name

ASSUME FolderImportAssumption ==
  MaxFiles \in Nat /\ MaxFailures \in Nat /\ MaxSuffix \in Nat \ {0}

VARIABLES
  categories,   \* rows: [id, parent, name, folder, by]; the root's id is 0
  importers,    \* [at, map, path, rest, parent, folder, file, found] of each import
  documents,    \* documents imported: [file, category, path]
  stored,       \* files under the uploads root
  failures,
  finished      \* whether the process finished

dvars == <<categories, importers, documents, stored, failures, finished>>

Top == [id |-> 0, folder |-> <<>>]

Paths == {<<a>> : a \in Part} \cup {<<a, b>> : a, b \in Part}

NotBegun == [at |-> "new", map |-> {}, path |-> <<>>, rest |-> <<>>, parent |-> Top,
             folder |-> <<>>, file |-> 0, found |-> {}]

Set(i, r) == importers' = [importers EXCEPT ![i] = r]

Me(i) == importers[i]

BeginImport(i) ==
  /\ Me(i) = NotBegun
  /\ Set(i, [NotBegun EXCEPT !.at = "file", !.map = categories, !.found = categories])
  /\ UNCHANGED <<categories, documents, stored, failures, finished>>

NextFile(i, path) ==
  /\ Me(i).at = "file" /\ Me(i).file < MaxFiles
  /\ Set(i, [Me(i) EXCEPT !.at = "walk", !.file = @ + 1, !.path = path, !.rest = path, !.parent = Top])
  /\ UNCHANGED <<categories, documents, stored, failures, finished>>

-----------------------------------------------------------------------------
(* resolveFolderCategoryPath *)

\* folderCategoryKey
InMap(i) == {c \in Me(i).map : c.parent = Me(i).parent.id /\ c.name = Head(Me(i).rest)}

Mapped(i, c) == Me(i).map \cup {c}

StepInto(i, c) ==
  Set(i, [Me(i) EXCEPT !.at = "walk", !.map = Mapped(i, c), !.rest = Tail(@), !.parent = c])

KnownFolder(i) ==
  /\ Me(i).at = "walk" /\ Me(i).rest # <<>>
  /\ \E c \in InMap(i) : StepInto(i, c)
  /\ UNCHANGED <<categories, documents, stored, failures, finished>>

\* The first name that no folder has, with a suffix after the first
FreeName(i) ==
  /\ Me(i).at = "walk" /\ Me(i).rest # <<>> /\ InMap(i) = {}
  /\ \E k \in 1 .. MaxSuffix :
       LET Name(j) == Append(Me(i).parent.folder, j)
           taken == {c.folder : c \in categories}
       IN  /\ Name(k) \notin taken /\ \A j \in 1 .. k - 1 : Name(j) \in taken
           /\ Set(i, [Me(i) EXCEPT !.at = "create", !.folder = Name(k)])
  /\ UNCHANGED <<categories, documents, stored, failures, finished>>

\* Unique: the folder, and parent and name together; the parent of a folder at the
\* root is NULL, which equals nothing
FolderRefused(i) ==
  \E c \in categories :
    \/ c.folder = Me(i).folder
    \/ c.parent # 0 /\ c.parent = Me(i).parent.id /\ c.name = Head(Me(i).rest)

CreateFolder(i) ==
  /\ Me(i).at = "create"
  /\ IF FolderRefused(i)
     THEN /\ Set(i, [Me(i) EXCEPT !.at = "file"])
          /\ UNCHANGED categories
     ELSE LET c == [id |-> Cardinality(categories) + 1, parent |-> Me(i).parent.id,
                    name |-> Head(Me(i).rest), folder |-> Me(i).folder, by |-> i]
          IN categories' = categories \cup {c} /\ StepInto(i, c)
  /\ UNCHANGED <<documents, stored, failures, finished>>

-----------------------------------------------------------------------------
(* batchSoftcopyFolderImport, the rest *)

File(i) == <<i, Me(i).file>>

MoveUpload(i) ==
  /\ Me(i).at = "walk" /\ Me(i).rest = <<>>
  /\ stored' = stored \cup {File(i)}
  /\ Set(i, [Me(i) EXCEPT !.at = "add"])
  /\ UNCHANGED <<categories, documents, failures, finished>>

AddDocument(i) ==
  /\ Me(i).at = "add"
  /\ documents' = documents \cup {[file |-> File(i), category |-> Me(i).parent.id, path |-> Me(i).path]}
  /\ Set(i, [Me(i) EXCEPT !.at = "file"])
  /\ UNCHANGED <<categories, stored, failures, finished>>

\* Mutant: the file moved stays when the transaction fails
AfterFailure_Kept(i) == "file"

AfterFailure(i) == "unlink"

TransactionFails(i) ==
  /\ Me(i).at = "add" /\ failures < MaxFailures
  /\ failures' = failures + 1
  /\ Set(i, [Me(i) EXCEPT !.at = AfterFailure(i)])
  /\ UNCHANGED <<categories, documents, stored, finished>>

Unlink(i) ==
  /\ Me(i).at = "unlink"
  /\ stored' = stored \ {File(i)}
  /\ Set(i, [Me(i) EXCEPT !.at = "file"])
  /\ UNCHANGED <<categories, documents, failures, finished>>

EndImports ==
  /\ ~finished /\ finished' = TRUE
  /\ importers' = [i \in Importer |-> [NotBegun EXCEPT !.at = "over", !.found = Me(i).found]]
  /\ UNCHANGED <<categories, documents, stored, failures>>

FolderImportInit ==
  /\ categories = {} /\ documents = {} /\ stored = {} /\ failures = 0 /\ finished = FALSE
  /\ importers = [i \in Importer |-> NotBegun]

FolderImportNext ==
  \/ EndImports
  \/ \E i \in Importer :
       \/ BeginImport(i) \/ (\E path \in Paths : NextFile(i, path))
       \/ KnownFolder(i) \/ FreeName(i) \/ CreateFolder(i)
       \/ MoveUpload(i) \/ AddDocument(i) \/ TransactionFails(i) \/ Unlink(i)

FolderImportSpec == FolderImportInit /\ [][FolderImportNext]_dvars

-----------------------------------------------------------------------------
(* Properties *)

FiledAt(c, path, cs) ==
  /\ c.name = path[Len(path)]
  /\ IF Len(path) = 1 THEN c.parent = 0
     ELSE \E p \in cs : p.id = c.parent /\ p.parent = 0 /\ p.name = path[1]

\* A document's folder is at the directory path of its file, counted from the root,
\* whatever imports create folders meanwhile.
FiledByPath ==
  \A d \in documents : \E c \in categories : c.id = d.category /\ FiledAt(c, d.path, categories)

\* A stored file without a document belongs to an import under way, unless the process
\* finished meanwhile: a transaction that fails leaves none behind.
StoredHasDocument ==
  ~finished => \A f \in stored :
    \/ \E d \in documents : d.file = f
    \/ \E i \in Importer : Me(i).at \in {"add", "unlink"} /\ f = <<i, Me(i).file>>

\* Two folders bear one name in one place only at the root, and only when imports
\* overlapped: neither import had found the other's folder.
DoubledByOverlap ==
  \A c, d \in categories : c # d /\ c.parent = d.parent /\ c.name = d.name =>
    /\ c.parent = 0 /\ c.by # d.by
    /\ c \notin Me(d.by).found /\ d \notin Me(c.by).found

\* All three: rows, folders and files agree, whatever failed and overlapped.
FilesAreFiled == FiledByPath /\ StoredHasDocument /\ DoubledByOverlap

-----------------------------------------------------------------------------
(* Inductive invariant *)

Category == [id : Nat, parent : Nat, name : Part, folder : Seq(Nat), by : Importer]

ImportRecord ==
  [at : {"new", "file", "walk", "create", "add", "unlink", "over"}, map : SUBSET Category,
   path : Paths \cup {<<>>}, rest : Seq(Part), parent : Category \cup {Top},
   folder : Seq(Nat), file : Nat, found : SUBSET Category]

FolderImportTypeOK ==
  /\ categories \subseteq Category /\ IsFiniteSet(categories)
  /\ importers \in [Importer -> ImportRecord] /\ finished \in BOOLEAN

\* The folder that an import is in is the one at the parts of the path it has walked.
OnPath(r, cs) ==
  \/ r.rest = r.path /\ r.parent = Top
  \/ /\ Len(r.path) = 2 /\ r.rest = Tail(r.path)
     /\ r.parent \in cs /\ r.parent.parent = 0 /\ r.parent.name = r.path[1]
  \/ r.rest = <<>> /\ r.parent \in cs /\ FiledAt(r.parent, r.path, cs)

\* An import knows the folders it found and those it created, and creates one only where
\* it knows none.
ImportKnows(i) ==
  /\ Me(i).map \subseteq categories /\ Me(i).found \subseteq categories
  /\ Me(i).at # "over" => /\ Me(i).found \subseteq Me(i).map
                          /\ \A c \in categories : c.by = i => c \in Me(i).map
  /\ Me(i).at \in {"walk", "create", "add"} => Me(i).path \in Paths /\ OnPath(Me(i), categories)
  /\ Me(i).at = "create" => Me(i).rest # <<>> /\ InMap(i) = {}
  /\ Me(i).at = "add" => Me(i).rest = <<>>

\* FilesAreFiled with what makes it inductive
FolderImportInv == FolderImportTypeOK /\ FilesAreFiled /\ \A i \in Importer : ImportKnows(i)

=============================================================================
