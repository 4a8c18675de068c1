# Verification of PK DTS

TLA+ models of the PK Document Tracking System (`pk-dts-backend`, a NestJS API
over Prisma, MySQL in development and PostgreSQL in production, and
`pk-dts-frontend`, its Angular client), their TLC model-checking runs, and
proofs that the TLAPS proof system checks. Paths below are relative to
`src/pk-dts-backend/src/api/v1/` unless they say otherwise; D is
`documents/documents.service.ts`.

Contents: 1 the system · 2 the modules · 3 the runs · 4 fairness ·
5 disagreements between the code and what it says · 6 the proofs ·
7 what is left out · 8 what is next.

## 1. The system

The server keeps no state of its own between requests except a response cache,
builds of stamped copies in flight, timers of the automatic backup and the files
on disk; everything else is rows. A request handler reads rows, checks them, and
writes rows, files or both. Handlers of several users run at once, on one Node.js
process per deployment but interleaved at every `await`; transactions run under
the database's default isolation, which in production is READ COMMITTED. So a
check made on rows read earlier holds at the write only if the write repeats it.
That is the central difficulty of this code, and the reason why almost every
handler is modelled as two steps or more. The client adds answers that arrive in
any order and a cache of its own.

| Component | State it keeps | Operations | What makes it correct |
|---|---|---|---|
| Approval workflow (D: `transition` 2621, `initializeWorkflowSteps` 1700, `reassignWorkflowStep` 2398, `update` 3144, attachments 4343-4430 and 4850) | `documents.status`, `workflow_current_node_key`, the step rows, the attachments, the status history, files | submit, approve, reject, request-revision, cancel, complete, reassign, edit, select a version, add and remove attachments | one pending step, no approval skipped, no decision by the creator, a true history, no live attachment without its file, reviews that can end |
| Lifecycle (D: 3431-3653, `createRevision` 3675, `finalizeRevision` 3912) | revisions, `current_revision_id`, `status_before_disposal`, disposal requests | upload, correct, finalize, dispose, request and review disposal, restore | a completed softcopy has a finalized copy; one current revision; a disposal can be undone exactly |
| Revision files, numbers, stamps (D 4060-4243, 4656-4990), retention (D 5230-5310) | file paths, revision numbers, stamped copies and the row that names the last | organize, number, stamp; count down | rows point to files, numbers stay free, a download carries the stamp of what was read |
| Imports (D 284 and 476) | maps of the catalog, held for one import | import rows, import folders | a row that failed has its reason, files have documents, folders follow the directory |
| Hardcopy transfers (`hardcopy-transfers`) | transfer rows and history, `hardcopy_documents.location_id` | create, submit, resubmit, cancel, approve, return, reject, for-transfer, dispatch, await acceptance, accept | the copy moves only by a transfer that was approved, dispatched and accepted by the right people |
| Access requests (`document-access-requests`), assignments (D 4245, 4573) | request rows and history, `document_assignments`, approver configuration | create, cancel, review, grant, revoke, expire; set assignments | nobody sees a document unassigned; a request is decided once and by its approver |
| Workflow definitions (`workflow-definitions`) | definitions, versions, graphs | create, edit and publish versions | one published version, an issued graph changes only by an update that read it as a draft, every path of a graph ends |
| Accounts (`registrations`, `users`, `role-permissions`) | registrations, users, links of roles and permissions | register, review, create, change, delete; link | no two accounts for a name, an administrator left, what was chosen is what is saved |
| Softcopy folders (`softcopy-categories`) | a tree of folders with stored paths | create, rename, move, delete | no cycle, paths that agree with the tree |
| Storage catalog (`areas`, `specifics`, `asset-numbers`, `locations`) | places and the routes between them, the location code counter | create, move, remove | hardcopies and their routes agree; the next code is free |
| Backup and restore (`backup-restore`) | timers, packages, the log | back up, retry, expire, delete, restore, reset | restored rows have their files; one backup is due; expired ones go |
| Response cache (`src/pk-dts-backend/src/common/cache`) | cached answers and users | read, reset on a mutation | no answer older than the cache's lives allow |
| Client (`src/pk-dts-frontend/src/app`) | the cache of a tab, the list and its service's cache, dialogs | load, save, answers in any order | nothing older replaces something newer, and a dialog sends what it was filled with, but for the schedules named in section 2 |

How they interact. The workflow reads workflow definitions once, when a request
is created or its version is selected, and works on the plan made of them
(`workflowGraphToPlan`, D 1966). The lifecycle and the workflow share the
documents row: `transition` guards its write with the status and node it read,
the lifecycle's handlers write without a condition. Transfers and access
requests start only from a finalized document and otherwise never look at it
again; assignments made by access requests are the ones administrators replace.
The catalog's services rewrite the route of every hardcopy they touch. An area
removed takes the destination of transfers with it (`onDelete: SetNull`). The
folder import and the folder service write the same tree. A restore replaces the
rows of all of them. All append to history tables of their own.

`PROJECT.json` lists each behaviour that is hard to test at its line, with the
properties that watch it.

## 2. The modules

| Module | Models |
|---|---|
| `DocumentWorkflow` | the approval workflow of one request, with attachments |
| `ApprovalProtocol` | what that workflow promises, every operation atomic; refined by `DocumentWorkflow` |
| `DocumentLifecycle` | revisions and disposal, composed with the workflow over one documents row (extends `DocumentWorkflow`) |
| `HardcopyTransfer`, `HardcopyCustody` | the transfers of one hardcopy, and what they promise about the physical copy |
| `AccessRequests` | who may see one document |
| `WorkflowGraphs` | `validateGraph` and the plan of a graph: what `GraphAssumption` of `DocumentWorkflow` assumes |
| `WorkflowDefinitions` | versions of a workflow under overlapping editors |
| `Accounts`, `RolePermissions` | registrations, users, the last administrator; the links of a role, client and server |
| `SoftcopyFolders` | the tree and its stored paths under overlapping moves |
| `StorageRoutes`, `LocationCodes` | the route of a hardcopy under edits of the catalog; codes and their bootstrap |
| `RevisionNumbers`, `RevisionStorage`, `RevisionArtifacts` | the numbers of revisions, the places of their files, their stamped copies |
| `Retention` | the calendar arithmetic of retention periods |
| `BatchImport`, `FolderImport` | the import of hardcopies from a workbook, of softcopies from a directory |
| `ServerCache`, `BrowserCache` | the server's cache in time; one URL through the tab's cache and the server's |
| `DocumentsPage`, `PageDialogs` | the list of documents behind three caches (extends `BrowserCache`); two dialogs under answers in any order |
| `BackupAutomation`, `BackupRestore` | the timers and the deletion of expired backups; rows and files through backup, restore and reset |
| `MCDocumentWorkflow`, `MCDocumentLifecycle` | small instances of the two |
| `MCServices`, `MCPortal`, `MCLifecycle`, `MCLifecycleOverlap`, `MCConfiguration` | small instances of several modules that share no state |
| `MCReset` | the instance of the one run about resets |
| `DocumentWorkflowProofs`, `DocumentLifecycleProofs` | theorems about the workflow, its attachments and its refinement; about the lifecycle |
| `DocumentFilesProofs` | theorems about revision numbers, places and copies of files, storage routes, location codes and retention periods |
| `HardcopyTransferProofs`, `AccessRequestsProofs` | theorems about transfers and both imports; about access requests |
| `WorkflowDefinitionsProofs`, `OperationsProofs`, `BrowserProofs` | theorems about graphs, versions and folders; accounts, roles, backups and restores; the caches and pages |

No module uses a RECURSIVE operator, so that each can be proved about.

Conventions. A handler is `Begin...` (reads, checks, keeps what it read in its
slot) and `Commit...` (writes), with a step more wherever the code awaits between
two writes. A handler whose check fails is not modelled as a step, since it
changes nothing. Where the code repeats a check in the `where` of its update, the
commit has it as a condition (`Unmoved`, `StillPending`), and one that loses
becomes a refusal. The number of slots (`Req`, `Slot`, `Editor`, `Clerk`, `Mover`,
...) is how many handlers run at once. A variable that only notes what happened
(`crossed`, `paired`, `outrun`, `rushed`, `collided`, `overlap`, `cut`, `outdated`, `staleHit`, `doubled`, `strayed`, `drifted`, `failed`, `mixed`) says in
its declaration which overlap or crash sets it; a property that excepts it states
exactly which schedule the code does not withstand. Operators named `X_Something`
beside an operator `X` are wrong variants of it; no specification uses them, they
say which mistake a property would catch.

**DocumentWorkflow.** `doc` is the documents row: status, current node,
selected version, the data the workflow depends on (softcopy or hardcopy,
creation or cancellation), and whether a controlled copy exists. `steps` are
the step rows by node key; `stepPlan` is the version they were made from. The
position in the order of decisions (`at`) stands for `acted_at`. `audit` is the
newest history row. `atts` and `files` are the attachments and their files. The
first submission is special in the code and in the model: it inserts the steps
and stores the node key before the conditional update compares that key with
the one read (`FirstSubmit`). `Graph` is any map from outcomes and nodes to
nodes; it assumes what `workflowGraphToPlan` yields: targets are nodes of the
plan, and no node leads to itself. `AcyclicAssumption` says that no set of nodes keeps
leading into itself, which `validateWorkflowGraph` makes sure of (all three are proved
of plans in `WorkflowDefinitionsProofs`); only the theorems about the walk need it. `Resolved` is whom an assignment
resolves to, `Qualified` who holds the step's permission.

**DocumentLifecycle.** Adds the revisions, `current_revision_id`,
`status_before_disposal`, the disposal requests and the handlers in flight
(`job`). A slot runs one handler at a time, of either module. `createRevision`
is three steps when it corrects a finalized document, because the code commits
three times.

**HardcopyTransfer.** `transfers` are the rows, `log` their history as a set of
(operation, user), `place` the location of the copy, `routed` the places whose
route has an area. No handler here guards its write, so a late one overwrites
the status. `accept` writes the destination it read; if its area is gone by then,
the write is a foreign key error and rolls back. An edit of the document also
writes the location; its check is early and its write late.

**AccessRequests.** `assigned` maps a user to `assigned_by` of the assignment.
Requests keep the approver they were created with. Review and cancel are
conditional updates, grant, revoke and expire are not.

**WorkflowGraphs.** The graph is drawn one connection at a time, every drawing
saved only if `Valid`: reachable values are the graphs `validateGraph` lets pass.
A condition is the set of kinds of requests that meet it. `Reachable`, `Acyclic`
and the plan (`PlanNodes`, `Target`) are set definitions of the code's traversals.

**WorkflowDefinitions.** Publication is two statements of one transaction under
READ COMMITTED: the first archives the versions it sees published, the second
publishes; two that overlap may both stay (`collided`).

**Accounts, RolePermissions.** Each check and write apart, unique usernames and
the Restrict key of a document's creator as the only constraints. For a role the
page's loads, the dialog's choice, the difference sent as one request each, and
`forkJoin`, which drops the others once one fails while the server serves them.

**SoftcopyFolders.** A path is a sequence of (name, suffix). A move computes the
paths of its subtree on the rows it read and writes them in one transaction.
`outdated` notes writes computed on rows another write has changed since.

**StorageRoutes, LocationCodes.** The hardcopy row (`copy`) repeats the route of its
location. Six handlers write it: the saving of the document form, the import of a row,
the acceptance of a transfer, and the cascades of `specifics`, `asset-numbers` and
`locations`. Each is two steps, `Begin...` with what it reads of the catalog and the
step that writes it, and `begun` holds those in between (a transfer from its request to
its acceptance); removals are one statement, with their foreign keys. The form keeps its
own selections. `strayed` notes that, since the row was last written from what the
catalog said, a handler wrote or skipped the row by what no longer held, or wrote
a selection that the catalog contradicted; the next write that reads and writes the same
catalog heals it. Codes: A to Z, AA and so on (`Code`, over `Letters` letters), the
counter, and `bootstrapLocationCodes` row by row with crashes in between.

**RevisionNumbers, RevisionStorage, RevisionArtifacts, Retention.** The number
given is one more than what the latest row's text parses to. The file of an upload is
stored before its handler runs, so a refusal leaves it (`orphans`): where uploads arrive
if the number was found in use, in the category's folder if the row was refused. (The
refusals of `createRevision` that do not depend on the number leave it as well, for every
number; they are left out.) Storage: look for the file, rename, update, by updates and
by the server's start. The folder also changes with no run, by an upload that
sets the category or a folder that is renamed (`Refile`), and the row's update may fail
(`failed`; at the start that ends the process, `Crash`). `drifted` notes a folder set
while a run was under way, or changed while the row was behind. The third candidate of
`organizeRevisionStorage`, the directory that uploads arrive in, is left out: no file of
a row is there. Artifacts: fingerprint, builds in flight, temporary file, rename,
row, and a file removed from outside (`LoseFile`). Retention: `Date` is a number of days
on a real calendar with 29 February, and adding months runs over like `setUTCMonth`.

**BatchImport, FolderImport.** Maps filled once and kept in memory, entries put
into them inside transactions that may roll back, several imports at once.

**ServerCache, BrowserCache, DocumentsPage, PageDialogs.** Values are numbers of
committed changes; requests are served and answered in any order. `ServerCache` is the
server's cache with a clock and lives of entries (`TTL`, and `Longest` for a request).
`BrowserCache` is one URL as a browser tab meets it, through `requestCacheInterceptor` and
that cache: a GET may find an entry (`ServerHit`), or its handler reads and the
answer is stored later (`ServerRead`, `StoreEntry`), after a reset too; a mutation commits,
resets the cache, which may fail, and is answered. A mutation that fails clears nothing
in the tab: what it committed is a change like those of others. `paired` notes two
mutations of the tab under way at once, `outrun` a reset that failed or came before
an older answer was stored. `DocumentsPage` adds the service's `listCache`, which shares
a request among loads, and `loadData` with its `requestId`. A load takes the service's
request, else what the tab keeps or has in flight, else a new request. `uploadAttachments`
and `requestDocumentDisposal` do not clear `listCache` (`AnswerKept`), so that the load
after them may show the list from before; the page's own changes (`mine`) are the
others. `staleHit` notes an answer of the server from an outdated entry, `doubled` a
request sent while one of the same generation was in flight, which happens because the
end of any GET forgets whichever request is there. `PageDialogs`: the button for a
batch asks only for a file and rows, so it also sends a workbook that is still being
read while the rows of an earlier choice are shown, and one that was chosen while
another was read (`mixed`). A revision carries the document it was made for.

**BackupAutomation, BackupRestore.** Which timers are set, which run is under way,
and retention cycles that list, look twice, and delete; a process that ends while it
writes leaves a torn package. `BackupRestore` keeps rows and files apart: tables
read one after another, files packed last, the restore's transaction, then file
by file. A document keeps its file there: what `organizeRevisionStorage` moves during a
backup is outside of it.

**ApprovalProtocol and HardcopyCustody** are the abstract specifications: a
review walks the graph one recorded decision at a time; a copy moves by
transfers granted and sent before, or by edits begun while the document was
open. The refinement mappings are the substitutions of `Protocol` and `Custody`.

**The instances of several modules.** Modules that share no state are checked by
one run: `live` names the one that moves, chosen at the start, and the others
stay as they began. A behaviour of the run is a behaviour of one module, so each
property is checked exactly as in a run of its own; a set of model values serves
several modules.

## 3. The runs

Passing runs (distinct states; times with two workers):

| Run | Instance | Shows | States |
|---|---|---|---|
| `MCInterleaved` | 3 handlers, 3 approval nodes with a return that leads on (n1 to n2) and a rejection confirmed at n3, two steps of one stage, softcopies and hardcopies | every overlap of submit, decisions, reassignment, edits, cancel, complete and revise keeps one pending step, the creator out of the decisions (`WorkflowInv`), no skipped approval (`FinalApproval`), the decisions a walk of the graph (`DecisionTrail`), a true history, and refines `ApprovalProtocol` | 2.1 million, 80 s |
| `MCLifecycle` | 1 handler that may crash, 3 revisions, 2 disposal requests; and around it 2 usernames, 2 registrations and 2 clerks, 3 folders and 2 movers, 3 workflow versions and 2 editors, 3 revision numbers and 2 uploaders, retention over 3 years with a leap year, 2 requests of the server's cache | one current copy; disposal, its requests and the remembered status agree (`DisposalSound`); an administrator left; registrations settled; a sound tree; publications that last; numbers refused and files left only for a reason; the countdown; answers in time | 1.8 million, 80 s |
| `MCLifecycleOverlap` | 2 handlers that may crash, 2 revisions, 1 disposal request; and the list and the caches with 2 GETs, 2 mutations, 3 changes, 3 loads | whatever the unguarded writes do, a completed softcopy has a finalized copy and a review has one active step; no stale answer, own changes shown, the list never older, but for the reasons named | 4.2 million, 95 s |
| `MCSequential` | 1 handler that may crash, every operation, cancellations, version edits, 1 attachment | an attachment is settled with its request | 13 000, 1 s |
| `MCServices` | transfers (2 handlers, 1 transfer, 2 places), 3 downloads with 4 changes and a crash, 2 imports of rows, two dialogs, backup and restore with 2 workers and 2 files, 2 permissions of a role | no status without the operations it stands for, custody as `HardcopyCustody` says, the stamp of what was read, every failed or doubled import explained, revisions that go where they were meant and batches that are the ones shown, rows with their files, roles saved as chosen | 1.8 million, 75 s |
| `MCPortal` | access (2 handlers, 2 requests), catalog (2 areas, 2 specifics, an asset number, a location, 2 handlers or transfers under way), files in 3 folders with 2 organizers and 2 crashes, 2 folder imports, 7 locations | access only as granted and refusals that stand; the copy in the area of its specific; rows that find their file; imports filed by path; codes free | 1.9 million, 150 s |
| `MCConfiguration` | 2 handlers, 2 attachments; graphs on 3 approval nodes, 2 kinds of requests; 2 backups, 2 cycles, 1 restart; fairness | files of live attachments, rejected files removed, reviews end; plans closed, finite and whole; timers in order, expired backups deleted | 190 000, 80 s |

Why the bounds are enough. Two handlers are what every race of this code needs:
one that has read and one that writes in between. `MCInterleaved` has three so
that two decisions can race while a reassignment is in flight as well. Three nodes
give a first, a middle and a last step; three revisions a current one, a
historical one and an upload; three folders a tree of depth three or a cycle of a
move under a move; three downloads one that builds, one that joins and one that
reads after a change; two GETs a list that is shown and the one a change asks for
(one that fails may be sent again); seven locations take codes of two letters from A over AA to
AAA. One transfer suffices because transfers share
only the place of the copy; two access requests are needed, since two of one user
share an assignment. The routes are bounded further (`RoutesBounded` in
`MCPortal`): two handlers overlap only if one edits the catalog, no form is open and
a specific is spare, and a form is open only beside one edit; every pair of a writer of
the row and an edit in between is there, and `CopiesFollowCatalog` has no such bound.
The exception `doubled` of
`ListNeverOlder` is needed only with four loads or more, beyond this bound; the
theorem is about any number. The dates of retention periods are the ends of months around
February in a common and in a leap year. The theorems of section 6
lift the safety results to every size. `Reselectable = {}` in
`MCInterleaved` because a version edit that is written late clears the node (see
section 5) and `DecisionTrail` then speaks of another graph; `OneActiveStep`
allows for it, and is proved with version edits.

`CHECK_DEADLOCK FALSE` in the runs whose systems rightly stop: a rejected or
cancelled request, a finished transfer, bounds that are used up. Symmetry is
declared for slots and interchangeable rows, never where liveness is checked.

Each passing property has a mutant in `PROJECT.json`: a definition of the model
replaced by a plausible mistake that TLC must find.

## 4. Fairness

Only `MCConfiguration` checks liveness; each condition is on the actions of one
module and guarded by that module being the one that moves.

`ServerFairness` is weak fairness of the second halves of handlers: a request the
server has started runs to its end, because the event loop serves every pending
promise; nobody but the handler itself can disable it. It does not say that the
process never dies: `Crashes` is FALSE in that run, and a crash does leave files of
rejected attachments behind (hazard at D 2964). `UserFairness` is strong fairness
of an approver *beginning* an approval: approvers who can decide again and again
do, sooner or later. Strong, because other handlers may keep taking the slots. No
fairness is assumed of submitters, nor that a decision wins its conditional update.

`AutomationFairness` is weak fairness of timers that are set (Node fires them), of
the steps of a retention cycle, and of a backup's *failing*: a backup ends, but
may fail every time. `ExpiredIsDeleted` holds even so, unless the process is stopped
for good or a torn package is there: that one fails every cycle.

## 5. Disagreements between the code and what it says

Shown by a run each, with the quoted line in `PROJECT.json`:

- `MCNoVersionEdit`: a draft whose version was edited, or a directly created
  softcopy sent for revision, can never be submitted. `initializeWorkflowSteps`
  stores the first node before `transition` compares the node with the one it
  read, null; it is refused with "Request status changed", which nobody did.
- `MCStaleDecision`: the decision of a former assignee is recorded on a step
  that was reassigned between the check and the write.
- `MCLateEdit`: controlled data changes after the submission.
- `MCRestore`: restoring a draft, or a request under review, makes it approved.
- `MCReset`: a reset of all data is refused by the database whenever there is a
  workflow definition, and the seed creates one.

Met while modelling, not shown by a run, because no text of the repository
promises otherwise:

- Workflow. A version edit written after the submission leaves the request with
  the node cleared and a version other than that of its steps. A pending step may
  be reassigned to the creator, whom `transition` refuses: until it is reassigned
  again nobody can decide it. A reassignment that hits a step decided meanwhile
  makes another user the final approver who may complete the request. An upload
  that was checked before the Plant Manager's approval stays pending after it.
- Lifecycle. Two overlapping finalizations leave two current revisions; a late
  one completes a request that is being revised. Two disposal requests may both
  be pending. A late disposal disposes a request under revision.
- Transfers. Stale decisions overwrite each other (a cancelled transfer may
  become approved). The approver may be the requester. If the destination has no
  area when the transfer is created, or loses it later, the acceptance completes
  the transfer without moving the copy (`hardcopy-transfers.service.ts` 195-206).
  An edit read before the final approval may move the copy after it, even under a
  transfer.
- Access. Expiring a request leaves the assignment, while the client says
  "Access expired". Two requests of a user may be pending; revoking one takes the
  access of the other, and an assignment an administrator made. A grant in
  flight reopens a revoked or expired request. The approver may be the requester.
- Locations. The retry of a location code (`locations.service.ts` 51-104) repeats
  the code that was refused, because the counter's increment rolled back. A location
  created between an import and the next start makes the code bootstrap fail, and the
  server with it, at every start (`CodesFollowRows` says when).
- Storage. A hardcopy is not always on the route of its location: a form saved
  after the catalog changed keeps what it had selected, and an import does not look at
  what its location is on. Under READ COMMITTED a cascade that read a specific's area
  before it was moved writes the old one later (`locations.service.ts` 116-139), and a
  transfer accepted after such a move does (`hardcopy-transfers.service.ts` 195-205).
- Files. Two category updates that overlap, or a folder renamed while a row is behind,
  may leave the row naming a folder where the file is not. A folder import stopped
  half-way leaves its file, and so does every refused upload of a revision (D 3792-3803).
  Removing an attachment leaves its file: `removeAttachment` (D 4424-4427) unlinks a path
  cut to what follows `/uploads/revisions/`, or to the name, and drops the error (`Detach`).
- Imports. An area that a failed row created stays in the map, and later rows of
  the import fail on it; overlapping imports double areas and root folders.
- Backup. A package cut off makes every retention cycle and the list of backups
  fail, and cannot be deleted through the API. A backup taken while documents are
  added may hold rows of some tables and not of others.
- Client. After a partial failure of saving permissions nothing is loaded again,
  and saving again fails until the page is reopened; a list that arrives resets an
  open dialog. When two mutations overlap, the browser cache may keep an answer from
  before one of them, which its comment excludes; so may it after a single mutation when
  the server's cache was filled late by a read from before it, or its reset failed
  (`NoStaleAnswer` says when). The documents page then lacks its own change until it loads
  again. A batch can be uploaded while its workbook is still being read and the rows of
  another are shown. After the 28th
  of a month the retention countdown may stall or rise. An update that names only a
  retention date disables the retention.

## 6. The proofs

For any number of users, nodes, versions, attachments, transfers, places,
requests and handlers in flight, and any set `Offered` of operations. The
assumptions are the ASSUMEs of the modules, each evaluated by TLC on the
instances.

| Theorem | Module | Says |
|---|---|---|
| `WorkflowSafe` | `DocumentWorkflowProofs` | `Spec => []WorkflowInv` |
| `OnePendingStep` | | a request under approval has exactly one pending step, of the stage its status names |
| `CreatorDecidesNothing` | | no step is decided by the creator |
| `HistoryIsTrue` | | every change of status is recorded with the status it really replaced |
| `ApprovedAtTheEnd` | | what is approved was approved last, at a step from which the graph leads nowhere (`FinalApproval`) |
| `DecisionsAreAWalk` | | the decisions are a walk through the graph, if `SelectedAlone` (`DecisionTrail`) |
| `ProtocolImplemented` | | `DocumentWorkflow` refines `ApprovalProtocol`, if `SelectedAlone` |
| `FilesSafe`, `LiveFilesKept` | | the file of a pending or approved attachment is on disk |
| `AttachmentsAreSettled` | | attachments share the fate of the request, if `OneAtATime` |
| `LifecycleSafe`, `OnePendingStepStill` | `DocumentLifecycleProofs` | `LifecycleSpec => []LifecycleInv`, which holds `WorkflowInv`; one active step with revisions and disposals around it |
| `CompletedCopiesExist` | | a completed softcopy has a finalized copy, if `TypeFixed` |
| `CurrentRevisionIsOne`, `DisposalIsSound` | | one current revision; status, memory and requests of a disposal agree, if `OneAtATime` |
| `RefusalsAreExplained` | `DocumentFilesProofs` | a revision number is taken, or a file stays without a row, only for the reasons named |
| `RowsNameTheirFiles` | | the row names its file's folder, is about to, or failed to and the next run finds the file, unless `drifted` |
| `CopiesBearTheirStamp` | | downloads hand out whole copies with the stamp of what they read |
| `CopiesFollowCatalog` | | the hardcopy is in the area of its specific, unless `strayed` |
| `CodesAreThoseOfRows` | | the next location code is free, for an alphabet of any size |
| `CountdownIsTrue` | | what remains of a retention period falls day by day, over any number of years |
| `TransfersSafe` | `HardcopyTransferProofs` | `Spec => []TransferInv` |
| `MovesOnlyToRecipient` | | the copy moves only by an edit or by the recipient of an approved, dispatched transfer |
| `CustodyImplemented` | | `HardcopyTransfer` refines `HardcopyCustody` |
| `FailedRowsAreExplained`, `ImportedFilesAreFiled` | | what an import of hardcopies fails or doubles has a reason; an imported softcopy is filed at its path |
| `AccessSafe`, `AccessIsGranted` | `AccessRequestsProofs` | nobody is assigned but the creator, by an administrator, or after an approval |
| `RefusalsStand` | | a cancelled, rejected or returned request never changes again |
| `PlansAreSound` | `WorkflowDefinitionsProofs` | the plan of a valid graph is closed, comes back to no node, and ends only where the graph does |
| `OneVersionPublished`, `PublicationsAreLasting` | | two published versions only after overlapping publications; always one; issued graphs do not change |
| `FoldersAreATree` | | the softcopy folders are a tree and their paths follow it, but for writes computed on rows that had changed |
| `AnAdministratorIsLeft`, `RegistrationsAreSettled` | `OperationsProofs` | none is left only after overlapping removals or a demotion; a registration opens one account if approved |
| `RoleHoldsWhatWasSaved` | | a role holds what was chosen once the page says so |
| `TimersAreInOrder` | | one thing brings the next backup; deletions are logged once |
| `RowsAndFilesAreKept` | | rows have their files, and backups bring both back |
| `NewestListWins`, `OwnChangesAppear` | `BrowserProofs` | the list goes back, or lacks an own change, only for the reasons named, through three caches |
| `DialogsShowWhatIsSent`, `NothingStaleIsShown` | | what both dialogs send; what the tab's cache reuses, the server's cache behind it, for any number of requests |
| `CacheIsInTime` | | the server's cache is stale for a reason and never for long, for any lives of entries |

Six theorems have a hypothesis about the instance, stated in the theorem and defined
in the module. `OneAtATime` (one slot) is what the code keeps only when its handlers do
not overlap: `MCLifecycleOverlap` and section 5 show what is left when they do.
`SelectedAlone` (no version is selected, or one slot) excludes the late write of
`updateDraftWorkflow` that clears the node of a request already submitted.
`TypeFixed` (no edit changes the document type): an edit read while the request was a
draft can be written when it is completed, and a hardcopy so turned into a softcopy has
no controlled copy. The runs that check these properties are instances of the hypotheses.

The argument is the same in all. The property alone is not inductive, because a
step writes what another step read. The invariant therefore has a part about
every handler in flight (`HandlerOK`, `FilesOK`, `Held`, ...): what it read that
cannot have changed since, or that its conditional write checks again. Each
invariant stands in the module of its component, under the properties; those of the
client's modules stand in `BrowserProofs`.

- `WorkflowInv`: `OneActiveStep` survives a decision because the decision's steps
  come from the plan of the rows (`KnownStep`) and its target status is the stage
  of its next node; the conditional update brings back the status, and with it, by
  `OneActiveStep` itself, the pending step. `RowsExist` is needed for a first
  submission, which must find no rows.
- `ApprovalInv` adds that no decision has a position beyond the next one's
  (`Positions`), and what a decision in flight has checked (`Checked`): it leads where
  the plan of the step rows does and ends the request only where that plan does. Its
  own position is then the highest.
- `TrailInv` adds that a decision in flight is for the node that it read as current.
  A decision appends to the walk, which by `AcyclicAssumption` does not come back
  to a decided node: the set of decided nodes that a way back would close is a set
  the assumption excludes. The refinement has a lemma for each kind of step (`Decided`,
  `Moved`, `Resubmitted`, ...), and maps what is read in between to stutters.
- `FileInv`: an upload owns its file alone until its row exists, and a file about
  to be unlinked belongs to a row out of use. `SettledInv`: what a handler alone
  has read is still so (`ReadHolds`).
- `LifecycleInv`: a handler of the lifecycle takes a request to or from a disposal or
  a revision only from a finalized status (`JobOK`), where no step is pending, and an
  upload owns its unborn row alone (`OwnRevision`). `CopyInv`: who is about
  to complete a softcopy, or to give a completed one back, has seen its copy, and
  finalized copies stay (`CopyKnown`). `AloneInv`: what a job has read still holds,
  crashes between commits included (`JobCurrent`).
- `TransferInv`: nothing guards the writes, so the invariant says instead that
  the history, which only grows, already holds what a status in flight needs.
- `AccessInv`: a row that is not pending has at most one decision on record. A
  grant in flight can only be on an approved row, and no later status of that row
  is a refusal; that is why refusals stand although grants are not guarded.
- `PlansAreSound`: a graph passes if no set of nodes is such that each has a
  connection into the set (`Acyclic`); links of the plan are connections, so a way
  along them that came back would be such a set.
- `DefinitionsInv` (versions): a handler in flight holds a version it read as a
  draft (`Held`), and a publication between its two statements has seen all that is
  published unless it collided with another (`Single`).
- `FoldersInv`: a move goes to a folder outside of the subtree it read (`MovesOut`),
  and what it is about to write follows its parent's path (`WritesFollow`), unless a
  row it read has changed. That a free suffix exists is a pigeonhole
  argument; a new cycle would hold the moved folder, hence its whole subtree, hence
  the target of the move.
- `AccountsInv`: two removals in flight are noted (`rushed`), so one that is alone
  leaves an administrator when it writes, as when it counted (`RemovalsOK`). `OneDue` and `StoreInv` (timers, the
  log) relate the timer set to the run, and deletions to the store. `LinksInv`: while
  nobody else writes, what the page still asks for is what still differs from its choice.
- `RestoreInv`: while no restore was cut short and none crossed another handler, what
  replaces rows or files is alone, and rows, files and packages fit at each step
  (`Undisturbed`).
- `FolderImportInv`, `ImportInv`: an import knows what it found and created
  (`ImportKnows`, `MapsKnow`), an entry without a row is what a failed row left
  (`MapsExplained`), and the folder it walks in is that of the walked part of the path
  (`OnPath`).
- `NumbersInv`: the numbers rise, or one did not (`RisingOrNot`), and the number of a
  file that was moved is not among the rows that were looked at (`NotSeen`). `StorageInv`:
  while nothing drifted one run at a time has read what still holds, and a row that is
  behind has its file where the category says (`OneRun`). `RoutesInv`: what each kind of
  handler has read (`HandlerOf`), and that an imported row's specific was found in its area
  (`RowsFound`); whoever writes what would still be read writes a route that agrees
  with the catalog (lemmas `ResolvedAgrees`, `DestinationAgrees`). `ArtifactsInv`: the file at the path of
  a fingerprint bears its stamp (`FilesBearStamp`), whoever wrote it last.
- `CodesInv`: a code is that of a number up to the counter. That two numbers have
  different codes needs `Number(Code[n]) = n`, so the proof first establishes that the
  recursive functions of both exist (lemma `Recursion`: from approximations on every initial
  segment, by the least number without one) and then argues by the least
  counterexample.
- `BrowserInv`: once its reset has come the server holds nothing from before a mutation
  (`ServerFresh`), so a GET of the present generation that was answered shows every
  answered one (`Fresh`), while mutations do not overlap and no reset is outrun. `PageInv`:
  one GET at most may still decide what is shown, and its answer is no older than the list
  (`OneTip`); whatever may decide it shows the page's own changes (`AllCovered`).
  `DialogsInv`: an open dialog holds what its target needs, and a reader that works alone
  reads the file chosen (`OneReader`). `CacheInv`: an entry
  ends a life and a request's time after the change that outdated it, an answer built
  on the user's entry twice that (`InTime`).

- `PeriodInv` says little: today and the end are in the calendar. The work of
  `CountdownIsTrue` is arithmetic. A day is in exactly one month (by the least number of
  the months that start after it), whose length is 28 to 31 by the table. Of two days the
  walk of the later takes the same steps and ends later, or it takes fewer and has
  stopped (`Behind`, by the least step where that fails), for the years and then for the
  months. Past the 28th `AddMonths` runs over into the next month, so the claim stops there.

Each proof has a lemma per handler, and the temporal steps combine them with PTL.

Only model-checked: liveness (`ReviewEnds`, `RejectedFilesRemoved`,
`ExpiredIsDeleted`), since fairness is beyond this prover. What the five
violated properties of section 5 say is not so, and has no proof.

## 7. What is left out

- Workflow: steps without a workflow version (an older kind of plan), graph nodes
  of the stages DRAFT and COMPLETED, a plan that depends on data edited later,
  an edit that changes data and version at once (it is two edits here), who may
  edit or cancel beyond the creator, `setApproverConfiguration` other than the
  approver of access requests, `remove` (a staff member's draft submitted meanwhile
  is deleted with its steps, D 3655), remarks, dates.
- Transfers and access requests: role permissions, comments, inactive locations,
  the split of a place into its parts, dates.
- Accounts: names, passwords, changes of a profile; roles and permissions
  themselves, which are single-row writes. Folders: descriptions, owners.
- Catalog: sequences and renamings, guarded by unique keys. Imports: the parsing of
  the workbook. Backup: the catalog, users and hardcopies inside a snapshot,
  packages uploaded from elsewhere, the reset of hardcopies alone.
- Bounds of the models: the slots, rows, files and versions there are (rows are
  not reused), and `MaxChanges`, `MaxFaults`, `MaxRows`, `MaxBroken`, `MaxRestores`,
  `MaxCrashes`, `MaxFiles`, `MaxFailures`, `MaxSuffix`, `MaxTime`, `MaxLoads`,
  `MaxVersions`, `MaxLocations`, `MaxEdges`, `MaxBoots`, `MaxLinks`, `Years`,
  `MaxRevisions`: each is a constant of its module. `MaxDepth` is no bound of the
  model but the length of the path column.
- Not modelled. The customer and product services of the client hold constant rows
  that came with its page template and are no part of the system; with the
  templates, the register form and the tables they are most of the repository's
  lines, so the modules can stand only for the smaller part of it where state is
  kept. Search and the assistant are read-only (the client drops none of their late
  answers, `runAssistantSearch` and `openDetailDialogById`). Sessions are a signed
  token (`refreshProfile` of the client may outlive a logout). The audit log is
  written detached and read by people. Settings, notifications and the dashboard are
  single rows and counts. Migrations, and the drawing of stamps, are not state.

## 8. What is next

`remove` in `DocumentWorkflow`, whose check is early and whose delete is late; the
catalog and users inside `BackupRestore`; steps without a workflow version.
