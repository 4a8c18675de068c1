--------------------------- MODULE RolePermissions ---------------------------
(***************************************************************************)
(* The permissions of one role as an administrator edits them: the         *)
(* RolesPermissionsPage loads the roles and the links, lets him choose in  *)
(* a dialog and sends one request for every difference between what it     *)
(* loaded and what was chosen; RolePermissionsService serves them one by   *)
(* one.  The lists are read by separate requests; the first request that   *)
(* fails cancels the others, of which the server may serve some anyway.    *)
(* A list that arrives resets an open dialog to what it says, so what is   *)
(* chosen when it is saved is any set.  The roles are fixed, and Internal  *)
(* Audit, which is refused every change, is left out.                      *)
(***************************************************************************)
EXTENDS Naturals

CONSTANTS
  Permission,
  MaxLinks     \* bound: rows ever created in role_permissions

VARIABLES
  links,  \* role_permission_id of each permission of the role, 0 when not granted
  issued, \* the last role_permission_id
  page,   \* what the page holds; want is what was chosen when it was saved
  loose   \* cancelled requests the server may still serve

lvars == <<links, issued, page, loose>>

Granted(l) == {p \in Permission : l[p] # 0}

NoLinks == [p \in Permission |-> 0]

\* roleAssignedPermissionsById: of both lists
Assigned(pg) == Granted(pg.list) \cup pg.role

-----------------------------------------------------------------------------
(* Loading *)

Loading(pg) == [pg EXCEPT !.wait = {"list", "role"}, !.list1 = NoLinks, !.role1 = {}]

OpenRoles ==
  /\ page.asks = {} /\ page.wait = {}
  /\ page' = Loading(page)
  /\ UNCHANGED <<links, issued, loose>>

\* loadData: shown when both answers are there
Shown(pg) ==
  IF pg.wait = {}
  THEN [pg EXCEPT !.list = pg.list1, !.role = pg.role1, !.list1 = NoLinks, !.role1 = {}]
  ELSE pg

ReadLinks ==
  /\ "list" \in page.wait
  /\ page' = Shown([page EXCEPT !.wait = @ \ {"list"}, !.list1 = links])
  /\ UNCHANGED <<links, issued, loose>>

ReadRoles ==
  /\ "role" \in page.wait
  /\ page' = Shown([page EXCEPT !.wait = @ \ {"role"}, !.role1 = Granted(links)])
  /\ UNCHANGED <<links, issued, loose>>

FailLoad ==
  /\ page.wait # {}
  /\ page' = [page EXCEPT !.wait = {}, !.list1 = NoLinks, !.role1 = {}]
  /\ UNCHANGED <<links, issued, loose>>

-----------------------------------------------------------------------------
(* Saving *)

Adds(pg, S) == {[op |-> "add", p |-> p, id |-> 0] : p \in S \ Assigned(pg)}

\* rolePermissionLinkId: only of permissions the list of links holds
Removes(pg, S) ==
  {[op |-> "remove", p |-> p, id |-> pg.list[p]] :
     p \in (Assigned(pg) \ S) \cap Granted(pg.list)}

Save(S) ==
  LET asks == Adds(page, S) \cup Removes(page, S) IN
  /\ page.asks = {} /\ asks # {}
  /\ page' = [page EXCEPT
       !.asks  = asks,
       !.want  = S,
       !.alone = page.list = links /\ page.role = Granted(links)]
  /\ UNCHANGED <<links, issued, loose>>

\* create: role_id and permission_id are unique together; remove: the row must be there
Serves(ask) == IF ask.op = "add" THEN links[ask.p] = 0 ELSE links[ask.p] = ask.id

ServeLink(ask) ==
  IF ask.op = "add"
  THEN /\ issued < MaxLinks /\ issued' = issued + 1
       /\ links' = [links EXCEPT ![ask.p] = issued + 1]
  ELSE /\ links' = [links EXCEPT ![ask.p] = 0] /\ UNCHANGED issued

\* No request is left: what was chosen is forgotten
Forgotten(pg) == [pg EXCEPT !.asks = {}, !.want = {}, !.alone = FALSE]

\* Mutant: the first answer counts as the success of all
LastAnswer_First(ask) == TRUE

LastAnswer(ask) == page.asks = {ask}

\* forkJoin: after the last answer the dialog closes and the lists are loaded again
Linked(ask) ==
  /\ ask \in page.asks /\ Serves(ask)
  /\ ServeLink(ask)
  /\ page' = IF LastAnswer(ask) THEN Loading(Forgotten(page))
             ELSE [page EXCEPT !.asks = @ \ {ask}]
  /\ UNCHANGED loose

\* The first failure: the other requests are cancelled, nothing is loaded
Denied(ask) ==
  /\ ask \in page.asks /\ ~Serves(ask)
  /\ page' = Forgotten(page)
  /\ loose' = loose \cup (page.asks \ {ask})
  /\ UNCHANGED <<links, issued>>

ServeLoose(ask) ==
  /\ ask \in loose /\ Serves(ask)
  /\ loose' = loose \ {ask}
  /\ ServeLink(ask)
  /\ page' = [page EXCEPT !.alone = FALSE]

\* It never reached the server, or was refused
DropLoose(ask) ==
  /\ ask \in loose /\ loose' = loose \ {ask}
  /\ UNCHANGED <<links, issued, page>>

\* Another administrator grants or removes a permission
Elsewhere(p) ==
  /\ ServeLink([op |-> IF links[p] = 0 THEN "add" ELSE "remove", p |-> p, id |-> links[p]])
  /\ page' = [page EXCEPT !.alone = FALSE]
  /\ UNCHANGED loose

-----------------------------------------------------------------------------

LinksInit ==
  /\ links = NoLinks /\ issued = 0 /\ loose = {}
  /\ page = [list |-> NoLinks, role |-> {}, list1 |-> NoLinks, role1 |-> {}, wait |-> {},
             asks |-> {}, want |-> {}, alone |-> FALSE]

LinksNext ==
  \/ OpenRoles \/ ReadLinks \/ ReadRoles \/ FailLoad
  \/ \E S \in SUBSET Permission : Save(S)
  \/ \E ask \in page.asks : Linked(ask) \/ Denied(ask)
  \/ \E ask \in loose : ServeLoose(ask) \/ DropLoose(ask)
  \/ \E p \in Permission : Elsewhere(p)

LinksSpec == LinksInit /\ [][LinksNext]_lvars

-----------------------------------------------------------------------------
(* Property *)

Succeeds == page.asks # {} /\ page'.asks = {} /\ links' # links

\* "Permissions updated": the role holds what was saved, if the page showed what the
\* server held when the administrator saved and nobody else wrote meanwhile.
SavedAsChosen == [][Succeeds /\ page.alone => Granted(links') = page.want]_lvars

=============================================================================
