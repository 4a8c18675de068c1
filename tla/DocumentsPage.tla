---------------------------- MODULE DocumentsPage ----------------------------
(***************************************************************************)
(* The list on the documents page.  The page loads it when it opens and    *)
(* again after each change of its own.  Its service keeps the request that *)
(* a load made, answered or not, and clears it after most changes of its   *)
(* own; a request goes through the tab's cache and the server's to the     *)
(* rows, which others change too.  Lists of one page (1000 rows) are       *)
(* meant, and loads are of the one URL.                                    *)
(***************************************************************************)
EXTENDS BrowserCache

CONSTANT
  MaxLoads     \* bound: loads of the list

ASSUME PageAssumption == MaxLoads \in Nat

VARIABLES
  listed,     \* listCache: the GET that loads share, or NotSent
  loads,      \* loads in flight: [id, of], of = the GET that will answer
  lastLoad,   \* dataLoadRequest
  shown,      \* the change that the list shows
  isLoading,
  loadFailed, \* whether the latest load failed: an error is shown
  mine,       \* the page's own changes that were answered and cleared listCache
  staleHit,   \* whether the server ever answered from an entry that a change had outdated
  doubled     \* whether a list was ever asked for while a request as new was in flight

pageVars == <<listed, loads, lastLoad, shown, isLoading, loadFailed, mine, staleHit, doubled>>
wvars == <<bvars, pageVars>>

-----------------------------------------------------------------------------
(* loadData, fetchAllPages *)

\* Mutant: any answer is taken
Accepted_Any(id) == TRUE

\* requestId is still the latest
Accepted(id) == id = lastLoad

\* A GET that was answered answers the load at once
LoadFrom(f) ==
  /\ lastLoad' = lastLoad + 1 /\ listed' = f /\ loadFailed' = FALSE
  /\ isLoading' = (fetches[f].at # "received")
  /\ IF fetches[f].at = "received"
     THEN shown' = fetches[f].saw /\ UNCHANGED loads
     ELSE loads' = loads \cup {[id |-> lastLoad + 1, of |-> f]} /\ UNCHANGED shown

\* The service's request if there is one, else what the tab's cache keeps or has in
\* flight, else a new request
StartLoad(list, answer, flight, g) ==
  LET joined == IF list # NotSent THEN list ELSE IF answer # NotSent THEN answer ELSE flight
  IN /\ lastLoad < MaxLoads
     /\ \/ /\ joined # NotSent
           /\ LoadFrom(joined)
           /\ shared' = flight /\ UNCHANGED <<fetches, doubled>>
        \/ \E f \in Fetch :
             /\ joined = NotSent /\ fetches[f].at = "unsent"
             /\ LoadFrom(f)
             /\ shared' = f /\ fetches' = Sent(f, g)
             /\ doubled' = (doubled \/ \E e \in Fetch : InFlight(e) /\ fetches[e].generation = g)

OpenPage ==
  /\ StartLoad(listed, kept, shared, generation)
  /\ UNCHANGED <<serverVars, mutations, generation, kept, paired, mine, staleHit>>

ListExpires ==
  /\ listed # NotSent /\ listed' = NotSent
  /\ UNCHANGED <<bvars, loads, lastLoad, shown, isLoading, loadFailed, mine, staleHit, doubled>>

ServeFromEntry(f) ==
  /\ ServerHit(f)
  /\ staleHit' = (staleHit \/ stored < version)
  /\ UNCHANGED <<listed, loads, lastLoad, shown, isLoading, loadFailed, mine, doubled>>

WaitingFor(f) == {l \in loads : l.of = f}

Latest(f) == \E l \in WaitingFor(f) : Accepted(l.id)

ShowList(f) ==
  /\ ReceiveGet(f)
  /\ loads' = loads \ WaitingFor(f)
  /\ shown' = IF Latest(f) THEN fetches[f].saw ELSE shown
  /\ isLoading' = (isLoading /\ ~Latest(f))
  /\ UNCHANGED <<listed, lastLoad, loadFailed, mine, staleHit, doubled>>

\* The service forgets its request, whichever that is
ListFails(f) ==
  /\ FailGet(f)
  /\ loads' = loads \ WaitingFor(f)
  /\ listed' = NotSent
  /\ isLoading' = (isLoading /\ ~Latest(f))
  /\ loadFailed' = (loadFailed \/ Latest(f))
  /\ UNCHANGED <<lastLoad, shown, mine, staleHit, doubled>>

-----------------------------------------------------------------------------
(* Changes of its own *)

\* Mutant: the list is not loaded again
AfterSave_Nothing(m) ==
  /\ listed' = NotSent /\ shared' = SharedAfter(m)
  /\ UNCHANGED <<fetches, loads, lastLoad, shown, isLoading, loadFailed, doubled>>

AfterSave(m) == StartLoad(NotSent, KeptAfter(m), SharedAfter(m), GenerationAfter(m))

\* A document, a status, an assignment, a folder ... is saved: invalidateListCache
AnswerSave(m) ==
  /\ Answer(m)
  /\ mine' = mine \cup {m}
  /\ AfterSave(m)
  /\ UNCHANGED staleHit

\* Attachments and requests for disposal leave listCache as it is before the load ...
AnswerKept(m) ==
  /\ Answer(m)
  /\ StartLoad(listed, KeptAfter(m), SharedAfter(m), GenerationAfter(m))
  /\ UNCHANGED <<mine, staleHit>>

\* ... and what other parts of the tab change makes the page load nothing
AnswerElsewhere(m) == ReceiveMutation(m) /\ UNCHANGED pageVars

-----------------------------------------------------------------------------

PageInit ==
  /\ BrowserInit
  /\ listed = NotSent /\ loads = {} /\ lastLoad = 0 /\ shown = 0 /\ isLoading = FALSE
  /\ loadFailed = FALSE /\ mine = {} /\ staleHit = FALSE /\ doubled = FALSE

PageNext ==
  \/ OpenPage \/ ListExpires
  \/ Surroundings /\ UNCHANGED pageVars
  \/ \E f \in Fetch : ServeFromEntry(f) \/ ShowList(f) \/ ListFails(f)
  \/ \E m \in Mutation : AnswerSave(m) \/ AnswerKept(m) \/ AnswerElsewhere(m)

PageSpec == PageInit /\ [][PageNext]_wvars

-----------------------------------------------------------------------------
(* Properties *)

\* The list shown is never replaced by an older one, in whatever order loads are answered,
\* unless the server answered from an entry that some change had outdated, or the end of
\* an older request had made the tab forget one in flight and ask again.
ListNeverOlder == [][shown' >= shown \/ staleHit' \/ doubled']_wvars

\* When no load is under way and none has failed, the list holds the page's own changes
\* that were answered and cleared the service's list: through three caches, unless two
\* changes of the tab were under way at once (then the second does not clear the tab's
\* cache) or a reset of the server's cache failed or was outrun.
OwnChangeShown ==
  ~paired /\ ~outrun /\ ~isLoading /\ ~loadFailed =>
    \A m \in mine : shown >= mutations[m].made

=============================================================================
