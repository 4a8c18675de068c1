---------------------------- MODULE BrowserCache ----------------------------
(***************************************************************************)
(* What one browser tab is shown of one URL, through two caches.  In the   *)
(* tab requestCacheInterceptor lets GETs share a request in flight and     *)
(* reuses its answer for a while; a mutation that succeeds clears both,    *)
(* unless another one has done so since it was sent.  On the server        *)
(* UserAwareCacheInterceptor answers the user's GETs from the cache, or    *)
(* has a handler read, whose answer it stores later; a mutation commits,   *)
(* then resets the cache, which may fail unnoticed, and then is answered.  *)
(* Answers arrive in any order.  A value is the number of the committed    *)
(* change that it shows; the answer of a GET is named by the GET.          *)
(***************************************************************************)
EXTENDS Naturals, FiniteSets

CONSTANTS
  Fetch,       \* GETs of the URL that are sent
  Mutation,    \* the tab's other requests that succeed
  MaxVersions  \* bound: changes of what the URL shows, by anyone

NotSent == "none"

ASSUME BrowserAssumption == NotSent \notin Fetch /\ MaxVersions \in Nat

VARIABLES
  version,     \* the last committed change, by anyone
  stored,      \* the change that the server's entry shows, 0 without one
  storing,     \* what handlers have read for entries not yet stored: once each
  resetting,   \* changes whose reset of the server's cache has not come yet
  outrun,      \* whether a reset failed, or came before an older answer was stored
  fetches,     \* [at, generation, saw] of each GET: saw is the change its answer shows
  mutations,   \* [at, generation, made] of each mutation
  generation,  \* cacheGeneration
  kept,        \* responseCache: the GET whose answer is reused, or NotSent
  shared,      \* inFlightRequests: the GET in flight that others join, or NotSent
  paired      \* whether two mutations were ever under way at once

serverVars == <<version, stored, storing, resetting, outrun>>
tabVars == <<fetches, mutations, generation, kept, shared, paired>>
bvars == <<serverVars, tabVars>>

Unsent == [at |-> "unsent", generation |-> 0, saw |-> 0]

-----------------------------------------------------------------------------
(* The server: changes and its cache *)

Committed ==
  /\ version < MaxVersions
  /\ version' = version + 1 /\ resetting' = resetting \cup {version + 1}

\* By another user or tab, or by a request whose answer was lost
OthersChange ==
  /\ Committed
  /\ UNCHANGED <<tabVars, stored, storing, outrun>>

ResetServer(v) ==
  /\ v \in resetting
  /\ resetting' = resetting \ {v}
  /\ stored' = 0
  /\ outrun' = (outrun \/ \E u \in storing : u < version)
  /\ UNCHANGED <<tabVars, version, storing>>

\* The cache does not answer, or the process ends after the commit
ResetLost(v) ==
  /\ v \in resetting
  /\ resetting' = resetting \ {v} /\ outrun' = TRUE
  /\ UNCHANGED <<tabVars, version, stored, storing>>

\* A GET of the same user from another tab finds no entry, and its handler reads
ReadElsewhere ==
  /\ stored = 0
  /\ storing' = storing \cup {version}
  /\ UNCHANGED <<tabVars, version, stored, resetting, outrun>>

StoreEntry(v) ==
  /\ v \in storing
  /\ storing' = storing \ {v}
  /\ stored' = v
  /\ UNCHANGED <<tabVars, version, resetting, outrun>>

EntryExpires ==
  /\ stored # 0 /\ stored' = 0
  /\ UNCHANGED <<tabVars, version, storing, resetting, outrun>>

-----------------------------------------------------------------------------
(* A GET *)

InFlight(f) == fetches[f].at \in {"sent", "answered"}

Sent(f, g) == [fetches EXCEPT ![f].at = "sent", ![f].generation = g]

\* A GET that finds neither an answer nor a request to join is sent
SendGet(f) ==
  /\ fetches[f].at = "unsent"
  /\ kept = NotSent /\ shared = NotSent
  /\ fetches' = Sent(f, generation)
  /\ shared' = f
  /\ UNCHANGED <<serverVars, mutations, generation, kept, paired>>

\* The server has an entry
ServerHit(f) ==
  /\ fetches[f].at = "sent" /\ stored # 0
  /\ fetches' = [fetches EXCEPT ![f].at = "answered", ![f].saw = stored]
  /\ UNCHANGED <<serverVars, mutations, generation, kept, shared, paired>>

\* It had none when it looked, and its handler reads the rows.  The answer does not wait
\* until it is stored.
ServerRead(f) ==
  /\ fetches[f].at = "sent"
  /\ fetches' = [fetches EXCEPT ![f].at = "answered", ![f].saw = version]
  /\ storing' = storing \cup {version}
  /\ UNCHANGED <<version, stored, resetting, outrun, mutations, generation, kept, shared, paired>>

\* Mutant: an answer is always kept
MayKeep_Always(f) == TRUE

MayKeep(f) == fetches[f].generation = generation

\* The end of any GET takes the URL out of the requests in flight, whichever is there
ReceiveGet(f) ==
  /\ fetches[f].at = "answered"
  /\ fetches' = [fetches EXCEPT ![f].at = "received"]
  /\ kept' = IF MayKeep(f) THEN f ELSE kept
  /\ shared' = NotSent
  /\ UNCHANGED <<serverVars, mutations, generation, paired>>

FailGet(f) ==
  /\ InFlight(f)
  /\ fetches' = [fetches EXCEPT ![f] = Unsent]
  /\ shared' = NotSent
  /\ UNCHANGED <<serverVars, mutations, generation, kept, paired>>

\* The answer has been kept for its time
Expire ==
  /\ kept # NotSent /\ kept' = NotSent
  /\ UNCHANGED <<serverVars, fetches, mutations, generation, shared, paired>>

-----------------------------------------------------------------------------
(* A mutation *)

UnderWay == {m \in Mutation : mutations[m].at \in {"sent", "committed"}}

\* One that fails clears nothing in the tab: it is no mutation of the model, and what it
\* committed is a change like those of others
SendMutation(m) ==
  /\ mutations[m].at = "unsent"
  /\ mutations' = [mutations EXCEPT ![m].at = "sent", ![m].generation = generation]
  /\ paired' = (paired \/ UnderWay # {})
  /\ UNCHANGED <<serverVars, fetches, generation, kept, shared>>

Commit(m) ==
  /\ mutations[m].at = "sent"
  /\ mutations' = [mutations EXCEPT ![m].at = "committed", ![m].made = version + 1]
  /\ Committed
  /\ UNCHANGED <<stored, storing, outrun, fetches, generation, kept, shared, paired>>

\* The tab's cache once mutation m has succeeded
Invalidates(m) == mutations[m].generation = generation

KeptAfter(m) == IF Invalidates(m) THEN NotSent ELSE kept

SharedAfter(m) == IF Invalidates(m) THEN NotSent ELSE shared

GenerationAfter(m) == IF Invalidates(m) THEN generation + 1 ELSE generation

\* Its answer arrives, after its reset
Answer(m) ==
  /\ mutations[m].at = "committed" /\ mutations[m].made \notin resetting
  /\ mutations' = [mutations EXCEPT ![m].at = "received"]
  /\ kept' = KeptAfter(m) /\ generation' = GenerationAfter(m)
  /\ UNCHANGED <<serverVars, paired>>

ReceiveMutation(m) == Answer(m) /\ shared' = SharedAfter(m) /\ UNCHANGED fetches

-----------------------------------------------------------------------------

BrowserInit ==
  /\ version = 1 /\ stored = 0 /\ storing = {} /\ resetting = {} /\ outrun = FALSE
  /\ fetches = [f \in Fetch |-> Unsent]
  /\ mutations = [m \in Mutation |-> [at |-> "unsent", generation |-> 0, made |-> 0]]
  /\ generation = 0 /\ kept = NotSent /\ shared = NotSent /\ paired = FALSE

\* What goes on whoever asks for the URL
Surroundings ==
  \/ OthersChange \/ ReadElsewhere \/ EntryExpires \/ Expire
  \/ \E v \in resetting : ResetServer(v) \/ ResetLost(v)
  \/ \E v \in storing : StoreEntry(v)
  \/ \E f \in Fetch : ServerRead(f)
  \/ \E m \in Mutation : SendMutation(m) \/ Commit(m)

BrowserNext ==
  \/ Surroundings
  \/ \E f \in Fetch : SendGet(f) \/ ServerHit(f) \/ ReceiveGet(f) \/ FailGet(f)
  \/ \E m \in Mutation : ReceiveMutation(m)

BrowserSpec == BrowserInit /\ [][BrowserNext]_bvars

-----------------------------------------------------------------------------
(* Properties *)

\* Answer f shows every change of the tab that was answered
ShowsAnswered(f) ==
  \A m \in Mutation : mutations[m].at = "received" => fetches[f].saw >= mutations[m].made

\* What the comment of the interceptor claims: once a mutation has succeeded, neither an
\* answer from before it is reused nor a request joined that may have been served before
\* it.  It is so, in whatever order the tab and the server handle the requests around it,
\* if no two mutations of the tab were under way at once and no reset of the server's
\* cache failed or was outrun by an answer read before it.
NoStaleAnswer ==
  ~paired /\ ~outrun =>
    /\ kept # NotSent => ShowsAnswered(kept)
    /\ shared # NotSent => InFlight(shared)
    /\ shared # NotSent /\ fetches[shared].at = "answered" => ShowsAnswered(shared)

=============================================================================
