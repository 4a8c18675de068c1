---------------------------- MODULE BrowserProofs ----------------------------
(***************************************************************************)
(* What the browser shows: theorems about the cache of the tab, the list   *)
(* of the documents page on top of it, the dialogs that answers fill, and  *)
(* the server's cache by itself, for any number of requests answered in    *)
(* any order.                                                              *)
(***************************************************************************)
EXTENDS DocumentsPage, PageDialogs, ServerCache, TLAPS

-----------------------------------------------------------------------------
(* The cache of the tab *)

BrowserTypeOK ==
  /\ version \in Nat /\ stored \in 0 .. version
  /\ storing \subseteq 0 .. version /\ resetting \subseteq 0 .. version
  /\ outrun \in BOOLEAN /\ paired \in BOOLEAN /\ generation \in Nat
  /\ fetches \in [Fetch -> [at : {"unsent", "sent", "answered", "received"},
                            generation : Nat, saw : Nat]]
  /\ mutations \in [Mutation -> [at : {"unsent", "sent", "committed", "received"},
                                 generation : Nat, made : Nat]]
  /\ kept \in Fetch \cup {NotSent} /\ shared \in Fetch \cup {NotSent}

\* Nothing is ahead of what has been committed, nor of the generation
Behind ==
  /\ \A f \in Fetch : fetches[f].generation =< generation /\ fetches[f].saw =< version
  /\ \A m \in Mutation : mutations[m].made =< version

\* A mutation is answered after its reset
AnsweredAfterReset ==
  \A m \in Mutation : mutations[m].at = "received" => mutations[m].made \notin resetting

\* Mutations that are alone carry the present generation
Alone ==
  ~paired => \A m \in UnderWay : /\ mutations[m].generation = generation
                                  /\ \A n \in UnderWay : n = m

\* Once its reset has come, the server holds nothing from before a mutation
ServerFresh ==
  ~outrun => \A m \in Mutation :
    mutations[m].at \in {"committed", "received"} /\ mutations[m].made \notin resetting =>
      /\ stored # 0 => stored >= mutations[m].made
      /\ \A u \in storing : u >= mutations[m].made

\* A GET of the present generation shows every mutation that was answered
Fresh ==
  ~paired /\ ~outrun => \A f \in Fetch :
    fetches[f].at = "answered" /\ fetches[f].generation = generation => ShowsAnswered(f)

\* What later GETs are given: a request of the present generation, an answer
Joinable ==
  /\ shared # NotSent => InFlight(shared) /\ fetches[shared].generation = generation
  /\ kept # NotSent => /\ fetches[kept].at = "received"
                       /\ ~paired /\ ~outrun => ShowsAnswered(kept)

BrowserInv ==
  /\ BrowserTypeOK /\ Behind /\ AnsweredAfterReset /\ Alone /\ ServerFresh /\ Fresh /\ Joinable


\* Flags are the conditions they record.
LEMMA OutrunSet ==
  ASSUME BrowserTypeOK, NEW v, ResetServer(v)
  PROVE  outrun' \in BOOLEAN /\ (outrun => outrun')
<1>1. outrun \in BOOLEAN
  BY DEF BrowserTypeOK
<1> QED BY <1>1, Zenon DEF ResetServer

LEMMA CrossedSet ==
  ASSUME BrowserTypeOK, NEW m, SendMutation(m)
  PROVE  paired' \in BOOLEAN /\ (paired => paired') /\ (~paired' => UnderWay = {})
<1>1. paired \in BOOLEAN
  BY DEF BrowserTypeOK
<1> QED BY <1>1, Zenon DEF SendMutation

\* Changes of others and what the server's cache does
LEMMA ServerStep ==
  ASSUME BrowserInv,
         \/ OthersChange \/ ReadElsewhere \/ EntryExpires
         \/ \E v \in resetting : ResetServer(v) \/ ResetLost(v)
         \/ \E v \in storing : StoreEntry(v)
  PROVE  BrowserInv'
<1> USE DEF BrowserInv
<1>1. UNCHANGED tabVars
  BY DEF OthersChange, ReadElsewhere, EntryExpires, ResetServer, ResetLost, StoreEntry
<1>2. /\ UNCHANGED <<fetches, mutations, generation, kept, shared, paired>>
      /\ UnderWay' = UnderWay /\ \A f \in Fetch : InFlight(f)' = InFlight(f)
      /\ \A f \in Fetch : ShowsAnswered(f)' = ShowsAnswered(f)
  BY <1>1 DEF tabVars, UnderWay, InFlight, ShowsAnswered
<1>3. /\ version' \in Nat /\ version' >= version
      /\ stored' \in 0 .. version' /\ storing' \subseteq 0 .. version' /\ resetting' \subseteq 0 .. version'
      /\ outrun' \in BOOLEAN /\ (outrun => outrun')
  <2>1. CASE \E v \in resetting : ResetServer(v)
    <3>1. outrun' \in BOOLEAN /\ (outrun => outrun')
      BY <2>1, OutrunSet
    <3> QED BY <2>1, <3>1 DEF ResetServer, BrowserTypeOK
  <2>2. CASE OthersChange
    BY <2>2 DEF OthersChange, Committed, BrowserTypeOK
  <2>3. CASE ReadElsewhere \/ EntryExpires \/ \E v \in storing : StoreEntry(v)
    <3>1. outrun' = outrun /\ outrun \in BOOLEAN
      BY <2>3 DEF ReadElsewhere, EntryExpires, StoreEntry, BrowserTypeOK
    <3>2. version \in Nat /\ stored \in 0 .. version /\ storing \subseteq 0 .. version
          /\ resetting \subseteq 0 .. version
      BY DEF BrowserTypeOK
    <3>3. version' = version /\ resetting' = resetting
      BY <2>3 DEF ReadElsewhere, EntryExpires, StoreEntry
    <3>4. stored' \in {stored, 0} \cup storing /\ storing' \subseteq storing \cup {version}
      BY <2>3 DEF ReadElsewhere, EntryExpires, StoreEntry
    <3> HIDE DEF BrowserInv
    <3> QED BY <3>1, <3>2, <3>3, <3>4
  <2>4. CASE \E v \in resetting : ResetLost(v)
    <3>1. outrun' = TRUE
      BY <2>4 DEF ResetLost
    <3> QED BY <2>4, <3>1 DEF ResetLost, BrowserTypeOK
  <2> QED BY <2>1, <2>2, <2>3, <2>4
<1>4. BrowserTypeOK' /\ Alone' /\ Behind'
  BY <1>2, <1>3 DEF BrowserTypeOK, Alone, Behind
<1>5. AnsweredAfterReset'
  BY <1>2 DEF AnsweredAfterReset, BrowserTypeOK, Behind, OthersChange, Committed, ReadElsewhere, EntryExpires,
              ResetServer, ResetLost, StoreEntry
<1>6. ServerFresh'
  <2>1. CASE OthersChange
    BY <1>2, <2>1 DEF OthersChange, Committed, ServerFresh, BrowserTypeOK, Behind
  <2>2. CASE ReadElsewhere \/ EntryExpires \/ \E v \in storing : StoreEntry(v)
    BY <1>2, <2>2 DEF ReadElsewhere, EntryExpires, StoreEntry, ServerFresh, BrowserTypeOK, Behind
  <2>3. CASE \E v \in resetting : ResetServer(v)
    <3>1. stored' = 0 /\ storing' = storing
      BY <2>3 DEF ResetServer
    <3>2. ~outrun' => \A u \in storing : ~(u < version)
      BY <2>3, Zenon DEF ResetServer
    <3>3. \A m \in Mutation : mutations[m].made =< version /\ mutations[m].made \in Nat
      BY DEF Behind, BrowserTypeOK
    <3>4. \A u \in storing : u \in Nat /\ version \in Nat
      BY DEF BrowserTypeOK
    <3> QED BY <1>2, <3>1, <3>2, <3>3, <3>4 DEF ServerFresh
  <2>4. CASE \E v \in resetting : ResetLost(v)
    BY <2>4 DEF ResetLost, ServerFresh
  <2> QED BY <2>1, <2>2, <2>3, <2>4
<1>7. Fresh' /\ Joinable'
  BY <1>2, <1>3 DEF Fresh, Joinable, BrowserTypeOK
<1> QED BY <1>4, <1>5, <1>6, <1>7

\* A GET goes on
LEMMA GetStep ==
  ASSUME BrowserInv, NEW f \in Fetch,
         SendGet(f) \/ ServerHit(f) \/ ServerRead(f) \/ ReceiveGet(f) \/ FailGet(f)
  PROVE  BrowserInv'
<1> USE DEF BrowserInv
<1>1. UNCHANGED <<version, stored, resetting, outrun, mutations, generation, paired>>
  BY DEF SendGet, ServerHit, ServerRead, ReceiveGet, FailGet, serverVars
<1>2. storing' \subseteq storing \cup {version}
  BY DEF SendGet, ServerHit, ServerRead, ReceiveGet, FailGet, serverVars
<1>3. /\ fetches' \in [Fetch -> [at : {"unsent", "sent", "answered", "received"},
                                 generation : Nat, saw : Nat]]
      /\ \A g \in Fetch : g # f => fetches'[g] = fetches[g]
      /\ fetches'[f].generation =< generation /\ fetches'[f].saw =< version
  BY DEF SendGet, ServerHit, ServerRead, ReceiveGet, FailGet, Sent, Unsent, BrowserTypeOK, Behind
<1>4. kept' \in Fetch \cup {NotSent} /\ shared' \in Fetch \cup {NotSent}
  BY DEF SendGet, ServerHit, ServerRead, ReceiveGet, FailGet, BrowserTypeOK
<1>5. BrowserTypeOK' /\ Behind' /\ AnsweredAfterReset'
  BY <1>1, <1>2, <1>3, <1>4 DEF BrowserTypeOK, Behind, AnsweredAfterReset
<1>6. Alone' /\ UnderWay' = UnderWay
  BY <1>1 DEF Alone, UnderWay
<1>7. ServerFresh'
  BY <1>1, <1>2 DEF ServerFresh, BrowserTypeOK, Behind
<1>8. \A g \in Fetch : g # f => ShowsAnswered(g)' = ShowsAnswered(g) /\ InFlight(g)' = InFlight(g)
  BY <1>1, <1>3 DEF ShowsAnswered, InFlight
<1>9. ASSUME ~paired, ~outrun, fetches'[f].at = "answered", fetches'[f].generation = generation
      PROVE  ShowsAnswered(f)'
  <2>1. CASE ServerHit(f)
    <3>1. fetches'[f].saw = stored /\ stored # 0
      BY <2>1 DEF ServerHit, BrowserTypeOK
    <3> QED BY <1>1, <1>9, <3>1 DEF ServerFresh, AnsweredAfterReset, ShowsAnswered
  <2>2. CASE ServerRead(f)
    <3>1. fetches'[f].saw = version
      BY <2>2 DEF ServerRead, BrowserTypeOK
    <3> QED BY <1>1, <3>1 DEF Behind, BrowserTypeOK, ShowsAnswered
  <2>3. CASE SendGet(f) \/ ReceiveGet(f) \/ FailGet(f)
    BY <1>9, <2>3 DEF SendGet, ReceiveGet, FailGet, Sent, Unsent, BrowserTypeOK
  <2> QED BY <2>1, <2>2, <2>3
<1>10. Fresh'
  BY <1>1, <1>3, <1>8, <1>9 DEF Fresh
<1>11. Joinable'
  <2>1. CASE SendGet(f)
    <3>1. kept' = NotSent /\ shared' = f /\ fetches'[f].at = "sent" /\ fetches'[f].generation = generation
      BY <2>1 DEF SendGet, Sent, BrowserTypeOK
    <3> QED BY <1>1, <3>1 DEF Joinable, InFlight
  <2>2. CASE ServerHit(f) \/ ServerRead(f)
    <3>1. /\ UNCHANGED <<kept, shared>> /\ fetches[f].at = "sent" /\ fetches'[f].at = "answered"
          /\ fetches'[f].generation = fetches[f].generation
      BY <2>2 DEF ServerHit, ServerRead, BrowserTypeOK
    <3>2. kept # f
      BY <3>1, BrowserAssumption DEF Joinable
    <3> QED BY <1>1, <1>3, <1>8, <3>1, <3>2 DEF Joinable, InFlight, BrowserTypeOK
  <2>3. CASE ReceiveGet(f)
    <3>1. /\ shared' = NotSent /\ fetches[f].at = "answered" /\ fetches'[f].at = "received"
          /\ fetches'[f].saw = fetches[f].saw
          /\ kept' = IF fetches[f].generation = generation THEN f ELSE kept
      BY <2>3 DEF ReceiveGet, MayKeep, BrowserTypeOK
    <3>2. kept # f
      BY <3>1, BrowserAssumption DEF Joinable
    <3>3. ShowsAnswered(f)' = ShowsAnswered(f)
      BY <1>1, <3>1 DEF ShowsAnswered
    <3> QED BY <1>1, <1>3, <1>8, <3>1, <3>2, <3>3 DEF Joinable, Fresh, BrowserTypeOK
  <2>4. CASE FailGet(f)
    <3>1. shared' = NotSent /\ kept' = kept /\ InFlight(f)
      BY <2>4 DEF FailGet
    <3>2. kept # f
      BY <3>1, BrowserAssumption DEF Joinable, InFlight
    <3> QED BY <1>1, <1>3, <1>8, <3>1, <3>2 DEF Joinable, BrowserTypeOK
  <2> QED BY <2>1, <2>2, <2>3, <2>4
<1> QED BY <1>5, <1>6, <1>7, <1>10, <1>11

\* A mutation is sent, and commits
LEMMA MutationStep ==
  ASSUME BrowserInv, NEW m \in Mutation, SendMutation(m) \/ Commit(m)
  PROVE  BrowserInv'
<1> USE DEF BrowserInv
<1>1. UNCHANGED <<stored, storing, outrun, fetches, generation, kept, shared>>
  BY DEF SendMutation, Commit, serverVars
<1>2. /\ paired' \in BOOLEAN /\ (paired => paired')
      /\ SendMutation(m) /\ ~paired' => UnderWay = {}
  BY CrossedSet DEF Commit, BrowserTypeOK
<1>3. /\ version' \in Nat /\ version' >= version
      /\ \A v \in resetting : v \in resetting'
      /\ resetting' \subseteq 0 .. version'
      /\ \A v \in resetting' : v \in resetting \/ v > version
  BY DEF SendMutation, Commit, Committed, serverVars, BrowserTypeOK
<1>4. /\ mutations' \in [Mutation -> [at : {"unsent", "sent", "committed", "received"},
                                      generation : Nat, made : Nat]]
      /\ \A n \in Mutation : n # m => mutations'[n] = mutations[n]
      /\ mutations[m].at \in {"unsent", "sent"} /\ mutations'[m].at \in {"sent", "committed"}
      /\ mutations'[m].made =< version'
      /\ mutations'[m].at = "committed" => mutations'[m].made \in resetting'
  BY DEF SendMutation, Commit, Committed, serverVars, BrowserTypeOK, Behind
<1>5. BrowserTypeOK' /\ Behind'
  BY <1>1, <1>2, <1>3, <1>4 DEF BrowserTypeOK, Behind
<1>6. AnsweredAfterReset' /\ ServerFresh'
  BY <1>1, <1>3, <1>4 DEF AnsweredAfterReset, ServerFresh, Behind, BrowserTypeOK
<1>7. \A f \in Fetch : ShowsAnswered(f)' = ShowsAnswered(f) /\ InFlight(f)' = InFlight(f)
  BY <1>1, <1>4 DEF ShowsAnswered, InFlight
<1>8. Fresh' /\ Joinable'
  BY <1>1, <1>2, <1>7 DEF Fresh, Joinable, BrowserTypeOK
<1>9. Alone'
  <2>1. CASE SendMutation(m)
    <3>1. mutations'[m].generation = generation
      BY <2>1 DEF SendMutation, BrowserTypeOK
    <3>2. ~paired' => UnderWay' \subseteq {m}
      BY <1>2, <1>4, <2>1 DEF UnderWay
    <3> QED BY <1>1, <3>1, <3>2 DEF Alone
  <2>2. CASE Commit(m)
    <3>1. /\ UnderWay' = UnderWay /\ paired' = paired
          /\ \A n \in Mutation : mutations'[n].generation = mutations[n].generation
      BY <2>2 DEF Commit, UnderWay, BrowserTypeOK
    <3> QED BY <1>1, <3>1 DEF Alone, UnderWay
  <2> QED BY <2>1, <2>2
<1> QED BY <1>5, <1>6, <1>8, <1>9

\* A mutation is answered, and in the same step a GET may be sent
LEMMA MutationAnswered ==
  ASSUME BrowserInv, NEW m \in Mutation, Answer(m),
         \/ shared' = SharedAfter(m) /\ UNCHANGED fetches
         \/ \E f \in Fetch : /\ fetches[f].at = "unsent" /\ KeptAfter(m) = NotSent
                             /\ shared' = f /\ fetches' = Sent(f, GenerationAfter(m))
  PROVE  BrowserInv'
<1> USE DEF BrowserInv
<1>1. /\ UNCHANGED <<version, stored, storing, resetting, outrun, paired>>
      /\ mutations[m].at = "committed" /\ mutations[m].made \notin resetting
      /\ mutations' = [mutations EXCEPT ![m].at = "received"]
      /\ kept' = KeptAfter(m) /\ generation' = GenerationAfter(m)
  BY DEF Answer, serverVars
<1>2. /\ mutations' \in [Mutation -> [at : {"unsent", "sent", "committed", "received"},
                                      generation : Nat, made : Nat]]
      /\ \A n \in Mutation : mutations'[n].made = mutations[n].made
      /\ \A n \in Mutation : mutations'[n].generation = mutations[n].generation
      /\ \A n \in Mutation : n # m => mutations'[n].at = mutations[n].at
      /\ mutations'[m].at = "received" /\ UnderWay' = UnderWay \ {m} /\ m \in UnderWay
  BY <1>1 DEF BrowserTypeOK, UnderWay
<1>3. generation \in Nat /\ generation' \in {generation, generation + 1}
  BY <1>1 DEF GenerationAfter, BrowserTypeOK
<1>4. /\ \A f \in Fetch : \/ fetches'[f] = fetches[f]
                          \/ /\ fetches[f].at = "unsent" /\ kept' = NotSent /\ shared' = f
                             /\ fetches'[f].at = "sent" /\ fetches'[f].generation = generation'
                             /\ fetches'[f].saw = fetches[f].saw
      /\ fetches' \in [Fetch -> [at : {"unsent", "sent", "answered", "received"},
                                 generation : Nat, saw : Nat]]
  <2>1. CASE UNCHANGED fetches
    BY <2>1 DEF BrowserTypeOK
  <2>2. CASE \E f \in Fetch : /\ fetches[f].at = "unsent" /\ KeptAfter(m) = NotSent
                              /\ shared' = f /\ fetches' = Sent(f, GenerationAfter(m))
    <3>1. PICK f \in Fetch : /\ fetches[f].at = "unsent" /\ kept' = NotSent /\ shared' = f
                             /\ fetches' = Sent(f, generation')
      BY <1>1, <2>2
    <3>2. generation' \in Nat
      BY <1>3
    <3> HIDE DEF BrowserInv
    <3>3. fetches \in [Fetch -> [at : {"unsent", "sent", "answered", "received"},
                                 generation : Nat, saw : Nat]]
      BY DEF BrowserInv, BrowserTypeOK
    <3> QED BY <3>1, <3>2, <3>3 DEF Sent
  <2> QED BY <2>1, <2>2
<1>6. BrowserTypeOK' /\ Behind'
  <2>1. kept' \in Fetch \cup {NotSent} /\ shared' \in Fetch \cup {NotSent}
    BY <1>1 DEF KeptAfter, SharedAfter, BrowserTypeOK
  <2>2. \A f \in Fetch : fetches'[f].generation =< generation' /\ fetches'[f].saw =< version
    BY <1>3, <1>4 DEF Behind, BrowserTypeOK
  <2> QED BY <1>1, <1>2, <1>3, <1>4, <2>1, <2>2 DEF BrowserTypeOK, Behind
<1>7. AnsweredAfterReset' /\ ServerFresh'
  BY <1>1, <1>2 DEF AnsweredAfterReset, ServerFresh
<1>8. CASE ~Invalidates(m)
  <2>1. paired /\ paired'
    BY <1>1, <1>2, <1>8 DEF Invalidates, Alone
  <2>2. Alone' /\ Fresh'
    BY <2>1 DEF Alone, Fresh
  <2>3. generation' = generation /\ kept' = kept
    BY <1>1, <1>8 DEF KeptAfter, GenerationAfter
  <2>4. Joinable'
    <3>1. CASE shared' = SharedAfter(m) /\ UNCHANGED fetches
      BY <1>8, <2>1, <2>3, <3>1 DEF Joinable, SharedAfter, InFlight
    <3>2. CASE \E f \in Fetch : /\ fetches[f].at = "unsent" /\ KeptAfter(m) = NotSent
                                /\ shared' = f /\ fetches' = Sent(f, GenerationAfter(m))
      <4>1. PICK f \in Fetch : shared' = f /\ fetches' = Sent(f, generation') /\ kept' = NotSent
        BY <1>1, <3>2
      <4> QED BY <4>1 DEF Joinable, InFlight, Sent, BrowserTypeOK
    <3> QED BY <3>1, <3>2
  <2> QED BY <1>6, <1>7, <2>2, <2>4
<1>9. CASE Invalidates(m)
  <2>1. generation' = generation + 1 /\ kept' = NotSent
    BY <1>1, <1>9 DEF KeptAfter, GenerationAfter
  <2>2. Alone'
    BY <1>1, <1>2 DEF Alone
  <2>3. Fresh'
    <3>1. \A f \in Fetch : fetches'[f].at = "answered" => fetches'[f].generation # generation'
      BY <1>3, <1>4, <2>1 DEF Behind, BrowserTypeOK
    <3> QED BY <3>1 DEF Fresh
  <2>4. Joinable'
    <3>1. CASE shared' = SharedAfter(m) /\ UNCHANGED fetches
      BY <1>9, <2>1, <3>1 DEF Joinable, SharedAfter
    <3>2. CASE \E f \in Fetch : /\ fetches[f].at = "unsent" /\ KeptAfter(m) = NotSent
                                /\ shared' = f /\ fetches' = Sent(f, GenerationAfter(m))
      <4>1. PICK f \in Fetch : shared' = f /\ fetches' = Sent(f, generation') /\ kept' = NotSent
        BY <1>1, <2>1, <3>2
      <4> QED BY <4>1 DEF Joinable, InFlight, Sent, BrowserTypeOK
    <3> QED BY <3>1, <3>2
  <2> QED BY <1>6, <1>7, <2>2, <2>3, <2>4
<1> QED BY <1>8, <1>9

LEMMA AnswerExpires == ASSUME BrowserInv, Expire \/ UNCHANGED bvars PROVE BrowserInv'
BY DEF Expire, bvars, serverVars, tabVars, BrowserInv, BrowserTypeOK, Behind, AnsweredAfterReset, Alone,
       UnderWay, ServerFresh, Fresh, ShowsAnswered, Joinable, InFlight

LEMMA BrowserStarts == BrowserInit => BrowserInv
<1> SUFFICES ASSUME BrowserInit PROVE BrowserInv
  OBVIOUS
<1>1. outrun \in BOOLEAN /\ paired \in BOOLEAN
  BY Zenon DEF BrowserInit
<1>2. /\ version = 1 /\ stored = 0 /\ storing = {} /\ resetting = {} /\ generation = 0
      /\ kept = NotSent /\ shared = NotSent
      /\ \A f \in Fetch : fetches[f] = Unsent
      /\ \A m \in Mutation : mutations[m] = [at |-> "unsent", generation |-> 0, made |-> 0]
      /\ fetches \in [Fetch -> [at : {"unsent", "sent", "answered", "received"},
                                generation : Nat, saw : Nat]]
      /\ mutations \in [Mutation -> [at : {"unsent", "sent", "committed", "received"},
                                     generation : Nat, made : Nat]]
  BY DEF BrowserInit, Unsent
<1>3. BrowserTypeOK
  BY <1>1, <1>2 DEF BrowserTypeOK
<1>4. Behind /\ AnsweredAfterReset /\ Alone /\ ServerFresh /\ Fresh /\ Joinable
  BY <1>2 DEF Behind, AnsweredAfterReset, Alone, UnderWay, ServerFresh, Fresh, Joinable, Unsent
<1> QED BY <1>3, <1>4 DEF BrowserInv

LEMMA SurroundingsKeep == ASSUME BrowserInv, Surroundings PROVE BrowserInv'
<1>1. CASE \E f \in Fetch : ServerRead(f)
  BY <1>1, GetStep
<1>2. CASE \E m \in Mutation : SendMutation(m) \/ Commit(m)
  BY <1>2, MutationStep
<1> QED BY <1>1, <1>2, ServerStep, AnswerExpires DEF Surroundings

LEMMA BrowserSafe == BrowserSpec => []BrowserInv
<1>1. ASSUME BrowserInv, [BrowserNext]_bvars PROVE BrowserInv'
  <2>1. CASE \E f \in Fetch : SendGet(f) \/ ServerHit(f) \/ ReceiveGet(f) \/ FailGet(f)
    BY <1>1, <2>1, GetStep
  <2>2. CASE \E m \in Mutation : ReceiveMutation(m)
    BY <1>1, <2>2, MutationAnswered DEF ReceiveMutation
  <2> QED BY <1>1, <2>1, <2>2, SurroundingsKeep, AnswerExpires DEF BrowserNext
<1> QED BY <1>1, BrowserStarts, PTL DEF BrowserSpec

LEMMA NothingStale == BrowserInv => NoStaleAnswer
BY BrowserAssumption
DEF BrowserInv, BrowserTypeOK, Joinable, Fresh, NoStaleAnswer, InFlight

\* request-cache.interceptor.ts, with user-aware-cache.interceptor.ts behind it: for any
\* number of requests answered in any order, nothing from before a mutation of the tab is
\* given after its answer, kept or in flight, unless mutations of the tab overlapped or the
\* server's cache was not cleared in time.
THEOREM NothingStaleIsShown == BrowserSpec => []NoStaleAnswer
BY BrowserSafe, NothingStale, PTL


-----------------------------------------------------------------------------
(* The list of documents *)

PageTypeOK ==
  /\ listed \in Fetch \cup {NotSent} /\ lastLoad \in Nat
  /\ loads \subseteq [id : 1 .. lastLoad, of : Fetch] /\ shown \in 0 .. version
  /\ isLoading \in BOOLEAN /\ loadFailed \in BOOLEAN
  /\ staleHit \in BOOLEAN /\ doubled \in BOOLEAN
  /\ mine \subseteq {m \in Mutation : mutations[m].at = "received"}
  /\ \A l, k \in loads : l.id = k.id => l = k
  /\ \A l \in loads : InFlight(l.of)
  /\ listed # NotSent => fetches[listed].at # "unsent"

\* The load that will be accepted waits for GET f
Awaited(f) == \E l \in loads : Accepted(l.id) /\ l.of = f

\* If GET f has an answer, it shows the page's own changes
Covers(f) ==
  ~paired /\ ~outrun /\ fetches[f].at \in {"answered", "received"} =>
    \A m \in mine : fetches[f].saw >= mutations[m].made

\* GET f may still decide what is shown
Tip(f) == f \in {listed, kept, shared} \/ Awaited(f)

\* One GET at most does, its answer is no older than the list, and no other of the present
\* generation is in flight
OneTip ==
  ~staleHit /\ ~doubled => \A f \in Fetch :
    /\ Tip(f) => \A g \in Fetch : Tip(g) => g = f
    /\ Tip(f) /\ fetches[f].at \in {"answered", "received"} => fetches[f].saw >= shown
    /\ InFlight(f) /\ fetches[f].generation = generation => Awaited(f)

\* What decides the list shows the page's own changes
AllCovered == \A f \in Fetch : f = listed \/ Awaited(f) => Covers(f)

PageInv == BrowserInv /\ PageTypeOK /\ OneTip /\ OwnChangeShown /\ AllCovered

\* What a step of the server or of the tab's cache does to a GET that is on its way
AnswersWell(f) ==
  /\ fetches[f].at = "sent" /\ fetches'[f].at = "answered"
  /\ fetches'[f].generation = fetches[f].generation
  /\ ~staleHit' => fetches'[f].saw >= shown
  /\ ~paired' /\ ~outrun' => \A m \in mine : fetches'[f].saw >= mutations[m].made

\* A step that starts and ends no load
LEMMA PageKept ==
  ASSUME PageInv, BrowserInv',
         UNCHANGED <<loads, lastLoad, shown, isLoading, loadFailed, mine, doubled>>,
         listed' \in {listed, NotSent}, kept' \in {kept, NotSent}, shared' \in {shared, NotSent},
         generation' \in {generation, generation + 1},
         version' >= version, staleHit' \in BOOLEAN,
         staleHit => staleHit', paired => paired', outrun => outrun',
         \A m \in mine : mutations'[m] = mutations[m],
         \A f \in Fetch : fetches'[f] = fetches[f] \/ AnswersWell(f)
  PROVE  PageInv'
<1> USE DEF PageInv
<1>1. \A f \in Fetch : /\ InFlight(f)' <=> InFlight(f)
                       /\ fetches'[f].generation = fetches[f].generation
                       /\ fetches'[f].at = "unsent" <=> fetches[f].at = "unsent"
  BY DEF InFlight, AnswersWell
<1>2. \A f : Awaited(f)' <=> Awaited(f)
  BY DEF Awaited, Accepted
<1>3. PageTypeOK'
  <2>1. version \in Nat /\ version' \in Nat
    BY DEF BrowserInv, BrowserTypeOK
  <2>2. mine \subseteq {m \in Mutation : mutations'[m].at = "received"}
    BY DEF PageTypeOK
  <2>3. \A l \in loads : l.of \in Fetch /\ InFlight(l.of)'
    BY <1>1 DEF PageTypeOK
  <2> QED BY <1>1, <2>1, <2>2, <2>3 DEF PageTypeOK
<1>4. \A f \in Fetch : Tip(f)' => Tip(f)
  BY <1>2, BrowserAssumption DEF Tip
<1>5. OneTip'
  <2> SUFFICES ASSUME ~staleHit', ~doubled'
               PROVE  \A f \in Fetch :
                        /\ Tip(f)' => \A g \in Fetch : Tip(g)' => g = f
                        /\ Tip(f)' /\ fetches'[f].at \in {"answered", "received"} => fetches'[f].saw >= shown'
                        /\ InFlight(f)' /\ fetches'[f].generation = generation' => Awaited(f)'
    BY DEF OneTip
  <2>1. ~staleHit /\ ~doubled
    OBVIOUS
  <2>2. \A f \in Fetch :
          /\ Tip(f) => \A g \in Fetch : Tip(g) => g = f
          /\ Tip(f) /\ fetches[f].at \in {"answered", "received"} => fetches[f].saw >= shown
          /\ InFlight(f) /\ fetches[f].generation = generation => Awaited(f)
    BY <2>1 DEF OneTip
  <2>3. \A f \in Fetch : fetches[f].generation =< generation /\ fetches[f].generation \in Nat
    BY DEF BrowserInv, BrowserTypeOK, Behind
  <2>4. generation \in Nat
    BY DEF BrowserInv, BrowserTypeOK
  <2>5. \A f \in Fetch : fetches'[f].generation = generation' => fetches[f].generation = generation
    BY <1>1, <2>3, <2>4
  <2>6. \A f \in Fetch : fetches'[f] = fetches[f] \/ fetches'[f].saw >= shown
    BY DEF AnswersWell
  <2> HIDE DEF PageInv
  <2> QED BY <1>1, <1>2, <1>4, <2>2, <2>5, <2>6
<1>6. OwnChangeShown'
  BY DEF OwnChangeShown
<1>7. AllCovered'
  <2> SUFFICES ASSUME NEW f \in Fetch, f = listed' \/ Awaited(f)'
               PROVE  Covers(f)'
    BY DEF AllCovered
  <2>1. Covers(f)
    BY <1>2, BrowserAssumption DEF AllCovered
  <2>2. CASE fetches'[f] = fetches[f]
    BY <2>1, <2>2 DEF Covers
  <2>3. CASE AnswersWell(f)
    BY <2>3 DEF Covers, AnswersWell
  <2> QED BY <2>2, <2>3
<1> QED BY <1>3, <1>5, <1>6, <1>7

\* What a change of its own leaves of the caches when the list is loaded again
Reloads(list, keep, flight, g) ==
  /\ list \in {listed, NotSent} /\ keep \in {kept, NotSent} /\ flight \in {shared, NotSent}
  /\ kept' = keep /\ generation' = g
  /\ \/ g = generation
     \/ g = generation + 1 /\ keep = NotSent /\ flight = NotSent
  /\ UNCHANGED <<version, outrun, paired, staleHit>>
  /\ \A m \in Mutation : mutations'[m].made = mutations[m].made
  /\ mine' \subseteq {m \in Mutation : mutations'[m].at = "received"}
  /\ mine' = mine \/ (~paired => list = NotSent /\ keep = NotSent /\ flight = NotSent)

\* A load that joins what is there
LEMMA LoadJoins ==
  ASSUME PageInv, BrowserInv', NEW list, NEW keep, NEW flight, NEW g,
         Reloads(list, keep, flight, g), NEW f, f \in {list, keep, flight}, f # NotSent,
         LoadFrom(f), shared' = flight, UNCHANGED <<fetches, doubled>>
  PROVE  PageInv' /\ (shown' >= shown \/ staleHit' \/ doubled')
<1> DEFINE new == [id |-> lastLoad + 1, of |-> f]
<1> USE DEF PageInv
<1>1. f \in Fetch /\ f \in {listed, kept, shared} /\ fetches[f].at # "unsent"
  BY DEF Reloads, PageTypeOK, BrowserInv, BrowserTypeOK, Joinable, InFlight
<1>2. fetches[f].at = "received" \/ InFlight(f)
  BY <1>1 DEF InFlight, BrowserInv, BrowserTypeOK
<1>3. /\ lastLoad' = lastLoad + 1 /\ listed' = f /\ loadFailed' = FALSE
      /\ isLoading' = (fetches[f].at # "received")
      /\ fetches[f].at = "received" => shown' = fetches[f].saw /\ loads' = loads
      /\ fetches[f].at # "received" => loads' = loads \cup {new} /\ shown' = shown
  BY DEF LoadFrom
<1>4. /\ new.id = lastLoad + 1 /\ new.of = f /\ lastLoad \in Nat
      /\ new \in [id : 1 .. lastLoad', of : Fetch]
  BY <1>1, <1>3 DEF PageTypeOK
<1> HIDE DEF new
<1>5. \A l \in loads : l.id \in 1 .. lastLoad /\ l \in [id : 1 .. lastLoad', of : Fetch]
  BY <1>3 DEF PageTypeOK
<1>6. /\ fetches[f].at = "received" => \A e : ~Awaited(e)'
      /\ fetches[f].at # "received" => \A e : Awaited(e)' <=> e = f
  BY <1>3, <1>4, <1>5 DEF Awaited, Accepted
<1>7. Tip(f) /\ \A e \in Fetch : Tip(e)' => Tip(e)
  BY <1>1, <1>3, <1>6, BrowserAssumption DEF Tip, Reloads
<1>8. ~staleHit /\ ~doubled => \A e \in Fetch :
        /\ Tip(e) => \A h \in Fetch : Tip(h) => h = e
        /\ Tip(e) /\ fetches[e].at \in {"answered", "received"} => fetches[e].saw >= shown
        /\ InFlight(e) /\ fetches[e].generation = generation => Awaited(e)
  BY DEF OneTip
<1>9. /\ \A e \in Fetch : fetches[e].generation \in Nat /\ fetches[e].generation =< generation
      /\ \A e \in Fetch : fetches[e].saw \in 0 .. version
      /\ generation \in Nat /\ version \in Nat /\ shown \in 0 .. version
  BY DEF BrowserInv, BrowserTypeOK, Behind, PageTypeOK
<1>10. shown' \in 0 .. version' /\ (shown' >= shown \/ staleHit' \/ doubled')
  BY <1>1, <1>3, <1>7, <1>8, <1>9 DEF Reloads
<1>11. PageTypeOK'
  <2>1. loads' \subseteq [id : 1 .. lastLoad', of : Fetch] /\ \A l, k \in loads' : l.id = k.id => l = k
    BY <1>3, <1>4, <1>5 DEF PageTypeOK
  <2>2. \A l \in loads' : InFlight(l.of)'
    BY <1>2, <1>3, <1>4 DEF PageTypeOK, InFlight
  <2>3. isLoading' \in BOOLEAN /\ loadFailed' \in BOOLEAN /\ staleHit' \in BOOLEAN /\ doubled' \in BOOLEAN
    BY <1>3 DEF PageTypeOK, Reloads
  <2> QED BY <1>1, <1>3, <1>4, <1>10, <2>1, <2>2, <2>3 DEF PageTypeOK, Reloads
<1>12. OneTip'
  <2>1. \A e \in Fetch : ~staleHit /\ ~doubled /\ InFlight(e) /\ fetches[e].generation = generation' =>
          e = f /\ fetches[f].at # "received"
    BY <1>1, <1>7, <1>8, <1>9, BrowserAssumption DEF Reloads, Tip, InFlight
  <2>2. \A e \in Fetch : InFlight(e)' <=> InFlight(e)
    BY DEF InFlight
  <2>3. UNCHANGED <<staleHit, doubled, fetches>>
    BY DEF Reloads
  <2> HIDE DEF PageInv
  <2> QED BY <1>1, <1>3, <1>6, <1>7, <1>8, <1>9, <2>1, <2>2, <2>3 DEF OneTip
<1>13. Covers(f)'
  <2> SUFFICES ASSUME ~paired, ~outrun, fetches[f].at \in {"answered", "received"}, NEW m \in mine'
               PROVE  fetches[f].saw >= mutations[m].made
    BY DEF Covers, Reloads
  <2>1. m \in mine /\ m \in Mutation /\ mutations[m].at = "received"
    BY DEF Reloads, PageTypeOK
  <2>2. CASE f = listed
    BY <1>1, <2>1, <2>2 DEF AllCovered, Covers
  <2>3. CASE f = kept
    BY <1>1, <2>1, <2>3 DEF BrowserInv, Joinable, ShowsAnswered
  <2>4. CASE f = shared
    BY <1>1, <2>1, <2>4 DEF BrowserInv, Joinable, Fresh, ShowsAnswered, InFlight
  <2> QED BY <1>1, <2>2, <2>3, <2>4
<1>14. OwnChangeShown'
  BY <1>3, <1>13 DEF OwnChangeShown, Covers
<1>15. AllCovered'
  BY <1>3, <1>6, <1>13 DEF AllCovered
<1> QED BY <1>10, <1>11, <1>12, <1>14, <1>15

\* A load that sends a request of its own
LEMMA LoadSends ==
  ASSUME PageInv, BrowserInv', NEW g, Reloads(NotSent, NotSent, NotSent, g),
         NEW f \in Fetch, fetches[f].at = "unsent", LoadFrom(f), shared' = f, fetches' = Sent(f, g),
         doubled' = (doubled \/ \E e \in Fetch : InFlight(e) /\ fetches[e].generation = g)
  PROVE  PageInv' /\ shown' = shown
<1> DEFINE new == [id |-> lastLoad + 1, of |-> f]
<1> USE DEF PageInv
<1>1. /\ lastLoad' = lastLoad + 1 /\ listed' = f /\ loadFailed' = FALSE /\ isLoading' = TRUE
      /\ shown' = shown /\ loads' = loads \cup {new}
  BY DEF LoadFrom
<1>2. /\ \A e \in Fetch : e # f => fetches'[e] = fetches[e]
      /\ fetches'[f].at = "sent"
  BY DEF Sent, BrowserInv, BrowserTypeOK
<1>3. /\ new.id = lastLoad + 1 /\ new.of = f /\ lastLoad \in Nat
      /\ new \in [id : 1 .. lastLoad', of : Fetch]
  BY <1>1 DEF PageTypeOK
<1> HIDE DEF new
<1>4. \A l \in loads : /\ l.id \in 1 .. lastLoad /\ l \in [id : 1 .. lastLoad', of : Fetch]
                       /\ l.of \in Fetch /\ InFlight(l.of) /\ l.of # f
  BY <1>1 DEF PageTypeOK, InFlight
<1>5. \A e : Awaited(e)' <=> e = f
  BY <1>1, <1>3, <1>4 DEF Awaited, Accepted
<1>6. doubled \in BOOLEAN
  BY DEF PageTypeOK
<1>7. /\ doubled' \in BOOLEAN
      /\ ~doubled' => \A e \in Fetch : ~(InFlight(e) /\ fetches[e].generation = g)
  BY <1>6, Zenon
<1>8. PageTypeOK'
  <2>1. loads' \subseteq [id : 1 .. lastLoad', of : Fetch] /\ \A l, k \in loads' : l.id = k.id => l = k
    BY <1>1, <1>3, <1>4 DEF PageTypeOK
  <2>2. \A l \in loads' : InFlight(l.of)'
    BY <1>1, <1>2, <1>3, <1>4 DEF InFlight
  <2>3. isLoading' \in BOOLEAN /\ loadFailed' \in BOOLEAN /\ staleHit' \in BOOLEAN
    BY <1>1 DEF PageTypeOK, Reloads
  <2> QED BY <1>1, <1>2, <1>3, <1>7, <2>1, <2>2, <2>3 DEF PageTypeOK, Reloads
<1>9. OneTip'
  <2>1. \A e \in Fetch : Tip(e)' => e = f
    BY <1>1, <1>5, BrowserAssumption DEF Tip, Reloads
  <2>2. \A e \in Fetch : ~doubled' /\ InFlight(e)' /\ fetches'[e].generation = generation' => e = f
    BY <1>2, <1>7 DEF Reloads, InFlight
  <2> HIDE DEF PageInv
  <2> QED BY <1>2, <1>5, <2>1, <2>2 DEF OneTip
<1>10. OwnChangeShown' /\ AllCovered'
  BY <1>1, <1>2, <1>5 DEF OwnChangeShown, AllCovered, Covers
<1> QED BY <1>1, <1>8, <1>9, <1>10

LEMMA LoadStarts ==
  ASSUME PageInv, BrowserInv', NEW list, NEW keep, NEW flight, NEW g,
         Reloads(list, keep, flight, g), StartLoad(list, keep, flight, g)
  PROVE  PageInv' /\ (shown' >= shown \/ staleHit' \/ doubled')
<1> DEFINE joined == IF list # NotSent THEN list ELSE IF keep # NotSent THEN keep ELSE flight
<1>1. CASE /\ joined # NotSent /\ LoadFrom(joined)
           /\ shared' = flight /\ UNCHANGED <<fetches, doubled>>
  <2>1. joined \in {list, keep, flight}
    OBVIOUS
  <2> HIDE DEF joined
  <2> QED BY <1>1, <2>1, LoadJoins
<1>2. CASE \E f \in Fetch :
             /\ joined = NotSent /\ fetches[f].at = "unsent" /\ LoadFrom(f)
             /\ shared' = f /\ fetches' = Sent(f, g)
             /\ doubled' = (doubled \/ \E e \in Fetch : InFlight(e) /\ fetches[e].generation = g)
  <2>1. list = NotSent /\ keep = NotSent /\ flight = NotSent
    BY <1>2
  <2>2. shown \in Nat
    BY DEF PageInv, PageTypeOK
  <2>3. PICK f \in Fetch :
             /\ fetches[f].at = "unsent" /\ LoadFrom(f)
             /\ shared' = f /\ fetches' = Sent(f, g)
             /\ doubled' = (doubled \/ \E e \in Fetch : InFlight(e) /\ fetches[e].generation = g)
    BY <1>2
  <2>4. Reloads(NotSent, NotSent, NotSent, g)
    BY <2>1
  <2>5. PageInv' /\ shown' = shown
    BY <2>3, <2>4, LoadSends
  <2> QED BY <2>2, <2>5
<1> QED BY <1>1, <1>2 DEF StartLoad

\* A list arrives
LEMMA ListShown ==
  ASSUME PageInv, NEW f \in Fetch, ShowList(f)
  PROVE  PageInv' /\ (shown' >= shown \/ staleHit' \/ doubled')
<1> USE DEF PageInv
<1>0. BrowserInv'
  BY GetStep DEF ShowList
<1>1. /\ fetches[f].at = "answered" /\ InFlight(f)
      /\ UNCHANGED <<version, outrun, paired, staleHit, doubled, mutations, generation, mine>>
      /\ UNCHANGED <<listed, lastLoad, loadFailed>>
      /\ shared' = NotSent /\ kept' = IF fetches[f].generation = generation THEN f ELSE kept
      /\ \A e \in Fetch : e # f => fetches'[e] = fetches[e]
      /\ fetches'[f].at = "received" /\ fetches'[f].saw = fetches[f].saw
      /\ loads' = {l \in loads : l.of # f}
  BY DEF ShowList, WaitingFor, ReceiveGet, MayKeep, serverVars, InFlight, BrowserInv, BrowserTypeOK
<1>2. Latest(f) <=> Awaited(f)
  BY DEF Latest, WaitingFor, Awaited
<1>3. /\ Awaited(f) => shown' = fetches[f].saw
      /\ ~Awaited(f) => shown' = shown
      /\ isLoading' \in BOOLEAN /\ (isLoading' => isLoading /\ ~Awaited(f))
      /\ isLoading /\ ~Awaited(f) => isLoading'
  <2>1. isLoading \in BOOLEAN
    BY DEF PageTypeOK
  <2>2. isLoading' = (isLoading /\ ~Latest(f)) /\ shown' = IF Latest(f) THEN fetches[f].saw ELSE shown
    BY DEF ShowList
  <2> QED BY <1>2, <2>1, <2>2, Zenon
<1>4. \A e : Awaited(e)' <=> Awaited(e) /\ e # f
  BY <1>1 DEF Awaited, Accepted
<1>5. /\ \A e \in Fetch : fetches[e].saw \in 0 .. version
      /\ version \in Nat /\ shown \in 0 .. version
  BY DEF BrowserInv, BrowserTypeOK, Behind, PageTypeOK
<1>6. \A e \in Fetch : InFlight(e)' <=> InFlight(e) /\ e # f
  BY <1>1 DEF InFlight
<1>7. ~staleHit /\ ~doubled => \A e \in Fetch :
        /\ Tip(e) => \A h \in Fetch : Tip(h) => h = e
        /\ Tip(e) /\ fetches[e].at \in {"answered", "received"} => fetches[e].saw >= shown
        /\ InFlight(e) /\ fetches[e].generation = generation => Awaited(e)
  BY DEF OneTip
<1>8. shown' \in 0 .. version /\ (shown' >= shown \/ staleHit' \/ doubled')
  BY <1>1, <1>3, <1>5, <1>7 DEF Tip
<1>9. PageTypeOK'
  <2>1. \A l \in loads' : l \in loads /\ InFlight(l.of)'
    BY <1>1, <1>6 DEF PageTypeOK
  <2>2. listed # NotSent => fetches'[listed].at # "unsent"
    BY <1>1 DEF PageTypeOK
  <2> QED BY <1>1, <1>3, <1>8, <2>1, <2>2 DEF PageTypeOK
<1>10. OneTip'
  <2>1. ~staleHit /\ ~doubled => \A e \in Fetch : Tip(e)' => Tip(e)
    BY <1>1, <1>4, <1>7, BrowserAssumption DEF Tip
  <2> HIDE DEF PageInv
  <2>2. ~staleHit /\ ~doubled => \A e \in Fetch : Tip(e)' /\ fetches'[e].at \in {"answered", "received"} => fetches'[e].saw >= shown'
    <3> SUFFICES ASSUME ~staleHit, ~doubled, NEW e \in Fetch, Tip(e)', fetches'[e].at \in {"answered", "received"}
                 PROVE  fetches'[e].saw >= shown'
      OBVIOUS
    <3>1. Tip(e)
      BY <2>1
    <3>2. CASE Awaited(f)
      BY <1>1, <1>3, <1>5, <1>7, <3>1, <3>2 DEF Tip
    <3>3. CASE ~Awaited(f)
      BY <1>1, <1>3, <1>7, <3>1, <3>3
    <3> QED BY <3>2, <3>3
  <2>3. ~staleHit /\ ~doubled => \A e \in Fetch : InFlight(e)' /\ fetches'[e].generation = generation' => Awaited(e)'
    BY <1>1, <1>4, <1>6, <1>7
  <2> QED BY <1>1, <1>7, <2>1, <2>2, <2>3 DEF OneTip
<1>11. \A e \in Fetch : Covers(e) => Covers(e)'
  BY <1>1 DEF Covers
<1>12. OwnChangeShown'
  <2>1. CASE Awaited(f)
    BY <1>1, <1>3, <2>1 DEF OwnChangeShown, AllCovered, Covers
  <2>2. CASE ~Awaited(f)
    BY <1>1, <1>3, <2>2 DEF OwnChangeShown
  <2> QED BY <2>1, <2>2
<1>13. AllCovered'
  BY <1>1, <1>4, <1>11 DEF AllCovered
<1> QED BY <1>0, <1>8, <1>9, <1>10, <1>12, <1>13

\* A list does not arrive
LEMMA ListFailed ==
  ASSUME PageInv, NEW f \in Fetch, ListFails(f)
  PROVE  PageInv' /\ shown' = shown
<1> USE DEF PageInv
<1>0. BrowserInv'
  BY GetStep DEF ListFails
<1>1. /\ InFlight(f) /\ listed' = NotSent /\ shared' = NotSent
      /\ UNCHANGED <<version, outrun, paired, staleHit, doubled, mutations, generation, mine>>
      /\ UNCHANGED <<kept, lastLoad, shown>>
      /\ \A e \in Fetch : e # f => fetches'[e] = fetches[e]
      /\ fetches'[f].at = "unsent"
      /\ loads' = {l \in loads : l.of # f}
  BY DEF ListFails, WaitingFor, FailGet, serverVars, Unsent, BrowserInv, BrowserTypeOK
<1>2. Latest(f) <=> Awaited(f)
  BY DEF Latest, WaitingFor, Awaited
<1>3. /\ isLoading' \in BOOLEAN /\ loadFailed' \in BOOLEAN
      /\ ~isLoading' /\ ~loadFailed' => ~isLoading /\ ~loadFailed
  <2>1. isLoading \in BOOLEAN /\ loadFailed \in BOOLEAN
    BY DEF PageTypeOK
  <2>2. isLoading' = (isLoading /\ ~Latest(f)) /\ loadFailed' = (loadFailed \/ Latest(f))
    BY DEF ListFails
  <2> QED BY <2>1, <2>2, Zenon
<1>4. \A e : Awaited(e)' <=> Awaited(e) /\ e # f
  BY <1>1 DEF Awaited, Accepted
<1>5. \A e \in Fetch : InFlight(e)' <=> InFlight(e) /\ e # f
  BY <1>1 DEF InFlight
<1>6. PageTypeOK'
  <2>1. \A l \in loads' : l \in loads /\ InFlight(l.of)'
    BY <1>1, <1>5 DEF PageTypeOK
  <2> QED BY <1>1, <1>3, <2>1 DEF PageTypeOK
<1>7. \A e \in Fetch : Tip(e)' => Tip(e) /\ e # f
  <2>1. kept # f
    BY <1>1, BrowserAssumption DEF BrowserInv, Joinable, InFlight
  <2> QED BY <1>1, <1>4, <2>1, BrowserAssumption DEF Tip
<1>8. OneTip'
  BY <1>1, <1>4, <1>5, <1>7 DEF OneTip
<1>9. OwnChangeShown'
  BY <1>1, <1>3 DEF OwnChangeShown
<1>10. AllCovered'
  BY <1>1, <1>4, BrowserAssumption DEF AllCovered, Covers
<1> QED BY <1>0, <1>1, <1>6, <1>8, <1>9, <1>10

\* The end of a mutation keeps the tab's cache as it should be, a load started or not.
LEMMA AnswerKeeps ==
  ASSUME BrowserInv, NEW m \in Mutation, Answer(m), NEW list,
         StartLoad(list, KeptAfter(m), SharedAfter(m), GenerationAfter(m))
  PROVE  BrowserInv'
<1>1. CASE shared' = SharedAfter(m) /\ UNCHANGED fetches
  BY <1>1, MutationAnswered
<1>2. CASE \E f \in Fetch : /\ fetches[f].at = "unsent" /\ KeptAfter(m) = NotSent
                            /\ shared' = f /\ fetches' = Sent(f, GenerationAfter(m))
  BY <1>2, MutationAnswered
<1> QED BY <1>1, <1>2 DEF StartLoad

\* What an answer does to the caches
LEMMA AfterAnswer ==
  ASSUME BrowserInv, NEW m \in Mutation, Answer(m)
  PROVE  /\ KeptAfter(m) \in {kept, NotSent} /\ SharedAfter(m) \in {shared, NotSent}
         /\ kept' = KeptAfter(m) /\ generation' = GenerationAfter(m)
         /\ \/ GenerationAfter(m) = generation
            \/ /\ GenerationAfter(m) = generation + 1
               /\ KeptAfter(m) = NotSent /\ SharedAfter(m) = NotSent
         /\ ~paired => KeptAfter(m) = NotSent /\ SharedAfter(m) = NotSent
         /\ UNCHANGED <<version, outrun, paired>>
         /\ \A n \in Mutation : mutations'[n].made = mutations[n].made
         /\ \A n \in Mutation : mutations[n].at = "received" => mutations'[n] = mutations[n]
         /\ mutations'[m].at = "received"
<1>1. /\ mutations[m].at = "committed" /\ mutations' = [mutations EXCEPT ![m].at = "received"]
      /\ kept' = KeptAfter(m) /\ generation' = GenerationAfter(m)
      /\ UNCHANGED <<version, outrun, paired>>
  BY DEF Answer, serverVars
<1>2. ~paired => Invalidates(m)
  BY <1>1 DEF BrowserInv, Alone, UnderWay, Invalidates
<1> QED BY <1>1, <1>2 DEF KeptAfter, SharedAfter, GenerationAfter, BrowserInv, BrowserTypeOK

LEMMA PageStep ==
  ASSUME PageInv, [PageNext]_wvars
  PROVE  PageInv' /\ [shown' >= shown \/ staleHit' \/ doubled']_wvars
<1>0. shown \in Nat /\ BrowserInv /\ PageTypeOK
  BY DEF PageInv, PageTypeOK
<1> SUFFICES PageInv' /\ (shown' >= shown \/ staleHit' \/ doubled')
  OBVIOUS
<1>1. CASE OpenPage
  <2>1. /\ StartLoad(listed, kept, shared, generation)
        /\ UNCHANGED <<serverVars, mutations, generation, kept, paired, mine, staleHit>>
    BY <1>1 DEF OpenPage
  <2>2. Reloads(listed, kept, shared, generation)
    BY <1>0, <2>1 DEF Reloads, serverVars, PageTypeOK
  <2>3. BrowserInv'
    <3>1. CASE \E f \in Fetch : SendGet(f)
      BY <1>0, <3>1, GetStep
    <3>2. CASE UNCHANGED bvars
      BY <1>0, <3>2, AnswerExpires
    <3> QED BY <2>1, <3>1, <3>2 DEF StartLoad, SendGet, bvars, tabVars
  <2> QED BY <2>1, <2>2, <2>3, LoadStarts
<1>2. CASE ListExpires \/ UNCHANGED wvars
  <2>1. BrowserInv'
    BY <1>0, <1>2, AnswerExpires DEF ListExpires, wvars
  <2> QED BY <1>0, <1>2, <2>1, PageKept
    DEF ListExpires, wvars, pageVars, bvars, serverVars, tabVars, BrowserInv, BrowserTypeOK, PageTypeOK
<1>3. ASSUME NEW f \in Fetch, ServeFromEntry(f) PROVE PageInv' /\ shown' = shown
  <2>1. BrowserInv'
    BY <1>0, <1>3, GetStep DEF ServeFromEntry
  <2>2. /\ UNCHANGED <<version, outrun, paired, mutations, generation, kept, shared>>
        /\ UNCHANGED <<listed, loads, lastLoad, shown, isLoading, loadFailed, mine, doubled>>
        /\ fetches[f].at = "sent" /\ fetches'[f].at = "answered" /\ stored # 0
        /\ fetches'[f].saw = stored /\ fetches'[f].generation = fetches[f].generation
        /\ \A e \in Fetch : e # f => fetches'[e] = fetches[e]
    BY <1>0, <1>3 DEF ServeFromEntry, ServerHit, serverVars, BrowserInv, BrowserTypeOK
  <2>3. staleHit' \in BOOLEAN /\ (staleHit => staleHit') /\ (~staleHit' => ~(stored < version))
    BY <1>0, <1>3, Zenon DEF ServeFromEntry, PageTypeOK
  <2>4. AnswersWell(f)
    <3>1. ~staleHit' => stored >= shown
      BY <1>0, <2>3 DEF BrowserInv, BrowserTypeOK, PageTypeOK
    <3>2. ~paired /\ ~outrun => \A m \in mine : stored >= mutations[m].made
      BY <1>0, <2>2 DEF BrowserInv, ServerFresh, AnsweredAfterReset, PageTypeOK
    <3> QED BY <2>2, <3>1, <3>2 DEF AnswersWell
  <2> QED BY <1>0, <2>1, <2>2, <2>3, <2>4, PageKept DEF BrowserInv, BrowserTypeOK
<1>4. ASSUME NEW f \in Fetch, ServerRead(f), UNCHANGED pageVars PROVE PageInv' /\ shown' = shown
  <2>1. BrowserInv'
    BY <1>0, <1>4, GetStep
  <2>2. /\ UNCHANGED <<version, outrun, paired, mutations, generation, kept, shared>>
        /\ fetches[f].at = "sent" /\ fetches'[f].at = "answered"
        /\ fetches'[f].saw = version /\ fetches'[f].generation = fetches[f].generation
        /\ \A e \in Fetch : e # f => fetches'[e] = fetches[e]
    BY <1>0, <1>4 DEF ServerRead, BrowserInv, BrowserTypeOK
  <2>3. AnswersWell(f)
    <3>1. version >= shown /\ \A m \in mine : version >= mutations[m].made
      BY <1>0 DEF PageTypeOK, BrowserInv, Behind, BrowserTypeOK
    <3> QED BY <2>2, <3>1 DEF AnswersWell
  <2> QED BY <1>0, <1>4, <2>1, <2>2, <2>3, PageKept DEF pageVars, BrowserInv, BrowserTypeOK, PageTypeOK
<1>5. ASSUME NEW m \in Mutation, SendMutation(m) \/ Commit(m), UNCHANGED pageVars
      PROVE  PageInv' /\ shown' = shown
  <2>1. BrowserInv'
    BY <1>0, <1>5, MutationStep
  <2>2. /\ UNCHANGED <<outrun, fetches, generation, kept, shared>> /\ mutations[m].at # "received"
        /\ \A n \in Mutation : n # m => mutations'[n] = mutations[n]
        /\ version' >= version
    BY <1>0, <1>5 DEF SendMutation, Commit, Committed, serverVars, BrowserInv, BrowserTypeOK
  <2>3. paired => paired'
    BY <1>0, <1>5, CrossedSet DEF Commit, BrowserInv
  <2>4. \A n \in mine : mutations'[n] = mutations[n]
    BY <1>0, <2>2 DEF PageTypeOK
  <2> QED BY <1>0, <1>5, <2>1, <2>2, <2>3, <2>4, PageKept DEF pageVars, BrowserInv, BrowserTypeOK, PageTypeOK
<1>6. ASSUME Surroundings, UNCHANGED pageVars,
             ~(\E f \in Fetch : ServerRead(f)), ~(\E m \in Mutation : SendMutation(m) \/ Commit(m))
      PROVE  PageInv' /\ shown' = shown
  <2>1. BrowserInv'
    BY <1>0, <1>6, SurroundingsKeep
  <2>2. /\ UNCHANGED <<fetches, mutations, generation, shared, paired>> /\ kept' \in {kept, NotSent}
        /\ version' >= version
    BY <1>0, <1>6 DEF Surroundings, OthersChange, Committed, ReadElsewhere, EntryExpires, Expire, ResetServer,
                      ResetLost, StoreEntry, tabVars, serverVars, BrowserInv, BrowserTypeOK
  <2>3. outrun => outrun'
    <3>1. ASSUME NEW v, ResetServer(v) PROVE outrun => outrun'
      BY <1>0, <3>1, OutrunSet DEF BrowserInv
    <3>2. ASSUME NEW v, ResetLost(v) PROVE outrun'
      BY <3>2 DEF ResetLost
    <3>3. CASE OthersChange \/ ReadElsewhere \/ EntryExpires \/ Expire \/ \E v \in storing : StoreEntry(v)
      BY <3>3 DEF OthersChange, ReadElsewhere, EntryExpires, Expire, StoreEntry, serverVars
    <3> QED BY <1>6, <3>1, <3>2, <3>3 DEF Surroundings
  <2> QED BY <1>0, <1>6, <2>1, <2>2, <2>3, PageKept DEF pageVars, BrowserInv, BrowserTypeOK, PageTypeOK
<1>7. ASSUME NEW m \in Mutation, AnswerSave(m) \/ AnswerKept(m)
      PROVE  PageInv' /\ (shown' >= shown \/ staleHit' \/ doubled')
  <2>1. PICK list : /\ list \in {listed, NotSent} /\ Answer(m)
                    /\ StartLoad(list, KeptAfter(m), SharedAfter(m), GenerationAfter(m))
                    /\ staleHit' = staleHit
                    /\ mine' = mine \/ (list = NotSent /\ mine' = mine \cup {m})
    BY <1>7 DEF AnswerSave, AfterSave, AnswerKept
  <2>2. Reloads(list, KeptAfter(m), SharedAfter(m), GenerationAfter(m))
    BY <1>0, <2>1, AfterAnswer DEF Reloads, PageTypeOK
  <2>3. BrowserInv'
    BY <1>0, <2>1, AnswerKeeps
  <2> QED BY <2>1, <2>2, <2>3, LoadStarts
<1>8. ASSUME NEW m \in Mutation, AnswerElsewhere(m) PROVE PageInv' /\ shown' = shown
  <2>1. BrowserInv'
    BY <1>0, <1>8, MutationAnswered DEF AnswerElsewhere, ReceiveMutation
  <2>2. Answer(m) /\ shared' = SharedAfter(m) /\ UNCHANGED <<fetches, pageVars>>
    BY <1>8 DEF AnswerElsewhere, ReceiveMutation
  <2>3. \A n \in mine : mutations'[n] = mutations[n]
    BY <1>0, <2>2, AfterAnswer DEF PageTypeOK
  <2> QED BY <1>0, <2>1, <2>2, <2>3, AfterAnswer, PageKept DEF pageVars, BrowserInv, BrowserTypeOK, PageTypeOK
<1> QED BY <1>0, <1>1, <1>2, <1>3, <1>4, <1>5, <1>6, <1>7, <1>8, ListShown, ListFailed DEF PageNext

LEMMA PageSafe == PageSpec => []PageInv /\ ListNeverOlder
<1>1. PageInit => PageInv
  <2> SUFFICES ASSUME PageInit PROVE PageInv
    OBVIOUS
  <2>1. isLoading \in BOOLEAN /\ loadFailed \in BOOLEAN /\ staleHit \in BOOLEAN /\ doubled \in BOOLEAN
        /\ ~isLoading
    BY Zenon DEF PageInit
  <2>2. /\ BrowserInit /\ listed = NotSent /\ loads = {} /\ lastLoad = 0 /\ shown = 0 /\ mine = {}
        /\ kept = NotSent /\ shared = NotSent /\ version = 1 /\ \A f \in Fetch : fetches[f].at = "unsent"
    BY DEF PageInit, BrowserInit, Unsent
  <2>3. BrowserInv
    BY <2>2, BrowserStarts
  <2>4. PageTypeOK
    BY <2>1, <2>2 DEF PageTypeOK
  <2>5. OneTip
    BY <2>2, BrowserAssumption DEF OneTip, Tip, Awaited, InFlight
  <2> QED BY <2>2, <2>3, <2>4, <2>5, BrowserAssumption DEF PageInv, OwnChangeShown, AllCovered, Awaited
<1>2. PageInv /\ [PageNext]_wvars => PageInv' /\ [shown' >= shown \/ staleHit' \/ doubled']_wvars
  BY PageStep
<1> QED BY <1>1, <1>2, PTL DEF PageSpec, ListNeverOlder

\* loadData(): for any number of loads, the list shown is not replaced by an older one,
\* unless the server answered from an entry that a change had outdated or the tab asked
\* again while a request as new was in flight.
THEOREM NewestListWins == PageSpec => ListNeverOlder
BY PageSafe, PTL

\* fetchAllPages() over both caches: a loaded list holds the page's own changes that
\* cleared the service's, unless changes of the tab overlapped or the server's cache was
\* not cleared in time.
THEOREM OwnChangesAppear == PageSpec => []OwnChangeShown
<1>1. PageInv => OwnChangeShown
  BY DEF PageInv
<1> QED BY <1>1, PageSafe, PTL

-----------------------------------------------------------------------------
(* Dialogs *)

\* An open revision dialog holds what its target needs
FilledForTarget == dialogOpen => contextOf = target

\* A reader that works alone reads the file chosen
OneReader == ~mixed /\ batchFile # None => readers \subseteq {batchFile}

DialogsInv == RevisionsGoWhereMeant /\ FilledForTarget /\ PreviewOfFile /\ OneReader

LEMMA DialogsSafe == DialogsSpec => []DialogsInv
<1> USE DEF DialogsInv, RevisionsGoWhereMeant, FilledForTarget, PreviewOfFile, OneReader, MayUploadBatch
<1>1. DialogsInit => DialogsInv
  BY DEF DialogsInit
<1>2. ASSUME DialogsInv, [DialogsNext]_<<dialogVars, batchVars>> PROVE DialogsInv'
  <2>1. CASE \/ CloseRevisions \/ \E d \in Doc : AskRevisions(d) \/ ShowRevisions(d)
             \/ UNCHANGED <<dialogVars, batchVars>>
    BY <1>2, <2>1 DEF CloseRevisions, AskRevisions, TargetAtClick, ShowRevisions, dialogVars, batchVars
  <2>2. CASE UploadRevision
    BY <1>2, <2>2 DEF UploadRevision, batchVars
  <2>3. CASE \E u \in uploads : RevisionUploaded(u) \/ UploadFails(u)
    BY <1>2, <2>3 DEF RevisionUploaded, OpenAfterUpload, UploadFails, batchVars
  <2>4. CASE RejectFile \/ \E f \in Workbook : FailRead(f)
    BY <1>2, <2>4 DEF RejectFile, FailRead, ChosenAfterFailure, dialogVars
  <2>5. ASSUME NEW f \in Workbook, ChooseFile(f) PROVE DialogsInv'
    <3>1. ~mixed' => readers = {}
      BY <2>5 DEF ChooseFile
    <3> QED BY <1>2, <2>5, <3>1 DEF ChooseFile, dialogVars
  <2>6. ASSUME NEW f \in Workbook, ReadFile(f) PROVE DialogsInv'
    BY <1>2, <2>6 DEF ReadFile, dialogVars
  <2> QED BY <1>2, <2>1, <2>2, <2>3, <2>4, <2>5, <2>6 DEF DialogsNext
<1> QED BY <1>1, <1>2, PTL DEF DialogsSpec

\* uploadRevision(), onBatchFileSelected(), uploadBatchHardcopy(): in whatever order
\* answers and files come, a revision goes to the document it was made for, and a batch is
\* the workbook shown, once its reader is done, if it was chosen while no other was at work.
THEOREM DialogsShowWhatIsSent == DialogsSpec => []DialogsAgree
<1>1. DialogsInv => DialogsAgree
  BY DEF DialogsInv, DialogsAgree
<1> QED BY <1>1, DialogsSafe, PTL

-----------------------------------------------------------------------------
(* The server's cache *)

\* A bound on what is out of date stays one when time passes and when changes commit.
LEMMA WithinKept ==
  ASSUME CacheTypeOK, NEW saw \in Nat, NEW t \in Nat, NEW d \in Nat, Within(saw, t, d),
         \/ time' \in Nat /\ time' >= time /\ ended' = ended
         \/ time' = time /\ ended' = Append(ended, time)
  PROVE  /\ t =< time' + d
         /\ saw < Len(ended') => t =< ended'[saw + 1] + d
<1>1. time \in Nat /\ ended \in Seq(Nat) /\ t =< time + d
      /\ (saw < Len(ended) => t =< ended[saw + 1] + d)
  BY DEF CacheTypeOK, Within, Current
<1>2. CASE time' \in Nat /\ time' >= time /\ ended' = ended
  <2>1. \A u, v \in Nat : t =< u + d /\ u =< v => t =< v + d
    OBVIOUS
  <2>2. t =< time' + d
    BY <1>1, <1>2, <2>1
  <2> QED BY <1>1, <1>2, <2>2
<1>3. CASE time' = time /\ ended' = Append(ended, time)
  <2>1. Len(ended') = Len(ended) + 1
    BY <1>1, <1>3
  <2>2. CASE saw < Len(ended)
    BY <1>1, <1>3, <2>1, <2>2
  <2>3. CASE saw = Len(ended)
    BY <1>1, <1>3, <2>1, <2>3
  <2> QED BY <1>1, <1>3, <2>1, <2>2, <2>3
<1> QED BY <1>2, <1>3

\* A longer bound is a bound too, and so is one on something earlier.
LEMMA WithinLonger ==
  ASSUME CacheTypeOK, NEW saw \in Nat, NEW t \in Nat, NEW d \in Nat, Within(saw, t, d),
         NEW u \in Nat, NEW e \in Nat, u + d =< t + e
  PROVE  Within(saw, u, e)
<1>1. time \in Nat /\ ended \in Seq(Nat)
  BY DEF CacheTypeOK
<1>2. saw < Len(ended) => ended[saw + 1] \in Nat
  BY <1>1
<1> QED BY <1>1, <1>2 DEF Within, Current

LEMMA CacheParts ==
  ASSUME CacheTypeOK
  PROVE  /\ \A k \in Key : cached[k].saw \in Nat /\ cached[k].until \in Nat
         /\ "auth:user" \in Key /\ "http:user" \in Key /\ answer.saw \in Nat /\ answer.at \in Nat
         /\ \A g \in Get : gets[g].saw \in Nat /\ gets[g].since \in Nat
         /\ TTL \in Nat /\ Longest \in Nat /\ Life \in Nat /\ 2 * Life \in Nat
         /\ Life = TTL + Longest /\ time \in Nat /\ Current \in Nat
BY CacheAssumption DEF CacheTypeOK, Key, Life, Current

\* Only the entries, the answer and the requests that change can break the bounds.
LEMMA CacheKept ==
  ASSUME CacheInv,
         \/ time' \in Nat /\ time' >= time /\ ended' = ended
         \/ time' = time /\ ended' = Append(ended, time)
  PROVE  /\ \A k \in Key : cached'[k] = cached[k] =>
              Within(cached[k].saw, cached[k].until, IF k = "auth:user" THEN Life ELSE 2 * Life)'
         /\ answer' = answer => Within(answer.saw, answer.at, 2 * Life)'
         /\ \A g \in Get : gets'[g] = gets[g] =>
              /\ gets[g].at = "read" => Within(gets[g].saw, gets[g].since, 0)'
              /\ gets[g].at \in {"known", "handled"} => Within(gets[g].saw, gets[g].since, Life)'
<1>1. CacheTypeOK /\ InTime
  BY DEF CacheInv
<1>2. ASSUME NEW k \in Key, cached'[k] = cached[k]
      PROVE  Within(cached[k].saw, cached[k].until, IF k = "auth:user" THEN Life ELSE 2 * Life)'
  <2> DEFINE d == IF k = "auth:user" THEN Life ELSE 2 * Life
  <2>1. PICK saw \in Nat, t \in Nat : saw = cached[k].saw /\ t = cached[k].until
    BY <1>1, CacheParts
  <2>2. d \in Nat /\ Within(saw, t, d)
    BY <1>1, <2>1, CacheParts DEF InTime, Key
  <2> HIDE DEF d
  <2>3. t =< time' + d /\ (saw < Len(ended') => t =< ended'[saw + 1] + d)
    BY <1>1, <2>2, WithinKept
  <2>4. saw = cached'[k].saw /\ t = cached'[k].until
    BY <1>2, <2>1
  <2> QED BY <2>3, <2>4 DEF Within, Current, d, Life
<1>3. ASSUME answer' = answer
      PROVE  Within(answer.saw, answer.at, 2 * Life)'
  <2>1. PICK saw \in Nat, t \in Nat : saw = answer.saw /\ t = answer.at
    BY <1>1, CacheParts
  <2>2. t =< time' + 2 * Life /\ (saw < Len(ended') => t =< ended'[saw + 1] + 2 * Life)
    BY <1>1, <2>1, WithinKept, CacheParts DEF InTime
  <2> QED BY <1>3, <2>1, <2>2 DEF Within, Current, Life
<1>4. ASSUME NEW g \in Get, gets'[g] = gets[g]
      PROVE  /\ gets[g].at = "read" => Within(gets[g].saw, gets[g].since, 0)'
             /\ gets[g].at \in {"known", "handled"} => Within(gets[g].saw, gets[g].since, Life)'
  <2>1. PICK saw \in Nat, t \in Nat : saw = gets[g].saw /\ t = gets[g].since
    BY <1>1, CacheParts
  <2>2. ASSUME NEW d \in Nat, Within(saw, t, d)
        PROVE  t =< time' + d /\ (saw < Len(ended') => t =< ended'[saw + 1] + d)
    BY <1>1, <2>2, WithinKept
  <2>3. saw = gets'[g].saw /\ t = gets'[g].since
    BY <1>4, <2>1
  <2> QED BY <1>1, <2>1, <2>2, <2>3, CacheParts DEF InTime, Within, Current, Life
<1> QED BY <1>2, <1>3, <1>4

\* A request that goes on keeps the time it came.
LEMMA GetMoves ==
  ASSUME CacheTypeOK, NEW g \in Get, NEW saw \in Nat,
         NEW at \in {"quiet", "guard", "read", "known", "handled"}, Move(g, at, saw)
  PROVE  /\ gets' \in [Get -> [at : {"quiet", "guard", "read", "known", "handled"},
                               saw : Nat, since : Nat]]
         /\ gets'[g].at = at /\ gets'[g].saw = saw /\ gets'[g].since = gets[g].since
         /\ \A h \in Get : h # g => gets'[h] = gets[h]
<1> DEFINE G == [at : {"quiet", "guard", "read", "known", "handled"}, saw : Nat, since : Nat]
           moved == [gets EXCEPT ![g].at = at]
<1>1. gets \in [Get -> G] /\ gets[g] \in G
  BY DEF CacheTypeOK
<1>2. [gets[g] EXCEPT !.at = at] \in G /\ [gets[g] EXCEPT !.at = at].at = at
      /\ [gets[g] EXCEPT !.at = at].since = gets[g].since
  BY <1>1
<1>3. /\ moved \in [Get -> G] /\ moved[g] = [gets[g] EXCEPT !.at = at]
      /\ \A h \in Get : h # g => moved[h] = gets[h]
  BY <1>1, <1>2
<1>4. gets' = [moved EXCEPT ![g].saw = saw]
  BY DEF Move
<1> HIDE DEF moved
<1>5. /\ [moved[g] EXCEPT !.saw = saw] \in G /\ [moved[g] EXCEPT !.saw = saw].at = at
      /\ [moved[g] EXCEPT !.saw = saw].saw = saw
      /\ [moved[g] EXCEPT !.saw = saw].since = gets[g].since
  BY <1>2, <1>3
<1> QED BY <1>3, <1>4, <1>5

\* A request goes on and no change commits: the bounds hold if its own does.
LEMMA MoveInv ==
  ASSUME CacheInv, NEW g \in Get, NEW saw \in Nat, NEW at \in {"read", "known", "handled"},
         Move(g, at, saw), UNCHANGED <<time, ended, pending, answer, late>>,
         gets[g].at # "quiet",
         cached' \in [Key -> [saw : Nat, until : Nat]],
         \A k \in Key : cached'[k] # cached[k] =>
           /\ k = "auth:user" /\ cached'[k].saw = saw
           /\ Within(cached[k].saw, cached[k].until, Life)',
         saw < Current => pending > 0 \/ late,
         Within(saw, gets[g].since, IF at = "read" THEN 0 ELSE Life)
  PROVE  CacheInv'
<1>1. CacheTypeOK /\ StaleOnlyByRace /\ ReadStaleByRace /\ InTime
  BY DEF CacheInv
<1>2. CacheTypeOK'
  BY <1>1, GetMoves DEF CacheTypeOK
<1>3. StaleOnlyByRace'
  BY <1>1 DEF StaleOnlyByRace, Unexpired, Current
<1>4. ReadStaleByRace'
  BY <1>1, GetMoves DEF ReadStaleByRace, Current
<1>10. time' \in Nat /\ time' >= time /\ ended' = ended
  BY <1>1, CacheParts
<1>11. /\ \A k \in Key : cached'[k] = cached[k] =>
            Within(cached[k].saw, cached[k].until, IF k = "auth:user" THEN Life ELSE 2 * Life)'
       /\ \A h \in Get : gets'[h] = gets[h] =>
            /\ gets[h].at = "read" => Within(gets[h].saw, gets[h].since, 0)'
            /\ gets[h].at \in {"known", "handled"} => Within(gets[h].saw, gets[h].since, Life)'
  BY <1>10, CacheKept
<1>5. ASSUME NEW k \in Key
      PROVE  Within(cached[k].saw, cached[k].until, IF k = "auth:user" THEN Life ELSE 2 * Life)'
  <2>1. CASE cached'[k] = cached[k]
    BY <1>11, <2>1
  <2>2. CASE cached'[k] # cached[k]
    <3>1. k = "auth:user" /\ Within(cached[k].saw, cached[k].until, Life)'
      BY <2>2
    <3> QED BY <3>1
  <2> QED BY <2>1, <2>2
<1>6. Within(answer.saw, answer.at, 2 * Life)'
  BY <1>1, CacheKept, CacheParts
<1>7. ASSUME NEW h \in Get
      PROVE  /\ gets'[h].at # "quiet" => gets'[h].since =< time' /\ time' =< gets'[h].since + Longest
             /\ gets'[h].at = "read" => Within(gets[h].saw, gets[h].since, 0)'
             /\ gets'[h].at \in {"known", "handled"} => Within(gets[h].saw, gets[h].since, Life)'
  <2>1. CASE h = g
    BY <1>1, <2>1, GetMoves DEF Within, Current, InTime, Life
  <2>2. CASE h # g
    <3>1. gets'[h] = gets[h]
      BY <1>1, <2>2, GetMoves
    <3>2. gets[h].at # "quiet" => gets[h].since =< time /\ time =< gets[h].since + Longest
      BY <1>1 DEF InTime
    <3>3. /\ gets[h].at = "read" => Within(gets[h].saw, gets[h].since, 0)'
          /\ gets[h].at \in {"known", "handled"} => Within(gets[h].saw, gets[h].since, Life)'
      BY <1>11, <3>1
    <3> QED BY <3>1, <3>2, <3>3
  <2> QED BY <2>1, <2>2
<1>8. InTime'
  <2>1. /\ Within(cached["auth:user"].saw, cached["auth:user"].until, Life)'
        /\ Within(cached["http:user"].saw, cached["http:user"].until, 2 * Life)'
    BY <1>1, <1>5, CacheParts
  <2> QED BY <1>6, <1>7, <2>1 DEF InTime
<1> QED BY <1>2, <1>3, <1>4, <1>8 DEF CacheInv

LEMMA GuardInv == ASSUME CacheInv, NEW g \in Get, Guard(g) PROVE CacheInv'
<1>1. CacheTypeOK /\ StaleOnlyByRace /\ InTime
  BY DEF CacheInv
<1>2. gets[g].at = "guard" /\ UNCHANGED <<time, ended, pending, cached, answer, late>>
  BY DEF Guard
<1>3. gets[g].since =< time /\ gets[g].since \in Nat
  BY <1>1, <1>2, CacheParts DEF InTime
<1>4. CASE Unexpired("auth:user")
  <2>1. PICK saw \in Nat, until \in Nat :
          saw = cached["auth:user"].saw /\ until = cached["auth:user"].until
    BY <1>1, CacheParts
  <2>2. Move(g, "known", saw) /\ until > time
    BY <1>4, <2>1 DEF Guard, Unexpired
  <2>3. Within(saw, until, Life)
    BY <1>1, <2>1 DEF InTime
  <2>4. Within(saw, gets[g].since, Life)
    BY <1>1, <1>3, <2>2, <2>3, WithinLonger, CacheParts
  <2>5. saw < Current => pending > 0 \/ late
    BY <1>1, <1>4, <2>1, CacheParts DEF StaleOnlyByRace
  <2>6. cached' \in [Key -> [saw : Nat, until : Nat]]
    BY <1>1, <1>2 DEF CacheTypeOK
  <2> QED BY <1>2, <2>2, <2>4, <2>5, <2>6, MoveInv
<1>5. CASE ~Unexpired("auth:user")
  <2>1. Move(g, "read", Current) /\ Current \in Nat
    BY <1>1, <1>5, CacheParts DEF Guard
  <2>2. Within(Current, gets[g].since, 0) /\ ~(Current < Current)
    BY <1>1, <1>3, <2>1, CacheParts DEF Within
  <2>3. cached' \in [Key -> [saw : Nat, until : Nat]]
    BY <1>1, <1>2 DEF CacheTypeOK
  <2> QED BY <1>2, <2>1, <2>2, <2>3, MoveInv
<1> QED BY <1>4, <1>5

LEMMA StoreUserInv == ASSUME CacheInv, NEW g \in Get, StoreUser(g) PROVE CacheInv'
<1>1. CacheTypeOK /\ ReadStaleByRace /\ InTime
  BY DEF CacheInv
<1>2. PICK saw \in Nat, since \in Nat : saw = gets[g].saw /\ since = gets[g].since
  BY <1>1, CacheParts
<1>3. /\ gets[g].at = "read" /\ Move(g, "known", saw) /\ UNCHANGED <<time, ended, pending, answer, late>>
      /\ cached' = [cached EXCEPT !["auth:user"] = [saw |-> saw, until |-> time + TTL]]
  BY <1>2 DEF StoreUser, Store
<1>4. since =< time /\ time =< since + Longest /\ Within(saw, since, 0)
  BY <1>1, <1>2, <1>3 DEF InTime
<1>5. Within(saw, since, Life) /\ Within(saw, time + TTL, Life)
  <2>1. time + TTL \in Nat /\ since + 0 =< since + Life /\ (time + TTL) + 0 =< since + Life
    BY <1>1, <1>4, CacheParts
  <2> QED BY <1>1, <1>4, <2>1, WithinLonger, CacheParts
<1>6. /\ cached' \in [Key -> [saw : Nat, until : Nat]]
      /\ \A k \in Key : cached'[k] # cached[k] =>
           k = "auth:user" /\ cached'[k].saw = saw /\ cached'[k].until = time + TTL
  <2>1. [saw |-> saw, until |-> time + TTL] \in [saw : Nat, until : Nat]
    BY <1>1, CacheParts
  <2> QED BY <1>1, <1>3, <2>1 DEF CacheTypeOK
<1>7. \A k \in Key : cached'[k] # cached[k] => Within(cached[k].saw, cached[k].until, Life)'
  BY <1>3, <1>5, <1>6 DEF Within, Current, Life
<1>8. saw < Current => pending > 0 \/ late
  BY <1>1, <1>2, <1>3 DEF ReadStaleByRace
<1> QED BY <1>2, <1>3, <1>5, <1>6, <1>7, <1>8, MoveInv

LEMMA HandleInv == ASSUME CacheInv, NEW g \in Get, Handle(g) PROVE CacheInv'
<1>1. CacheTypeOK /\ ReadStaleByRace /\ InTime
  BY DEF CacheInv
<1>2. PICK saw \in Nat : saw = gets[g].saw
  BY <1>1, CacheParts
<1>3. /\ gets[g].at = "known" /\ Move(g, "handled", saw)
      /\ UNCHANGED <<time, ended, pending, cached, answer, late>>
  BY <1>2 DEF Handle
<1>4. Within(saw, gets[g].since, Life) /\ (saw < Current => pending > 0 \/ late)
  BY <1>1, <1>2, <1>3 DEF InTime, ReadStaleByRace
<1>5. cached' \in [Key -> [saw : Nat, until : Nat]]
  BY <1>1, <1>3 DEF CacheTypeOK
<1> QED BY <1>3, <1>4, <1>5, MoveInv

\* A request is answered, from the cache or by its handler, which stores the answer.
LEMMA AnswerInv == ASSUME CacheInv, NEW g \in Get, Hit(g) \/ StoreAnswer(g) PROVE CacheInv'
<1>1. CacheTypeOK /\ StaleOnlyByRace /\ ReadStaleByRace /\ InTime
  BY DEF CacheInv
<1>2. /\ gets' = [gets EXCEPT ![g] = Quiet] /\ UNCHANGED <<time, ended, pending, late>>
      /\ gets[g].at \in {"known", "handled"}
  BY DEF Hit, StoreAnswer, Give
<1>3. /\ gets' \in [Get -> [at : {"quiet", "guard", "read", "known", "handled"},
                            saw : Nat, since : Nat]]
      /\ gets'[g].at = "quiet" /\ \A h \in Get : h # g => gets'[h] = gets[h]
  BY <1>1, <1>2 DEF CacheTypeOK, Quiet
<1>4. PICK saw \in Nat, since \in Nat : saw = gets[g].saw /\ since = gets[g].since
  BY <1>1, CacheParts
<1>5. /\ Within(saw, since, Life) /\ since =< time /\ time =< since + Longest
      /\ saw < Current => pending > 0 \/ late
  BY <1>1, <1>2, <1>4 DEF InTime, ReadStaleByRace
<1>6. /\ cached' \in [Key -> [saw : Nat, until : Nat]]
      /\ answer' \in [saw : Nat, at : Nat] /\ Within(answer.saw, answer.at, 2 * Life)'
      /\ \A k \in Key : cached'[k] # cached[k] =>
           /\ k = "http:user" /\ cached'[k].saw = saw
           /\ Within(cached[k].saw, cached[k].until, 2 * Life)'
  <2>1. CASE Hit(g)
    <3>1. PICK seen \in Nat, until \in Nat :
            seen = cached["http:user"].saw /\ until = cached["http:user"].until
      BY <1>1, CacheParts
    <3>2. answer' = [saw |-> seen, at |-> time] /\ cached' = cached /\ time < until
      BY <2>1, <3>1 DEF Hit, Give, Unexpired
    <3>3. Within(seen, until, 2 * Life) /\ time \in Nat
      BY <1>1, <3>1, CacheParts DEF InTime
    <3>4. Within(seen, time, 2 * Life)
      BY <1>1, <3>2, <3>3, WithinLonger, CacheParts
    <3> QED BY <1>1, <1>2, <3>2, <3>3, <3>4 DEF CacheTypeOK, Within, Current, Life
  <2>2. CASE StoreAnswer(g)
    <3>1. /\ answer' = [saw |-> saw, at |-> time]
          /\ cached' = [cached EXCEPT !["http:user"] = [saw |-> saw, until |-> time + TTL]]
      BY <1>4, <2>2 DEF StoreAnswer, Give, Store
    <3>2. Within(saw, time, 2 * Life) /\ Within(saw, time + TTL, 2 * Life) /\ time + TTL \in Nat
      <4>1. /\ time \in Nat /\ time + TTL \in Nat
            /\ time + Life =< since + 2 * Life /\ (time + TTL) + Life =< since + 2 * Life
        BY <1>1, <1>5, CacheParts
      <4> QED BY <1>1, <1>5, <4>1, WithinLonger, CacheParts
    <3>3. [saw |-> saw, until |-> time + TTL] \in [saw : Nat, until : Nat]
      BY <3>2
    <3>4. /\ cached' \in [Key -> [saw : Nat, until : Nat]]
          /\ \A k \in Key : cached'[k] # cached[k] =>
               k = "http:user" /\ cached'[k].saw = saw /\ cached'[k].until = time + TTL
      BY <1>1, <3>1, <3>3 DEF CacheTypeOK
    <3>5. answer' \in [saw : Nat, at : Nat]
      BY <1>1, <3>1, CacheParts
    <3> QED BY <1>2, <3>1, <3>2, <3>4, <3>5 DEF Within, Current, Life
  <2> QED BY <2>1, <2>2
<1>7. CacheTypeOK'
  BY <1>1, <1>2, <1>3, <1>6 DEF CacheTypeOK
<1>8. StaleOnlyByRace'
  BY <1>1, <1>2, <1>5, <1>6 DEF StaleOnlyByRace, Unexpired, Current
<1>9. ReadStaleByRace'
  BY <1>1, <1>2, <1>3 DEF ReadStaleByRace, Current
<1>10. InTime'
  <2>1. /\ Within(cached["auth:user"].saw, cached["auth:user"].until, Life)'
        /\ Within(cached["http:user"].saw, cached["http:user"].until, 2 * Life)'
    <3>1. time' \in Nat /\ time' >= time
      BY <1>1, <1>2, CacheParts
    <3> QED BY <1>2, <1>6, <3>1, CacheKept, CacheParts, <1>1
  <2>2. ASSUME NEW h \in Get
        PROVE  /\ gets'[h].at # "quiet" => gets'[h].since =< time' /\ time' =< gets'[h].since + Longest
               /\ gets'[h].at = "read" => Within(gets[h].saw, gets[h].since, 0)'
               /\ gets'[h].at \in {"known", "handled"} => Within(gets[h].saw, gets[h].since, Life)'
    <3>1. CASE h = g
      BY <1>3, <3>1
    <3>2. CASE h # g
      <4>1. gets'[h] = gets[h] /\ time' \in Nat /\ time' >= time
        BY <1>1, <1>2, <1>3, <3>2, CacheParts
      <4>2. gets[h].at # "quiet" => gets[h].since =< time /\ time =< gets[h].since + Longest
        BY <1>1 DEF InTime
      <4>3. /\ gets[h].at = "read" => Within(gets[h].saw, gets[h].since, 0)'
            /\ gets[h].at \in {"known", "handled"} => Within(gets[h].saw, gets[h].since, Life)'
        BY <1>2, <4>1, CacheKept
      <4> QED BY <1>2, <4>1, <4>2, <4>3
    <3> QED BY <3>1, <3>2
  <2> QED BY <1>6, <2>1, <2>2 DEF InTime
<1> QED BY <1>7, <1>8, <1>9, <1>10 DEF CacheInv

\* A request comes.
LEMMA ArriveInv == ASSUME CacheInv, NEW g \in Get, Arrive(g) PROVE CacheInv'
<1>1. CacheTypeOK /\ StaleOnlyByRace /\ ReadStaleByRace /\ InTime
  BY DEF CacheInv
<1>2. /\ gets' = [gets EXCEPT ![g] = [at |-> "guard", saw |-> 0, since |-> time]]
      /\ UNCHANGED <<time, ended, pending, cached, answer, late>> /\ time \in Nat /\ Longest \in Nat
  BY <1>1, CacheParts DEF Arrive
<1>3. CacheTypeOK'
  BY <1>1, <1>2 DEF CacheTypeOK
<1>4. gets'[g].at = "guard" /\ gets'[g].since = time /\ \A h \in Get : h # g => gets'[h] = gets[h]
  BY <1>1, <1>2 DEF CacheTypeOK
<1>5. StaleOnlyByRace' /\ ReadStaleByRace'
  BY <1>1, <1>2, <1>4 DEF StaleOnlyByRace, ReadStaleByRace, Unexpired, Current
<1>6. InTime'
  <2>1. time =< time /\ time =< time + Longest
    BY <1>2
  <2> QED BY <1>1, <1>2, <1>4, <2>1 DEF InTime, Within, Current, Life
<1> QED BY <1>3, <1>5, <1>6 DEF CacheInv

\* A change commits; a reset comes or fails; time passes.
LEMMA SurroundingsInv == ASSUME CacheInv, Change \/ Reset \/ ResetFails \/ Tick PROVE CacheInv'
<1>1. CacheTypeOK /\ StaleOnlyByRace /\ ReadStaleByRace /\ InTime
  BY DEF CacheInv
<1>2. UNCHANGED <<gets, answer>> /\ pending \in Nat /\ time \in Nat
  BY <1>1 DEF Change, Reset, ResetFails, Tick, CacheTypeOK
<1>3. \/ time' \in Nat /\ time' >= time /\ ended' = ended
      \/ time' = time /\ ended' = Append(ended, time)
  BY <1>2 DEF Change, Reset, ResetFails, Tick
<1>4. cached' = cached \/ (Reset /\ cached' = Emptied)
  BY DEF Change, Reset, ResetFails, Tick
<1>5. CacheTypeOK'
  <2>1. Emptied \in [Key -> [saw : Nat, until : Nat]]
    BY DEF Emptied, NoEntry
  <2>2. pending' \in Nat
    BY <1>1 DEF Change, Reset, ResetFails, Tick, CacheTypeOK
  <2>3. late' \in BOOLEAN
    <3>1. late \in BOOLEAN
      BY <1>1 DEF CacheTypeOK
    <3>2. CASE Reset
      BY <3>2, Zenon DEF Reset
    <3>3. CASE ResetFails
      BY <3>3, Zenon DEF ResetFails
    <3>4. CASE Change \/ Tick
      BY <3>1, <3>4, Zenon DEF Change, Tick
    <3> QED BY <3>2, <3>3, <3>4
  <2>4. time' \in Nat /\ ended' \in Seq(Nat)
    <3>1. ended \in Seq(Nat)
      BY <1>1 DEF CacheTypeOK
    <3>2. Append(ended, time) \in Seq(Nat)
      BY <1>2, <3>1
    <3> QED BY <1>2, <1>3, <3>1, <3>2
  <2> QED BY <1>1, <1>2, <1>4, <2>1, <2>2, <2>3, <2>4 DEF CacheTypeOK
<1>6. StaleOnlyByRace' /\ ReadStaleByRace'
  <2>1. CASE Change
    <3>1. pending' > 0
      BY <1>2, <2>1 DEF Change
    <3> QED BY <3>1 DEF StaleOnlyByRace, ReadStaleByRace
  <2>2. CASE Reset
    <3>1. \A k \in Key : ~Unexpired(k)'
      BY <1>2, <2>2 DEF Reset, Emptied, NoEntry, Unexpired
    <3>2. ReadStaleByRace'
      BY <1>2, <2>2 DEF Reset, ReadStaleByRace, Current
    <3> QED BY <3>1, <3>2 DEF StaleOnlyByRace
  <2>3. CASE ResetFails
    BY <2>3 DEF ResetFails, StaleOnlyByRace, ReadStaleByRace
  <2>4. CASE Tick
    <3>1. \A k \in Key : Unexpired(k)' => Unexpired(k)
      BY <1>1, <2>4, CacheParts DEF Tick, Unexpired
    <3> QED BY <1>1, <2>4, <3>1 DEF Tick, StaleOnlyByRace, ReadStaleByRace, Current
  <2> QED BY <2>1, <2>2, <2>3, <2>4
<1>7. ASSUME NEW k \in Key
      PROVE  Within(cached[k].saw, cached[k].until, IF k = "auth:user" THEN Life ELSE 2 * Life)'
  <2>1. CASE cached' = cached
    BY <1>3, <2>1, CacheKept
  <2>2. CASE Reset /\ cached' = Emptied
    <3> DEFINE d == IF k = "auth:user" THEN Life ELSE 2 * Life
    <3>1. cached'[k].saw = 0 /\ cached'[k].until = 0 /\ d \in Nat /\ d' = d
      BY <1>1, <2>2, CacheParts DEF Emptied, NoEntry, Life
    <3>2. time' \in Nat /\ ended' \in Seq(Nat)
      BY <1>5 DEF CacheTypeOK
    <3> HIDE DEF d
    <3>3. \A i \in Nat, n \in Nat : 0 =< i + n
      OBVIOUS
    <3>4. 0 < Len(ended') => ended'[0 + 1] \in Nat
      <4>1. 0 + 1 = 1
        OBVIOUS
      <4> QED BY <3>2, <4>1
    <3> HIDE DEF CacheInv
    <3>5. Within(cached[k].saw, cached[k].until, d)'
      BY <3>1, <3>2, <3>3, <3>4, Zenon DEF Within, Current
    <3> QED BY <3>5 DEF d
  <2> QED BY <1>4, <2>1, <2>2
<1>8. ASSUME NEW h \in Get
      PROVE  /\ gets'[h].at # "quiet" => gets'[h].since =< time' /\ time' =< gets'[h].since + Longest
             /\ gets'[h].at = "read" => Within(gets[h].saw, gets[h].since, 0)'
             /\ gets'[h].at \in {"known", "handled"} => Within(gets[h].saw, gets[h].since, Life)'
  <2>1. gets'[h] = gets[h]
    BY <1>2
  <2>2. gets[h].at # "quiet" => gets[h].since =< time' /\ time' =< gets[h].since + Longest
    <3>1. gets[h].at # "quiet" => gets[h].since =< time /\ time =< gets[h].since + Longest
      BY <1>1 DEF InTime
    <3>2. gets[h].since \in Nat /\ Longest \in Nat
      BY <1>1, CacheParts
    <3>3. CASE time' = time
      BY <3>1, <3>3
    <3>4. CASE Tick
      BY <1>2, <3>1, <3>2, <3>4 DEF Tick, Quiet
    <3> QED BY <3>3, <3>4 DEF Change, Reset, ResetFails
  <2>3. /\ gets[h].at = "read" => Within(gets[h].saw, gets[h].since, 0)'
        /\ gets[h].at \in {"known", "handled"} => Within(gets[h].saw, gets[h].since, Life)'
    BY <1>3, <2>1, CacheKept
  <2> QED BY <2>1, <2>2, <2>3
<1>9. InTime'
  <2>1. /\ Within(cached["auth:user"].saw, cached["auth:user"].until, Life)'
        /\ Within(cached["http:user"].saw, cached["http:user"].until, 2 * Life)'
    BY <1>1, <1>7, CacheParts
  <2>2. Within(answer.saw, answer.at, 2 * Life)'
    BY <1>2, <1>3, CacheKept
  <2> QED BY <1>8, <2>1, <2>2 DEF InTime
<1> QED BY <1>5, <1>6, <1>9 DEF CacheInv

LEMMA CacheSafe == CacheSpec => []CacheInv
<1>1. CacheInit => CacheInv
  <2> SUFFICES ASSUME CacheInit PROVE CacheInv
    OBVIOUS
  <2>1. CacheTypeOK
    <3>1. <<>> \in Seq(Nat) /\ 0 \in Nat
      OBVIOUS
    <3>2. late \in BOOLEAN
      BY Zenon DEF CacheInit
    <3>3. /\ cached \in [Key -> [saw : Nat, until : Nat]] /\ answer \in [saw : Nat, at : Nat]
          /\ time = 0 /\ pending = 0 /\ ended = <<>>
      BY DEF CacheInit, NoEntry
    <3>4. Quiet \in [at : {"quiet", "guard", "read", "known", "handled"}, saw : Nat, since : Nat]
      BY DEF Quiet
    <3>5. gets \in [Get -> [at : {"quiet", "guard", "read", "known", "handled"}, saw : Nat, since : Nat]]
      BY <3>4 DEF CacheInit
    <3> QED BY <3>1, <3>2, <3>3, <3>5 DEF CacheTypeOK
  <2>2. StaleOnlyByRace /\ ReadStaleByRace
    BY DEF CacheInit, StaleOnlyByRace, ReadStaleByRace, Unexpired, NoEntry, Quiet
  <2>3. /\ \A k \in Key : cached[k].saw = 0 /\ cached[k].until = 0
        /\ answer.saw = 0 /\ answer.at = 0 /\ Current = 0 /\ time = 0
        /\ \A g \in Get : gets[g].at = "quiet"
    BY DEF CacheInit, NoEntry, Quiet, Current
  <2> QED BY <2>1, <2>2, <2>3, CacheParts DEF CacheInv, InTime, Within
<1>2. CacheInv /\ [CacheNext]_kvars => CacheInv'
  <2> SUFFICES ASSUME CacheInv, [CacheNext]_kvars PROVE CacheInv'
    OBVIOUS
  <2>1. CASE UNCHANGED kvars
    BY <2>1 DEF kvars, CacheInv, CacheTypeOK, StaleOnlyByRace, ReadStaleByRace, InTime, Within,
                Unexpired, Current, Life
  <2> QED BY <2>1, ArriveInv, GuardInv, StoreUserInv, HandleInv, AnswerInv, SurroundingsInv
          DEF CacheNext
<1> QED BY <1>1, <1>2, PTL DEF CacheSpec

\* AuthenticationGuard and UserAwareCacheInterceptor: the cache is out of date only while a
\* reset is to come, or after one failed or a request outran it; and however requests,
\* changes and resets overlap, permissions taken away are not answered with for longer than
\* two lives of an entry and two requests.
THEOREM CacheIsInTime == CacheSpec => []CacheInTime
<1>1. CacheInv => CacheInTime
  <2> SUFFICES ASSUME CacheInv PROVE CacheInTime
    OBVIOUS
  <2>1. answer.saw < Len(ended) => answer.at =< ended[answer.saw + 1] + 2 * Life
    BY DEF CacheInv, InTime, Within, Current
  <2> QED BY <2>1 DEF CacheInv, CacheInTime, AnswerNotTooOld, Life
<1> QED BY <1>1, CacheSafe, PTL
=============================================================================
