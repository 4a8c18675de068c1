----------------------------- MODULE ServerCache -----------------------------
(***************************************************************************)
(* The server's one cache, as a GET of one user for one path sees it.  The *)
(* AuthenticationGuard keeps the user with role and permissions in it, the *)
(* UserAwareCacheInterceptor the answers; both for the same time.  A       *)
(* mutation commits and then resets the whole cache, which may fail        *)
(* unnoticed.  Redis is external: get, set with a time to live, and reset. *)
(*                                                                         *)
(* A value is the number of the committed change it shows.                 *)
(***************************************************************************)
EXTENDS Naturals, Sequences

CONSTANTS
  Get,         \* how many GETs can run at once
  TTL,         \* ticks that an entry lives: CACHE_TTL_MS
  Longest,     \* ticks that a request takes at most
  MaxChanges,  \* bound: changes committed
  MaxTime      \* bound: ticks

ASSUME CacheAssumption == TTL \in Nat /\ Longest \in Nat /\ MaxChanges \in Nat /\ MaxTime \in Nat

VARIABLES
  time,
  ended,    \* when change i+1 replaced change i: a sequence; its length is the last change
  pending,  \* changes committed whose reset has not come yet
  cached,   \* [key -> entry]: the user and the answer
  gets,     \* the GETs in flight
  answer,   \* the change whose permissions the last answer rests on, and when it was given
  late      \* whether a reset ever failed, or came while a GET had read and not stored

kvars == <<time, ended, pending, cached, gets, answer, late>>

Key == {"auth:user", "http:user"}
Current == Len(ended)
NoEntry == [saw |-> 0, until |-> 0]

Quiet == [at |-> "quiet", saw |-> 0, since |-> 0]

Unexpired(k) == cached[k].until > time

Move(g, at, saw) == gets' = [gets EXCEPT ![g].at = at, ![g].saw = saw]

Store(k, saw) == cached' = [cached EXCEPT ![k] = [saw |-> saw, until |-> time + TTL]]

-----------------------------------------------------------------------------
(* A GET passes the guard, then the interceptor *)

Arrive(g) ==
  /\ gets[g] = Quiet
  /\ gets' = [gets EXCEPT ![g] = [at |-> "guard", saw |-> 0, since |-> time]]
  /\ UNCHANGED <<time, ended, pending, cached, answer, late>>

\* The guard takes the cached user, or reads it and then stores it
Guard(g) ==
  /\ gets[g].at = "guard"
  /\ IF Unexpired("auth:user") THEN Move(g, "known", cached["auth:user"].saw)
     ELSE Move(g, "read", Current)
  /\ UNCHANGED <<time, ended, pending, cached, answer, late>>

StoreUser(g) ==
  /\ gets[g].at = "read"
  /\ Store("auth:user", gets[g].saw)
  /\ Move(g, "known", gets[g].saw)
  /\ UNCHANGED <<time, ended, pending, answer, late>>

Give(g, saw) ==
  /\ answer' = [saw |-> saw, at |-> time]
  /\ gets' = [gets EXCEPT ![g] = Quiet]

\* The interceptor answers from the cache, or has the handler answer and stores that
Hit(g) ==
  /\ gets[g].at = "known" /\ Unexpired("http:user")
  /\ Give(g, cached["http:user"].saw)
  /\ UNCHANGED <<time, ended, pending, cached, late>>

Handle(g) ==
  /\ gets[g].at = "known" /\ ~Unexpired("http:user")
  /\ Move(g, "handled", gets[g].saw)
  /\ UNCHANGED <<time, ended, pending, cached, answer, late>>

StoreAnswer(g) ==
  /\ gets[g].at = "handled"
  /\ Store("http:user", gets[g].saw)
  /\ Give(g, gets[g].saw)
  /\ UNCHANGED <<time, ended, pending, late>>

-----------------------------------------------------------------------------
(* Mutations *)

Change ==
  /\ Len(ended) < MaxChanges
  /\ ended' = Append(ended, time) /\ pending' = pending + 1
  /\ UNCHANGED <<time, cached, gets, answer, late>>

\* Mutant: only the answers are dropped
Emptied_Answers == [cached EXCEPT !["http:user"] = NoEntry]

Emptied == [k \in Key |-> NoEntry]

Reset ==
  /\ pending > 0
  /\ cached' = Emptied /\ pending' = pending - 1
  /\ late' = (late \/ \E g \in Get : gets[g].at \in {"read", "known", "handled"} /\ gets[g].saw < Current)
  /\ UNCHANGED <<time, ended, gets, answer>>

\* The cache does not answer, or the process ends after the commit
ResetFails ==
  /\ pending > 0
  /\ pending' = pending - 1 /\ late' = TRUE
  /\ UNCHANGED <<time, ended, cached, gets, answer>>

Tick ==
  /\ time < MaxTime
  /\ \A g \in Get : gets[g] = Quiet \/ gets[g].since + Longest > time
  /\ time' = time + 1
  /\ UNCHANGED <<ended, pending, cached, gets, answer, late>>

-----------------------------------------------------------------------------

CacheInit ==
  /\ time = 0 /\ ended = <<>> /\ pending = 0 /\ late = FALSE
  /\ cached = [k \in Key |-> NoEntry]
  /\ gets = [g \in Get |-> Quiet]
  /\ answer = [saw |-> 0, at |-> 0]

CacheNext ==
  \/ Change \/ Reset \/ ResetFails \/ Tick
  \/ \E g \in Get : Arrive(g) \/ Guard(g) \/ StoreUser(g) \/ Hit(g) \/ Handle(g) \/ StoreAnswer(g)

CacheSpec == CacheInit /\ [][CacheNext]_kvars

-----------------------------------------------------------------------------
(* Properties *)

\* What the cache holds is out of date only until a reset that has still to come, or
\* after one that failed or that a GET which had read before it outran.
StaleOnlyByRace ==
  \A k \in Key : Unexpired(k) /\ cached[k].saw < Current => pending > 0 \/ late

\* However requests, changes and failed resets overlap, an answer rests on permissions
\* that were replaced no longer ago than two lives of an entry (the user's and then the
\* answer's) and three requests.
AnswerNotTooOld ==
  answer.saw < Len(ended) => answer.at =< ended[answer.saw + 1] + 2 * (TTL + Longest)

\* Both: the cache is stale for a reason, and never for long.
CacheInTime == StaleOnlyByRace /\ AnswerNotTooOld

-----------------------------------------------------------------------------
(* Inductive invariant *)

CacheTypeOK ==
  /\ time \in Nat /\ pending \in Nat /\ ended \in Seq(Nat) /\ late \in BOOLEAN
  /\ cached \in [Key -> [saw : Nat, until : Nat]]
  /\ gets \in [Get -> [at : {"quiet", "guard", "read", "known", "handled"},
                       saw : Nat, since : Nat]]
  /\ answer \in [saw : Nat, at : Nat]

\* What a GET has read and not stored yet may be out of date for the same reasons
ReadStaleByRace ==
  \A g \in Get : gets[g].at \in {"read", "known", "handled"} /\ gets[g].saw < Current =>
                   pending > 0 \/ late

\* t is at most d ticks after the change saw was replaced; if that is still to come,
\* at most d ticks from now
Within(saw, t, d) ==
  /\ t =< time + d
  /\ saw < Current => t =< ended[saw + 1] + d

Life == TTL + Longest

\* The user's entry ends in its life and one request's time after a change, the answer's
\* in two of each; a request began before that, and does not take long.
InTime ==
  /\ Within(cached["auth:user"].saw, cached["auth:user"].until, Life)
  /\ Within(cached["http:user"].saw, cached["http:user"].until, 2 * Life)
  /\ Within(answer.saw, answer.at, 2 * Life)
  /\ \A g \in Get :
       /\ gets[g].at # "quiet" => gets[g].since =< time /\ time =< gets[g].since + Longest
       /\ gets[g].at = "read" => Within(gets[g].saw, gets[g].since, 0)
       /\ gets[g].at \in {"known", "handled"} => Within(gets[g].saw, gets[g].since, Life)

\* CacheInTime with what makes it inductive
CacheInv == CacheTypeOK /\ StaleOnlyByRace /\ ReadStaleByRace /\ InTime

=============================================================================
