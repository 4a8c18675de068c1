--------------------------- MODULE LocationCodes ---------------------------
(***************************************************************************)
(* The codes of storage locations (LocationsService, location-code.util):  *)
(* a location created by a user takes the next code of a counter, one that *)
(* a batch import creates has none until the server starts again and       *)
(* bootstrapLocationCodes gives it one; main.ts runs it before listening.  *)
(* Each of its updates commits on its own, and a crash may come between.   *)
(***************************************************************************)
EXTENDS Naturals, Sequences, FiniteSets

CONSTANTS
  Letters,       \* letters of the alphabet
  MaxLocations   \* bound: locations there are

ASSUME CodeAssumption == Letters \in Nat \ {0} /\ MaxLocations \in Nat

VARIABLES
  codes,    \* location_code of the locations in the order of their ids; <<>>: null
  counter,  \* system_sequence_states.next_value
  boot,     \* the location the bootstrap looks at next; 0: the server listens
  up,       \* FALSE after the bootstrap failed
  mixed     \* whether a location was created after an import, before a restart

cvars == <<codes, counter, boot, up, mixed>>

\* numericToLocationCode: A .. Z, AA .. AZ, BA ..
Code[n \in Nat] ==
  IF n = 0 THEN <<>> ELSE Append(Code[(n - 1) \div Letters], ((n - 1) % Letters) + 1)

\* locationCodeToNumeric
Number(c) ==
  LET f[i \in 0 .. Len(c)] == IF i = 0 THEN 0 ELSE f[i - 1] * Letters + c[i]
  IN f[Len(c)]

Taken(c) == c # <<>> /\ \E i \in DOMAIN codes : codes[i] = c

-----------------------------------------------------------------------------

\* create: a taken code is refused three times, for the counter rolls back as well
CreateLocation ==
  /\ up /\ boot = 0 /\ Len(codes) < MaxLocations
  /\ ~Taken(Code[counter + 1])
  /\ codes' = Append(codes, Code[counter + 1]) /\ counter' = counter + 1
  /\ mixed' = (mixed \/ \E i \in DOMAIN codes : codes[i] = <<>>)
  /\ UNCHANGED <<boot, up>>

\* A batch import creates a location without a code
ImportLocation ==
  /\ up /\ boot = 0 /\ Len(codes) < MaxLocations
  /\ codes' = Append(codes, <<>>)
  /\ UNCHANGED <<counter, boot, up, mixed>>

\* The process ends, at any moment, and is started again
Restart ==
  /\ boot' = 1 /\ up' = TRUE
  /\ UNCHANGED <<codes, counter, mixed>>

\* The code of the location's position
ExpectedCode(i) == Code[i]

AssignCode ==
  /\ up /\ boot \in DOMAIN codes
  /\ IF codes[boot] = <<>> /\ Taken(ExpectedCode(boot))
     THEN /\ up' = FALSE
          /\ UNCHANGED <<codes, boot>>
     ELSE /\ codes' = [codes EXCEPT ![boot] = IF @ = <<>> THEN ExpectedCode(boot) ELSE @]
          /\ boot' = boot + 1
          /\ UNCHANGED up
  /\ UNCHANGED <<counter, mixed>>

\* Mutant: the counter stays
Highest_Kept == counter

Highest == CHOOSE n \in {0} \cup {Number(codes[i]) : i \in DOMAIN codes} :
             \A i \in DOMAIN codes : Number(codes[i]) =< n

Listen ==
  /\ up /\ boot = Len(codes) + 1
  /\ counter' = Highest /\ boot' = 0
  /\ UNCHANGED <<codes, up, mixed>>

-----------------------------------------------------------------------------

CodesInit == codes = <<>> /\ counter = 0 /\ boot = 1 /\ up = TRUE /\ mixed = FALSE

CodesNext == CreateLocation \/ ImportLocation \/ Restart \/ AssignCode \/ Listen

CodesSpec == CodesInit /\ [][CodesNext]_cvars

-----------------------------------------------------------------------------
(* Properties *)

\* Whenever the server listens, the next code is free: creating a location is never
\* refused for its code, whatever was imported and however often the server started.
NextCodeFree == up /\ boot = 0 => ~Taken(Code[counter + 1])

\* The bootstrap fails, and the server with it, only when a location was created
\* after an import and before the next start; it then fails at every start.
BootstrapFails == ~up => mixed

\* Both: codes follow the rows, or the server does not start.
CodesFollowRows == NextCodeFree /\ BootstrapFails

-----------------------------------------------------------------------------
(* Inductive invariant *)

Listening == up /\ boot = 0

\* Every code is that of a number among those of the rows, which the counter has reached
\* when the server listens; the bootstrap leaves no row behind it without one.
NumberedRows ==
  \A i \in DOMAIN codes :
    /\ codes[i] # <<>> => \E n \in 1 .. Len(codes) : codes[i] = Code[n] /\ (Listening => n =< counter)
    /\ i < boot => codes[i] # <<>>

\* Until a location is created after an import, a code is that of the row's position, and
\* the counter that of the last.
CodesOfPositions ==
  ~mixed =>
    /\ up
    /\ \A i \in DOMAIN codes : codes[i] # <<>> => codes[i] = Code[i]
    /\ Listening /\ (\A i \in DOMAIN codes : codes[i] # <<>>) => counter = Len(codes)

\* CodesFollowRows with what makes it inductive
CodesInv ==
  /\ codes \in Seq(Seq(1 .. Letters)) /\ counter \in 0 .. Len(codes) /\ boot \in 0 .. Len(codes) + 1
  /\ up \in BOOLEAN /\ mixed \in BOOLEAN
  /\ NumberedRows /\ CodesOfPositions

=============================================================================
