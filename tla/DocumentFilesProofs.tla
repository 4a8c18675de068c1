------------------------ MODULE DocumentFilesProofs ------------------------
(***************************************************************************)
(* What is kept of a document: theorems about the numbers of its           *)
(* revisions, the places of their files, the stamped copies handed out,    *)
(* the route and the retention of a hardcopy, and the codes of locations,  *)
(* for any number of rows, files and handlers that overlap.                *)
(***************************************************************************)
EXTENDS RevisionNumbers, RevisionStorage, RevisionArtifacts, StorageRoutes,
        LocationCodes, Retention, FiniteSetTheorems, WellFoundedInduction, TLAPS

-----------------------------------------------------------------------------
(* The numbers of revisions *)

\* A row that is added leaves those before it.
LEMMA RowAppended ==
  ASSUME numbers \in Seq(RevisionNumber), NEW n \in RevisionNumber, numbers' = Append(numbers, n)
  PROVE  /\ numbers' \in Seq(RevisionNumber) /\ Len(numbers') = Len(numbers) + 1
         /\ numbers'[Len(numbers) + 1] = n /\ Len(numbers) \in Nat
         /\ \A i \in 1 .. Len(numbers) : numbers'[i] = numbers[i] /\ numbers[i] \in RevisionNumber
OBVIOUS

\* Numbers rise, or one did not: also after one more row.
LEMMA RisingKept ==
  ASSUME NumbersTypeOK, RisingOrNot, NEW n \in RevisionNumber, numbers' = Append(numbers, n)
  PROVE  RisingOrNot'
<1> DEFINE last == Len(numbers)
<1>1. /\ last \in Nat /\ Len(numbers') = last + 1 /\ numbers'[last + 1] = n
      /\ \A i \in 1 .. last : numbers'[i] = numbers[i] /\ numbers[i] \in RevisionNumber
  BY RowAppended DEF NumbersTypeOK
<1> HIDE DEF last
<1>2. last = Len(numbers)
  BY DEF last
<1>3. CASE \E i \in 1 .. last - 1 : numbers[i + 1].value <= numbers[i].value
  <2>1. PICK i \in 1 .. last - 1 : numbers[i + 1].value <= numbers[i].value
    BY <1>3
  <2>2. i \in 1 .. last /\ i + 1 \in 1 .. last /\ i \in 1 .. (last + 1) - 1
    BY <1>1
  <2>3. numbers'[i + 1].value <= numbers'[i].value
    BY <1>1, <2>1, <2>2
  <2> QED BY <1>1, <2>2, <2>3 DEF RisingOrNot
<1>4. CASE \A j \in 1 .. last : \A i \in 1 .. j - 1 : numbers[i].value < numbers[j].value
  <2>1. CASE last # 0 /\ n.value <= numbers[last].value
    <3>1. last \in 1 .. last /\ last \in 1 .. (last + 1) - 1
      BY <1>1, <2>1
    <3>2. numbers'[last + 1].value <= numbers'[last].value
      BY <1>1, <2>1, <3>1
    <3> QED BY <1>1, <3>1, <3>2 DEF RisingOrNot
  <2>2. CASE last = 0 \/ numbers[last].value < n.value
    <3>1. ASSUME NEW i \in 1 .. last PROVE numbers[i].value < n.value
      <4>1. last # 0 /\ last \in 1 .. last /\ (i = last \/ i \in 1 .. last - 1)
        BY <1>1
      <4>2. numbers[i].value \in Int /\ numbers[last].value \in Int /\ n.value \in Int
        BY <1>1, <4>1 DEF RevisionNumber
      <4> QED BY <1>4, <2>2, <4>1, <4>2
    <3>2. ASSUME NEW j \in 1 .. last + 1, NEW i \in 1 .. j - 1
          PROVE  numbers'[i].value < numbers'[j].value
      <4>1. i \in 1 .. last /\ (j = last + 1 \/ j \in 1 .. last)
        BY <1>1
      <4> QED BY <1>1, <1>4, <3>1, <4>1
    <3> QED BY <1>1, <3>2 DEF RisingOrNot
  <2>3. last # 0 => numbers[last].value \in Int /\ n.value \in Int
    BY <1>1 DEF RevisionNumber
  <2> QED BY <2>1, <2>2, <2>3
<1> QED BY <1>2, <1>3, <1>4 DEF RisingOrNot

\* A counted number is free while the numbers rise.
LEMMA CountedIsFree ==
  ASSUME NumbersTypeOK, RisingOrNot, NextNumber \in Rows
  PROVE  \E i \in 1 .. Len(numbers) - 1 : numbers[i + 1].value <= numbers[i].value
<1>1. PICK j \in DOMAIN numbers : numbers[j] = NextNumber
  BY DEF Rows
<1>2. /\ Len(numbers) \in Nat /\ DOMAIN numbers = 1 .. Len(numbers) /\ numbers # <<>>
      /\ \A i \in 1 .. Len(numbers) : numbers[i].value \in Int
  <2>1. numbers \in Seq(RevisionNumber)
    BY DEF NumbersTypeOK
  <2>2. \A i \in 1 .. Len(numbers) : numbers[i] \in RevisionNumber
    BY <2>1
  <2>3. \A i \in 1 .. Len(numbers) : numbers[i].value \in Int
    BY <2>2 DEF RevisionNumber
  <2>4. Len(numbers) \in Nat /\ DOMAIN numbers = 1 .. Len(numbers)
    BY <2>1
  <2>5. numbers # <<>>
    BY <1>1, <2>4
  <2> QED BY <2>3, <2>4, <2>5
<1>3. numbers[j].value = numbers[Len(numbers)].value + 1 /\ Len(numbers) \in 1 .. Len(numbers)
  BY <1>1, <1>2 DEF NextNumber
<1>4. ~(numbers[j].value < numbers[Len(numbers)].value) /\ j # Len(numbers)
  BY <1>1, <1>2, <1>3
<1>5. j \in 1 .. Len(numbers) - 1
  BY <1>1, <1>2, <1>4
<1> QED BY <1>3, <1>4, <1>5 DEF RisingOrNot

\* Files without a row stay explained while rows are only added.
LEMMA OrphansStay ==
  ASSUME NumbersTypeOK, OrphansExplained, orphans' = orphans, NEW n \in RevisionNumber,
         numbers' = numbers \/ numbers' = Append(numbers, n)
  PROVE  OrphansExplained'
<1>1. /\ Len(numbers) \in Nat /\ Len(numbers') \in Nat /\ Len(numbers) =< Len(numbers')
      /\ \A i \in 1 .. Len(numbers) : numbers'[i] = numbers[i]
  BY RowAppended DEF NumbersTypeOK
<1>2. \A i \in 1 .. Len(numbers) : i \in 1 .. Len(numbers')
  BY <1>1
<1> QED BY <1>1, <1>2 DEF OrphansExplained

\* What an upload looks for is not in the rows it saw, or its file stays.
LEMMA LookedUp ==
  ASSUME NumbersInv, NEW u \in Uploader, NEW n \in RevisionNumber, LookUp(u, n), UNCHANGED numbers,
         blocked' => blocked \/ \E i \in 1 .. Len(numbers) - 1 : numbers[i + 1].value <= numbers[i].value
  PROVE  NumbersInv'
<1>1. /\ Len(numbers) \in Nat /\ DOMAIN numbers = 1 .. Len(numbers)
      /\ NumbersTypeOK /\ NotSeen /\ OrphansExplained
  BY DEF NumbersInv, NumbersTypeOK, NumbersExplained
<1>2. RisingOrNot' /\ NextNumberFree'
  BY DEF NumbersInv, RisingOrNot, NumbersExplained, NextNumberFree
<1>3. CASE n \in Rows
  <2> DEFINE f == Orphan(n, Len(numbers), FALSE)
  <2>1. uploads' = uploads /\ orphans' = orphans \cup {f}
    BY <1>3 DEF LookUp, Found
  <2>2. /\ f.number = n /\ f.seen = Len(numbers) /\ f.moved = FALSE
        /\ f \in [number : RevisionNumber, seen : Nat, moved : BOOLEAN]
    BY <1>1 DEF Orphan
  <2>3. PICK i \in 1 .. Len(numbers) : numbers[i] = n
    BY <1>1, <1>3 DEF Rows
  <2> HIDE DEF f
  <2>4. ~(i > f.seen)
    BY <1>1, <2>2
  <2>5. OrphansExplained'
    BY <1>1, <2>1, <2>2, <2>3, <2>4 DEF OrphansExplained
  <2>6. NumbersTypeOK' /\ NotSeen'
    BY <1>1, <2>1, <2>2 DEF NumbersTypeOK, NotSeen
  <2> QED BY <1>2, <2>5, <2>6 DEF NumbersInv, NumbersExplained
<1>4. CASE n \notin Rows
  <2>1. /\ uploads' = [uploads EXCEPT ![u] = [at |-> "moved", number |-> n, seen |-> Len(numbers)]]
        /\ orphans' = orphans
    BY <1>4 DEF LookUp, Found
  <2>2. NumbersTypeOK' /\ OrphansExplained'
    BY <1>1, <2>1, OrphansStay DEF NumbersTypeOK
  <2>3. NotSeen'
    <3> SUFFICES ASSUME NEW v \in Uploader, uploads'[v].at = "moved"
                 PROVE  /\ uploads'[v].seen =< Len(numbers)
                        /\ \A i \in 1 .. uploads'[v].seen : numbers[i] # uploads'[v].number
      BY DEF NotSeen
    <3>1. CASE v = u
      <4>1. uploads'[v].seen = Len(numbers) /\ uploads'[v].number = n
        BY <2>1, <3>1, <1>1 DEF NumbersTypeOK
      <4> QED BY <1>1, <1>4, <4>1 DEF Rows
    <3>2. CASE v # u
      <4>1. uploads'[v] = uploads[v]
        BY <2>1, <3>2, <1>1 DEF NumbersTypeOK
      <4> QED BY <1>1, <4>1 DEF NotSeen
    <3> QED BY <3>1, <3>2
  <2> QED BY <1>2, <2>2, <2>3 DEF NumbersInv, NumbersExplained
<1> QED BY <1>3, <1>4

\* A row is added, or a file stays without one because another row took its number.
LEMMA RowAdded == ASSUME NumbersInv, NEW u \in Uploader, AddRow(u) PROVE NumbersInv'
<1> DEFINE n == uploads[u].number
           seen == uploads[u].seen
<1>1. /\ NumbersTypeOK /\ RisingOrNot /\ NotSeen /\ NextNumberFree /\ OrphansExplained
      /\ n \in RevisionNumber /\ seen \in Nat
      /\ uploads[u].at = "moved" /\ uploads' = [uploads EXCEPT ![u] = NoUpload] /\ blocked' = blocked
      /\ Len(numbers) \in Nat /\ DOMAIN numbers = 1 .. Len(numbers)
  BY DEF NumbersInv, NumbersTypeOK, NumbersExplained, AddRow
<1>2. NoUpload \in [at : {"none", "moved"}, number : RevisionNumber, seen : Nat] /\ NoUpload.at = "none"
  BY DEF NoUpload, RevisionNumber
<1>3. CASE n \in Rows
  <2> DEFINE f == Orphan(n, seen, TRUE)
  <2>1. numbers' = numbers /\ orphans' = orphans \cup {f}
    BY <1>3 DEF AddRow
  <2>2. /\ f.number = n /\ f.seen = seen /\ f.moved = TRUE
        /\ f \in [number : RevisionNumber, seen : Nat, moved : BOOLEAN]
    BY <1>1 DEF Orphan
  <2>3. PICK i \in 1 .. Len(numbers) : numbers[i] = n
    BY <1>1, <1>3 DEF Rows
  <2>4. i > seen
    BY <1>1, <2>3 DEF NotSeen
  <2> HIDE DEF f
  <2>5. OrphansExplained'
    BY <1>1, <2>1, <2>2, <2>3, <2>4 DEF OrphansExplained
  <2>6. NumbersTypeOK' /\ NotSeen' /\ RisingOrNot' /\ NextNumberFree'
    BY <1>1, <1>2, <2>1, <2>2 DEF NumbersTypeOK, NotSeen, RisingOrNot, NextNumberFree
  <2> QED BY <2>5, <2>6 DEF NumbersInv, NumbersExplained
<1>4. CASE n \notin Rows
  <2>1. numbers' = Append(numbers, n) /\ orphans' = orphans
    BY <1>4 DEF AddRow
  <2>2. /\ numbers' \in Seq(RevisionNumber) /\ Len(numbers') = Len(numbers) + 1
        /\ \A i \in 1 .. Len(numbers) : numbers'[i] = numbers[i]
    BY <1>1, <2>1, RowAppended DEF NumbersTypeOK
  <2>3. NumbersTypeOK'
    BY <1>1, <1>2, <2>1, <2>2 DEF NumbersTypeOK
  <2>4. RisingOrNot'
    BY <1>1, <2>1, RisingKept
  <2>5. NotSeen'
    <3> SUFFICES ASSUME NEW v \in Uploader, uploads'[v].at = "moved"
                 PROVE  /\ uploads'[v].seen =< Len(numbers')
                        /\ \A i \in 1 .. uploads'[v].seen : numbers'[i] # uploads'[v].number
      BY DEF NotSeen
    <3>1. uploads'[v] = uploads[v] /\ uploads[v].seen \in Nat
      BY <1>1, <1>2 DEF NumbersTypeOK
    <3>2. /\ uploads[v].seen =< Len(numbers)
          /\ \A i \in 1 .. uploads[v].seen : numbers[i] # uploads[v].number
      BY <1>1, <3>1 DEF NotSeen
    <3> QED BY <1>1, <2>2, <3>1, <3>2
  <2>6. NextNumberFree'
    <3> SUFFICES ASSUME blocked PROVE \E i \in 1 .. Len(numbers') - 1 : numbers'[i + 1].value <= numbers'[i].value
      BY <1>1 DEF NextNumberFree
    <3>1. PICK i \in 1 .. Len(numbers) - 1 : numbers[i + 1].value <= numbers[i].value
      BY <1>1 DEF NextNumberFree
    <3>2. i \in 1 .. Len(numbers) /\ i + 1 \in 1 .. Len(numbers) /\ i \in 1 .. Len(numbers') - 1
      BY <1>1, <2>2
    <3> QED BY <2>2, <3>1, <3>2
  <2>7. OrphansExplained'
    BY <1>1, <2>1, OrphansStay
  <2> QED BY <2>3, <2>4, <2>5, <2>6, <2>7 DEF NumbersInv, NumbersExplained
<1> QED BY <1>3, <1>4

\* uploadRevision and getNextRevisionNumber: a counted number is refused only after numbers
\* that did not rise, and a file stays without a row where uploads arrive if its number was
\* in use, in the category's folder only if another upload overtook it.
THEOREM RefusalsAreExplained == NumbersSpec => []NumbersExplained
<1>1. NumbersInit => NumbersInv
  <2> SUFFICES ASSUME NumbersInit PROVE NumbersInv
    OBVIOUS
  <2>1. NoUpload \in [at : {"none", "moved"}, number : RevisionNumber, seen : Nat] /\ NoUpload.at = "none"
    BY DEF NoUpload, RevisionNumber
  <2>2. Len(numbers) = 0 /\ numbers \in Seq(RevisionNumber) /\ orphans = {} /\ ~blocked
    BY DEF NumbersInit
  <2>3. uploads = [u \in Uploader |-> NoUpload]
    BY DEF NumbersInit
  <2> QED BY <2>1, <2>2, <2>3 DEF NumbersInv, NumbersTypeOK, RisingOrNot, NotSeen,
                                 NumbersExplained, NextNumberFree, OrphansExplained
<1>2. NumbersInv /\ [NumbersNext]_nvars => NumbersInv'
  <2> SUFFICES ASSUME NumbersInv, [NumbersNext]_nvars PROVE NumbersInv'
    OBVIOUS
  <2>1. CASE UNCHANGED nvars
    BY <2>1 DEF nvars, NumbersInv, NumbersTypeOK, RisingOrNot, NotSeen, NumbersExplained,
                NextNumberFree, OrphansExplained
  <2>2. ASSUME NEW u \in Uploader, NEW n \in Typed, UploadTyped(u, n) PROVE NumbersInv'
    <3>1. n \in RevisionNumber
      BY NumbersAssumption DEF Typed, RevisionNumber
    <3> QED BY <2>2, <3>1, LookedUp DEF UploadTyped
  <2>3. ASSUME NEW u \in Uploader, UploadCounted(u) PROVE NumbersInv'
    <3>1. NextNumber \in RevisionNumber
      <4>1. ASSUME numbers # <<>> PROVE numbers[Len(numbers)].value \in Int
        <5>1. numbers \in Seq(RevisionNumber)
          BY DEF NumbersInv, NumbersTypeOK
        <5>2. numbers[Len(numbers)] \in RevisionNumber
          BY <4>1, <5>1
        <5> QED BY <5>2 DEF RevisionNumber
      <4> QED BY <4>1 DEF NextNumber, RevisionNumber
    <3>2. /\ LookUp(u, NextNumber) /\ UNCHANGED numbers
          /\ blocked' => blocked \/ NextNumber \in Rows
      BY <2>3 DEF UploadCounted
    <3> QED BY <3>1, <3>2, CountedIsFree, LookedUp DEF NumbersInv
  <2>4. ASSUME NEW u \in Uploader, AddRow(u) PROVE NumbersInv'
    BY <2>4, RowAdded
  <2> QED BY <2>1, <2>2, <2>3, <2>4 DEF NumbersNext
<1>3. NumbersInv => NumbersExplained
  BY DEF NumbersInv
<1> QED BY <1>1, <1>2, <1>3, PTL DEF NumbersSpec

-----------------------------------------------------------------------------
(* Where the files of revisions lie *)

\* A run ends: the row names the file's folder, or its update failed.
LEMMA RunEnds ==
  ASSUME StorageInv, NEW o \in Organizer, NEW fails \in BOOLEAN, EndRun(o, fails),
         UNCHANGED <<category, lies, booting>>, filePath' \in Folder,
         ~drifted => organizers[o] # Still /\ (filePath' = lies \/ (fails /\ lies = category))
  PROVE  StorageInv'
<1>1. /\ StorageTypeOK /\ organizers' = [organizers EXCEPT ![o] = Still] /\ Still.at = "still"
      /\ Still \in [at : {"still", "read", "find", "move", "update"}, from : Folder, to : Folder]
  BY StorageAssumption DEF StorageInv, StorageTypeOK, EndRun, Still
<1>2. failed' \in BOOLEAN /\ drifted' \in BOOLEAN
  BY <1>1, Zenon DEF EndRun, StorageTypeOK
<1>3. StorageTypeOK'
  BY <1>1, <1>2 DEF StorageTypeOK, Still
<1>4. ASSUME ~drifted' PROVE OneRun'
  <2>1. CASE drifted
    <3>1. AllStill' /\ filePath' = lies
      BY <1>4, <2>1, Zenon DEF EndRun
    <3> QED BY <1>1, <3>1 DEF OneRun, RunHolds, AllStill
  <2>2. CASE ~drifted
    <3>1. \A p \in Organizer : organizers'[p] = Still
      BY <1>1, <2>2 DEF StorageInv, OneRun, StorageTypeOK
    <3>2. filePath' = lies \/ (failed' /\ lies = category)
      <4>1. filePath' = lies \/ (fails /\ lies = category)
        BY <2>2
      <4>2. failed' = ((failed \/ fails) /\ filePath' # lies)
        BY DEF EndRun
      <4> QED BY <4>1, <4>2, Zenon
    <3> QED BY <1>1, <3>1, <3>2 DEF OneRun, RunHolds
  <2> QED BY <2>1, <2>2
<1> QED BY <1>3, <1>4 DEF StorageInv

\* A run takes its next step.
LEMMA RunMoves ==
  ASSUME StorageInv, NEW o \in Organizer, NEW r,
         UNCHANGED <<category, filePath, booting, failed, drifted>>,
         r \in [at : {"read", "find", "move", "update"}, from : Folder, to : Folder],
         organizers' = [organizers EXCEPT ![o] = r], organizers[o] # Still, lies' \in Folder,
         ~drifted => /\ r.at \in {"find", "move", "update"} => r.from = filePath /\ r.to = category
                     /\ r.at = "move" => lies' = filePath
                     /\ r.at = "update" => lies' = category
                     /\ \/ lies' = filePath
                        \/ lies' = category /\ (failed \/ booting \/ r.at = "update")
  PROVE  StorageInv'
<1>1. r # Still /\ r.at # "still"
  BY DEF Still
<1>2. StorageTypeOK'
  BY <1>1 DEF StorageInv, StorageTypeOK
<1>3. ASSUME ~drifted PROVE OneRun'
  <2>1. OneRun /\ \A p \in Organizer \ {o} : organizers'[p] = Still
    BY <1>3 DEF StorageInv, OneRun, StorageTypeOK
  <2>2. organizers'[o] = r
    BY DEF StorageInv, StorageTypeOK
  <2>3. \A p \in Organizer : RunHolds(p)'
    BY <1>3, <2>1, <2>2 DEF RunHolds, Still
  <2> QED BY <1>1, <1>3, <2>1, <2>2, <2>3 DEF OneRun
<1> QED BY <1>2, <1>3 DEF StorageInv

LEMMA StorageStep == StorageInv /\ [StorageNext]_ovars => StorageInv'
<1> SUFFICES ASSUME StorageInv, [StorageNext]_ovars PROVE StorageInv'
  OBVIOUS
<1>1. StorageTypeOK /\ (~drifted => OneRun) /\ Still.at = "still" /\ Start \in Folder
  BY StorageAssumption DEF StorageInv, Still
<1>2. CASE UNCHANGED ovars
  BY <1>1, <1>2 DEF ovars, StorageInv, StorageTypeOK, OneRun, RunHolds
<1>3. CASE ListenAgain
  <2>1. UNCHANGED <<category, filePath, lies, organizers, failed, drifted>>
        /\ \A o \in Organizer : organizers[o] = Still
    BY <1>3 DEF ListenAgain, AllStill
  <2> QED BY <1>1, <2>1 DEF StorageInv, StorageTypeOK, OneRun, RunHolds
<1>4. CASE Crash
  <2>1. PICK first \in Organizer :
          organizers' = [o \in Organizer |-> IF o = first THEN [Still EXCEPT !.at = "read"] ELSE Still]
    BY <1>4 DEF Crash
  <2>2. UNCHANGED <<category, filePath, lies, failed, drifted>> /\ booting'
    BY <1>4 DEF Crash
  <2> DEFINE b == [Still EXCEPT !.at = "read"]
  <2>3. b # Still /\ b.at = "read"
        /\ {b, Still} \subseteq [at : {"still", "read", "find", "move", "update"}, from : Folder, to : Folder]
    BY <1>1 DEF Still
  <2> HIDE DEF b
  <2>4. /\ organizers'[first] = b /\ \A o \in Organizer \ {first} : organizers'[o] = Still
        /\ organizers' = [o \in Organizer |-> IF o = first THEN b ELSE Still]
    BY <2>1 DEF b
  <2>5. StorageTypeOK'
    BY <1>1, <2>2, <2>3, <2>4 DEF StorageTypeOK
  <2>6. ~drifted => OneRun'
    BY <1>1, <2>2, <2>3, <2>4 DEF OneRun, RunHolds
  <2> QED BY <2>2, <2>5, <2>6 DEF StorageInv
<1>5. ASSUME NEW c \in Folder, SetFolder(c), ~drifted'
      PROVE  /\ ~drifted /\ ~booting /\ category' = c /\ AllStill /\ OneRun
             /\ lies = filePath \/ (lies = category' /\ failed)
  <2>1. ~drifted /\ AllStill /\ ~(c # category /\ filePath # lies) /\ ~booting /\ category' = c
    BY <1>5, Zenon DEF SetFolder
  <2> QED BY <1>1, <2>1 DEF OneRun, AllStill
<1>6. ASSUME NEW c \in Folder, SetFolder(c) PROVE category' \in Folder /\ drifted' \in BOOLEAN
  BY <1>6, Zenon DEF SetFolder
<1>7. ASSUME NEW o \in Organizer, NEW c \in Folder, ChangeCategory(o, c) PROVE StorageInv'
  <2> DEFINE r == [Still EXCEPT !.at = "read"]
  <2>1. /\ SetFolder(c) /\ organizers[o] = Still /\ UNCHANGED <<filePath, lies, booting, failed>>
        /\ organizers' = [organizers EXCEPT ![o] = r]
    BY <1>7 DEF ChangeCategory
  <2>2. r.at = "read" /\ r \in [at : {"still", "read", "find", "move", "update"}, from : Folder, to : Folder]
    BY <1>1 DEF Still
  <2> HIDE DEF r
  <2>3. StorageTypeOK'
    BY <1>1, <1>6, <2>1, <2>2 DEF StorageTypeOK
  <2>4. organizers'[o] = r /\ \A p \in Organizer \ {o} : organizers'[p] = organizers[p]
    BY <1>1, <2>1 DEF StorageTypeOK
  <2>5. ASSUME ~drifted' PROVE OneRun'
    <3>1. /\ \A p \in Organizer : organizers[p] = Still
          /\ lies = filePath \/ (lies = category' /\ failed)
      BY <1>5, <2>1, <2>5 DEF AllStill
    <3> QED BY <1>1, <2>1, <2>2, <2>4, <3>1 DEF OneRun, RunHolds
  <2> QED BY <2>3, <2>5 DEF StorageInv
<1>8. ASSUME NEW c \in Folder, Refile(c) PROVE StorageInv'
  <2>1. SetFolder(c) /\ UNCHANGED <<filePath, lies, organizers, booting, failed>>
    BY <1>8 DEF Refile
  <2>2. StorageTypeOK'
    BY <1>1, <1>6, <2>1 DEF StorageTypeOK
  <2>3. ASSUME ~drifted' PROVE OneRun'
    <3>1. /\ \A p \in Organizer : organizers[p] = Still
          /\ lies = filePath \/ (lies = category' /\ failed)
      BY <1>5, <2>1, <2>3 DEF AllStill
    <3> QED BY <1>1, <2>1, <3>1 DEF OneRun, RunHolds
  <2> QED BY <2>2, <2>3 DEF StorageInv
<1>9. ASSUME NEW o \in Organizer, ReadRows(o) PROVE StorageInv'
  <2> DEFINE r == [at |-> "find", from |-> filePath, to |-> category]
  <2>1. /\ UNCHANGED <<category, filePath, lies, booting, failed, drifted>> /\ organizers[o].at = "read"
        /\ organizers' = [organizers EXCEPT ![o] = r]
    BY <1>9 DEF ReadRows
  <2>2. /\ r.at = "find" /\ r.from = filePath /\ r.to = category /\ lies \in Folder /\ organizers[o] # Still
        /\ r \in [at : {"read", "find", "move", "update"}, from : Folder, to : Folder]
    BY <1>1, <2>1 DEF StorageTypeOK
  <2>3. ~drifted => lies = filePath \/ (lies = category /\ (failed \/ booting))
    BY <1>1, <2>1, <2>2 DEF OneRun
  <2> HIDE DEF r
  <2> QED BY <2>1, <2>2, <2>3, RunMoves
<1>10. ASSUME NEW o \in Organizer, FindFile(o) PROVE StorageInv'
  <2>1. /\ UNCHANGED <<category, filePath, lies, booting>> /\ organizers[o].at = "find"
        /\ organizers[o] # Still /\ filePath \in Folder /\ lies \in Folder
        /\ organizers[o].from \in Folder /\ organizers[o].to \in Folder
        /\ ~drifted => /\ organizers[o].from = filePath /\ organizers[o].to = category
                       /\ lies \in Candidates(o)
    BY <1>1, <1>10 DEF FindFile, StorageTypeOK, OneRun, RunHolds, Candidates
  <2>2. CASE lies \notin Candidates(o)
    BY <1>10, <2>1, <2>2, RunEnds DEF FindFile
  <2>3. CASE lies \in Candidates(o)
    <3> DEFINE r == [organizers[o] EXCEPT !.at = IF lies = organizers[o].to THEN "update" ELSE "move"]
    <3>1. organizers' = [organizers EXCEPT ![o] = r] /\ UNCHANGED <<failed, drifted>>
      BY <1>10, <2>3 DEF FindFile
    <3>2. /\ r.from = organizers[o].from /\ r.to = organizers[o].to
          /\ r.at = IF lies = organizers[o].to THEN "update" ELSE "move"
          /\ r \in [at : {"read", "find", "move", "update"}, from : Folder, to : Folder]
      BY <1>1, <2>1 DEF StorageTypeOK
    <3>3. ~drifted => (r.at = "update" => lies = category) /\ (r.at = "move" => lies = filePath)
                      /\ lies \in {filePath, category} /\ (r.at = "update" \/ lies = filePath)
      BY <2>1, <3>2 DEF Candidates
    <3> HIDE DEF r
    <3> QED BY <2>1, <3>1, <3>2, <3>3, RunMoves
  <2> QED BY <2>2, <2>3
<1>11. ASSUME NEW o \in Organizer, MoveFile(o) PROVE StorageInv'
  <2>1. /\ UNCHANGED <<category, filePath, booting>> /\ organizers[o].at = "move"
        /\ organizers[o] # Still /\ filePath \in Folder /\ lies \in Folder
        /\ organizers[o].from \in Folder /\ organizers[o].to \in Folder
        /\ ~drifted => /\ organizers[o].from = filePath /\ organizers[o].to = category
                       /\ lies = filePath
    BY <1>1, <1>11 DEF MoveFile, StorageTypeOK, OneRun, RunHolds
  <2>2. CASE lies # organizers[o].from
    BY <1>11, <2>1, <2>2, RunEnds DEF MoveFile
  <2>3. CASE lies = organizers[o].from
    <3> DEFINE r == [organizers[o] EXCEPT !.at = "update"]
    <3>1. organizers' = [organizers EXCEPT ![o] = r] /\ UNCHANGED <<failed, drifted>> /\ lies' = organizers[o].to
      BY <1>11, <2>3 DEF MoveFile
    <3>2. /\ r.from = organizers[o].from /\ r.to = organizers[o].to /\ r.at = "update"
          /\ r \in [at : {"read", "find", "move", "update"}, from : Folder, to : Folder]
      BY <1>1, <2>1 DEF StorageTypeOK
    <3> HIDE DEF r
    <3> QED BY <2>1, <3>1, <3>2, RunMoves
  <2> QED BY <2>2, <2>3
<1>12. ASSUME NEW o \in Organizer, UpdateRow(o) PROVE StorageInv'
  <2>1. /\ UNCHANGED <<category, lies, booting>> /\ organizers[o].at = "update" /\ EndRun(o, FALSE)
        /\ filePath' = IF organizers[o].from # organizers[o].to THEN organizers[o].to ELSE filePath
        /\ organizers[o] # Still /\ filePath \in Folder /\ organizers[o].to \in Folder
        /\ ~drifted => /\ organizers[o].from = filePath /\ organizers[o].to = category
                       /\ lies = category
    BY <1>1, <1>12 DEF UpdateRow, StorageTypeOK, OneRun, RunHolds
  <2> QED BY <2>1, RunEnds
<1>13. ASSUME NEW o \in Organizer, RowFails(o) PROVE StorageInv'
  <2>1. /\ UNCHANGED <<category, filePath, lies, booting>> /\ EndRun(o, TRUE)
        /\ organizers[o].at = "update" /\ organizers[o] # Still /\ filePath \in Folder
        /\ ~drifted => lies = category
    BY <1>1, <1>13 DEF RowFails, StorageTypeOK, OneRun, RunHolds
  <2> QED BY <2>1, RunEnds
<1> QED BY <1>2, <1>3, <1>4, <1>7, <1>8, <1>9, <1>10, <1>11, <1>12, <1>13 DEF StorageNext

\* organizeRevisionStorage, in main.ts and after an update: the row names the folder of the
\* file, or a run is about to, wherever the process ended; only driftedping runs lose it.
THEOREM RowsNameTheirFiles == StorageSpec => []RowFindsFile
<1>1. StorageInit => StorageInv
  <2> SUFFICES ASSUME StorageInit PROVE StorageInv
    OBVIOUS
  <2>1. /\ category = Start /\ filePath = Start /\ lies = Start /\ Start \in Folder
        /\ organizers = [o \in Organizer |-> Still] /\ ~failed /\ ~drifted
    BY StorageAssumption DEF StorageInit
  <2>2. failed \in BOOLEAN /\ drifted \in BOOLEAN
    BY Zenon DEF StorageInit
  <2>3. StorageTypeOK
    BY <2>1, <2>2 DEF StorageTypeOK, Still
  <2>4. OneRun
    BY <2>1 DEF OneRun, RunHolds, Still
  <2> QED BY <2>3, <2>4 DEF StorageInv
<1>2. StorageInv => RowFindsFile
  BY DEF StorageInv, OneRun, RunHolds, RowFindsFile
<1> QED BY <1>1, <1>2, StorageStep, PTL DEF StorageSpec

-----------------------------------------------------------------------------
(* The stamped copies that are handed out *)

\* A stamp is one of the stamps, and a fingerprint says what was read.
LEMMA StampsOK ==
  /\ \A f \in Facts : Stamp(f) \in Stamps
  /\ Prints = Facts /\ \A f \in Facts : Fingerprint(f) = f
BY DEF Stamp, Stamps, Prints, Fingerprint

\* One download takes its next step, and hands out what it read if it is served.
LEMMA DownloadMoves ==
  ASSUME ArtifactsInv, NEW d \in Download, NEW e, UNCHANGED <<facts, files>>,
         e \in DownloadRecord,
         downloads' = [downloads EXCEPT ![d] = e],
         e.at = "served" => e.stamp = Stamp(e.read),
         e.whole
  PROVE  ArtifactsInv'
<1>1. \A c \in Download : downloads'[c] = IF c = d THEN e ELSE downloads[c]
  BY DEF ArtifactsInv, ArtifactsTypeOK
<1> QED BY <1>1 DEF ArtifactsInv, ArtifactsTypeOK, FilesBearStamp, StampedAsRead

LEMMA ArtifactsStep == ArtifactsInv /\ [ArtifactsNext]_artifactVars => ArtifactsInv'
<1> SUFFICES ASSUME ArtifactsInv, [ArtifactsNext]_artifactVars PROVE ArtifactsInv'
  OBVIOUS
<1> USE DEF DownloadRecord
<1>1. /\ \A d \in Download : downloads[d] \in DownloadRecord /\ (downloads[d].at # "served" => downloads[d].whole)
      /\ ArtifactsTypeOK /\ FilesBearStamp /\ StampedAsRead
  BY DEF ArtifactsInv, ArtifactsTypeOK
<1>2. CASE UNCHANGED artifactVars
  BY <1>2 DEF artifactVars, ArtifactsInv, ArtifactsTypeOK, FilesBearStamp, StampedAsRead
<1>3. CASE ChangeFacts
  <2>1. facts' \in Facts /\ UNCHANGED <<files, downloads>>
    BY <1>1, <1>3 DEF ChangeFacts, ArtifactsTypeOK, Facts, Status, Moves
  <2> QED BY <1>1, <2>1 DEF ArtifactsInv, ArtifactsTypeOK, FilesBearStamp, StampedAsRead
<1>4. CASE EndProcess
  <2>1. \A d \in Download : \/ downloads'[d] = downloads[d]
                            \/ /\ downloads[d].at # "served"
                               /\ downloads'[d] = [downloads[d] EXCEPT !.at = "gone"]
    BY <1>4 DEF EndProcess
  <2>2. UNCHANGED <<facts, files>> /\ downloads' = [d \in Download |-> downloads'[d]]
    BY <1>4 DEF EndProcess
  <2> QED BY <1>1, <2>1, <2>2 DEF ArtifactsInv, ArtifactsTypeOK, FilesBearStamp, StampedAsRead
<1>5. ASSUME NEW p \in Prints, LoseFile(p) PROVE ArtifactsInv'
  <2>1. NoFile \in [state : {"none", "whole"}, stamp : Stamps] /\ NoFile.state = "none"
    BY DEF NoFile, Stamps
  <2> QED BY <1>1, <1>5, <2>1
          DEF LoseFile, ArtifactsInv, ArtifactsTypeOK, FilesBearStamp, StampedAsRead
<1>6. ASSUME NEW d \in Download, Ask(d) PROVE ArtifactsInv'
  <2> DEFINE e == [downloads[d] EXCEPT !.at = "look", !.read = facts]
  <2>1. UNCHANGED <<facts, files>> /\ downloads' = [downloads EXCEPT ![d] = e] /\ downloads[d].at = "new"
    BY <1>6 DEF Ask
  <2>2. e.at = "look" /\ e.whole = downloads[d].whole /\ e \in DownloadRecord
    <3>1. downloads[d] \in DownloadRecord /\ facts \in Facts
      BY <1>1 DEF ArtifactsTypeOK
    <3> QED BY <3>1
  <2> HIDE DEF e
  <2> QED BY <1>1, <2>1, <2>2, DownloadMoves
<1>7. ASSUME NEW d \in Download, Look(d) PROVE ArtifactsInv'
  <2> DEFINE p == downloads[d].read
             e == IF p \in row /\ files[p].state # "none" THEN Served(d, p)
                  ELSE [downloads[d] EXCEPT !.at = IF Building(p) THEN "join" ELSE "build"]
  <2>1. /\ UNCHANGED <<facts, files>> /\ downloads[d].at = "look" /\ p \in Prints
        /\ downloads' = [downloads EXCEPT ![d] = e]
    BY <1>1, <1>7, StampsOK DEF Look
  <2>2. CASE p \in row /\ files[p].state # "none"
    <3>1. files[p].state = "whole" /\ files[p].stamp = Stamp(p) /\ files[p].stamp \in Stamps
      BY <1>1, <2>1, <2>2 DEF ArtifactsTypeOK, FilesBearStamp
    <3>2. e = [downloads[d] EXCEPT !.at = "served", !.stamp = files[p].stamp, !.whole = TRUE]
      BY <2>2, <3>1 DEF Served
    <3>3. e.stamp = Stamp(p) /\ e.read = p /\ e.whole
      <4>1. downloads[d] \in DownloadRecord
        BY <1>1
      <4> HIDE DEF e
      <4>2. e.stamp = files[p].stamp /\ e.whole /\ e.read = downloads[d].read
        BY <3>2, <4>1 DEF DownloadRecord
      <4> QED BY <3>1, <4>2
    <3>4. e \in DownloadRecord
      <4>1. downloads[d] \in DownloadRecord /\ files[p].stamp \in Stamps
        BY <1>1, <3>1
      <4> HIDE DEF e
      <4> QED BY <3>2, <4>1
    <3> HIDE DEF e
    <3> QED BY <2>1, <3>3, <3>4, DownloadMoves
  <2>3. CASE ~(p \in row /\ files[p].state # "none")
    <3>1. e.at \in {"join", "build"} /\ e.whole = downloads[d].whole
      BY <1>1, <2>3 DEF DownloadRecord
    <3>2. e \in DownloadRecord
      <4>1. downloads[d] \in DownloadRecord
        BY <1>1
      <4>2. \A a \in {"join", "build"} : [downloads[d] EXCEPT !.at = a] \in DownloadRecord
        BY <4>1
      <4>3. e = [downloads[d] EXCEPT !.at = "join"] \/ e = [downloads[d] EXCEPT !.at = "build"]
        BY <2>3
      <4> HIDE DEF e
      <4> QED BY <4>2, <4>3
    <3> HIDE DEF e
    <3> QED BY <1>1, <2>1, <3>1, <3>2, DownloadMoves
  <2> QED BY <2>2, <2>3
<1>8. ASSUME NEW d \in Download, WriteFile(d) PROVE ArtifactsInv'
  BY <1>1, <1>8 DEF WriteFile, ArtifactsInv, ArtifactsTypeOK, FilesBearStamp, StampedAsRead
<1>9. ASSUME NEW d \in Download, RenameFile(d) PROVE ArtifactsInv'
  <2> DEFINE p == downloads[d].read
  <2>1. /\ p \in Prints /\ facts' = facts /\ Stamp(p) \in Stamps
        /\ files' = [files EXCEPT ![p] = [state |-> "whole", stamp |-> Stamp(p)]]
        /\ downloads[d].at = "rename" /\ downloads' = [downloads EXCEPT ![d].at = "upsert"]
    BY <1>1, <1>9, StampsOK DEF RenameFile
  <2>2. FilesBearStamp' /\ ArtifactsTypeOK'
    BY <1>1, <2>1 DEF ArtifactsTypeOK, FilesBearStamp
  <2> QED BY <1>1, <2>1, <2>2 DEF ArtifactsInv, ArtifactsTypeOK, StampedAsRead
<1>10. ASSUME NEW d \in Download, UpsertRow(d) PROVE ArtifactsInv'
  <2> DEFINE p == downloads[d].read
             got(e) == [downloads[e] EXCEPT !.at = "served", !.stamp = Stamp(p)]
  <2>1. /\ UNCHANGED <<facts, files>> /\ downloads[d].at = "upsert" /\ p \in Facts
        /\ Fingerprint(p) = p /\ Stamp(p) \in Stamps
    BY <1>1, <1>10, StampsOK DEF UpsertRow, DownloadRecord
  <2>2. downloads' = [e \in Download |->
          IF e = d \/ (downloads[e].at = "join" /\ Fingerprint(downloads[e].read) = p)
          THEN got(e) ELSE downloads[e]]
    BY <1>10, <2>1 DEF UpsertRow, BuildKey
  <2>3. ASSUME NEW e \in Download
        PROVE  /\ downloads'[e] \in DownloadRecord
               /\ downloads'[e].at = "served" => downloads'[e].stamp = Stamp(downloads'[e].read)
               /\ downloads'[e].whole \/ downloads[e].at = "served"
               /\ downloads[e].at = "served" => downloads'[e] = downloads[e]
    <3>1. CASE e = d \/ (downloads[e].at = "join" /\ Fingerprint(downloads[e].read) = p)
      <4>1. downloads'[e] = got(e) /\ downloads[e].at # "served" /\ downloads[e].read \in Facts
        BY <1>1, <2>1, <2>2, <3>1 DEF DownloadRecord
      <4>2. downloads[e].read = p
        BY <3>1, <4>1, StampsOK
      <4>3. got(e) \in DownloadRecord
        <5>1. downloads[e] \in DownloadRecord
          BY <1>1
        <5> QED BY <2>1, <5>1
      <4>4. got(e).stamp = Stamp(p) /\ got(e).read = p /\ got(e).whole = downloads[e].whole
        BY <1>1, <4>2 DEF DownloadRecord
      <4> QED BY <1>1, <4>1, <4>3, <4>4
    <3>2. CASE ~(e = d \/ (downloads[e].at = "join" /\ Fingerprint(downloads[e].read) = p))
      BY <1>1, <2>2, <3>2 DEF StampedAsRead
    <3> QED BY <3>1, <3>2
  <2>4. downloads' = [e \in Download |-> downloads'[e]]
    BY <2>2
  <2>5. ArtifactsTypeOK'
    BY <1>1, <2>1, <2>3, <2>4 DEF ArtifactsTypeOK
  <2>6. StampedAsRead' /\ \A e \in Download : downloads'[e].at # "served" => downloads'[e].whole
    BY <1>1, <2>3 DEF StampedAsRead
  <2> QED BY <1>1, <2>1, <2>5, <2>6 DEF ArtifactsInv, FilesBearStamp
<1> QED BY <1>2, <1>3, <1>4, <1>5, <1>6, <1>7, <1>8, <1>9, <1>10 DEF ArtifactsNext

\* getOrCreateRevisionArtifact: a download hands out a whole copy with the stamp of what it
\* read, whoever built it, however the document moved on and wherever the process ended.
THEOREM CopiesBearTheirStamp == ArtifactsSpec => []StampedAsRead
<1>1. ArtifactsInit => ArtifactsInv
  <2> SUFFICES ASSUME ArtifactsInit PROVE ArtifactsInv
    OBVIOUS
  <2>1. Asked.read \in Facts /\ Asked.at = "new" /\ Asked.whole
        /\ Asked \in DownloadRecord
    BY DEF Asked, Facts, Status, Stamps, DownloadRecord
  <2>2. NoFile \in [state : {"none", "whole"}, stamp : Stamps] /\ NoFile.state = "none"
    BY DEF NoFile, Stamps
  <2> QED BY <2>1, <2>2 DEF ArtifactsInit, ArtifactsInv, ArtifactsTypeOK, FilesBearStamp, StampedAsRead
<1>2. ArtifactsInv => StampedAsRead
  BY DEF ArtifactsInv
<1> QED BY <1>1, <1>2, ArtifactsStep, PTL DEF ArtifactsSpec

-----------------------------------------------------------------------------
(* Where hardcopies are kept *)

\* Every reaction of the form selects what there is.
LEMMA FormSelects ==
  ASSUME RoutesTypeOK, NEW f \in Selection
  PROVE  /\ \A a \in Area \cup {None} : WithArea(f, a) \in Selection
         /\ \A s \in Specific \cup {None} : WithSpecific(f, s) \in Selection
         /\ \A x \in Asset \cup {None} : WithAsset(f, x) \in Selection
         /\ \A l \in Place \cup {None} : WithPlace(f, l) \in Selection
<1>1. \A g \in Selection : WithoutPlace(g) \in Selection
  BY DEF WithoutPlace, Selection
<1>2. \A g \in Selection : Filtered(g) \in Selection
  BY <1>1 DEF Filtered, Selection
<1>3. \A g \in Selection, a \in Area \cup {None} : WithArea(g, a) \in Selection
  <2> SUFFICES ASSUME NEW g \in Selection, NEW a \in Area \cup {None}
               PROVE  WithArea(g, a) \in Selection
    OBVIOUS
  <2>1. /\ [g EXCEPT !.area = a, !.specific = None] \in Selection
        /\ [g EXCEPT !.area = a] \in Selection
    BY DEF Selection
  <2> QED BY <1>2, <2>1 DEF WithArea
<1>4. \A s \in Specific \cup {None} : AreaOf(s) \in Area \cup {None}
  BY DEF AreaOf, RoutesTypeOK
<1>5. \A g \in Selection, s \in Specific \cup {None} : WithSpecific(g, s) \in Selection
  <2> SUFFICES ASSUME NEW g \in Selection, NEW s \in Specific \cup {None}
               PROVE  WithSpecific(g, s) \in Selection
    OBVIOUS
  <2>1. First(AreaOf(s), g.area) \in Area \cup {None}
    BY <1>4 DEF First, Selection
  <2>2. [g EXCEPT !.specific = s, !.area = First(AreaOf(s), @)] \in Selection
    BY <2>1 DEF Selection
  <2> QED BY <1>2, <2>2 DEF WithSpecific
<1>6. \A g \in Selection, x \in Asset \cup {None} : WithAsset(g, x) \in Selection
  <2> SUFFICES ASSUME NEW g \in Selection, NEW x \in Asset \cup {None}
               PROVE  WithAsset(g, x) \in Selection
    OBVIOUS
  <2>1. [g EXCEPT !.asset = x] \in Selection /\ AssetOn(x) \in Specific \cup {None}
    BY DEF Selection, AssetOn, RoutesTypeOK
  <2> QED BY <1>1, <1>5, <2>1 DEF WithAsset
<1>7. \A g \in Selection, l \in Place \cup {None} : WithPlace(g, l) \in Selection
  <2> SUFFICES ASSUME NEW g \in Selection, NEW l \in Place \cup {None}
               PROVE  WithPlace(g, l) \in Selection
    OBVIOUS
  <2>1. [g EXCEPT !.place = l] \in Selection
    BY DEF Selection
  <2>2. l # None => placeAt[l].asset \in Asset \cup {None} /\ placeAt[l].specific \in Specific \cup {None}
    BY DEF RoutesTypeOK
  <2>3. \A h \in Selection : [h EXCEPT !.asset = None] \in Selection /\ [h EXCEPT !.place = l] \in Selection
    BY DEF Selection
  <2> QED BY <1>5, <1>6, <2>1, <2>2, <2>3 DEF WithPlace
<1> QED BY <1>3, <1>5, <1>6, <1>7

\* resolveHardcopyStorageRoute: what a form that agrees with the catalog resolves to agrees too.
LEMMA ResolvedAgrees ==
  ASSUME RoutesTypeOK, NEW f \in Selection, f.place # None
  PROVE  Resolved(f) \in Selection /\ (Agrees(f) => Agrees(Resolved(f)))
<1> DEFINE at == placeAt[f.place]
           over == AssetOn(at.asset)
<1>1. /\ f.area \in Area \cup {None} /\ f.specific \in Specific \cup {None}
      /\ f.asset \in Asset \cup {None} /\ f.place \in Place
      /\ at.asset \in Asset \cup {None} /\ at.specific \in Specific \cup {None}
  BY DEF RoutesTypeOK, Selection
<1>2. over \in Specific \cup {None}
  BY <1>1 DEF RoutesTypeOK, AssetOn
<1>3. /\ Resolved(f).specific = First(First(over, at.specific), f.specific)
      /\ Resolved(f).area = First(First(AreaOf(over), AreaOf(at.specific)), f.area)
      /\ Resolved(f) = [area |-> Resolved(f).area, specific |-> Resolved(f).specific,
                        asset |-> First(at.asset, f.asset), place |-> f.place]
  BY DEF Resolved, RouteOf, AssetOn
<1>4. \A s \in Specific \cup {None} : AreaOf(s) \in Area \cup {None}
  BY DEF AreaOf, RoutesTypeOK
<1> HIDE DEF at, over
<1>5. Resolved(f) \in Selection
  BY <1>1, <1>2, <1>3, <1>4 DEF First, Selection
<1>6. ASSUME Agrees(f) PROVE Agrees(Resolved(f))
  <2>1. CASE over # None
    BY <1>2, <1>3, <1>4, <2>1, RouteAssumption DEF First, Agrees, AreaOf
  <2>2. CASE over = None /\ at.specific # None
    BY <1>1, <1>3, <1>4, <2>2 DEF First, Agrees, AreaOf
  <2>3. CASE over = None /\ at.specific = None
    BY <1>1, <1>3, <1>6, <2>3 DEF First, Agrees, AreaOf
  <2> QED BY <2>1, <2>2, <2>3
<1> QED BY <1>5, <1>6

\* resolveDestinationStorage: the same for the destination of a transfer.
LEMMA DestinationAgrees ==
  ASSUME RoutesTypeOK, NEW f \in Selection, f.place # None
  PROVE  Destination(f) \in Selection /\ (Agrees(f) => Agrees(Destination(f)))
<1> DEFINE at == placeAt[f.place]
           over == AssetOn(at.asset)
           own == AssetOn(f.asset)
<1>1. /\ f.area \in Area \cup {None} /\ f.specific \in Specific \cup {None}
      /\ f.asset \in Asset \cup {None} /\ f.place \in Place
      /\ at.asset \in Asset \cup {None} /\ at.specific \in Specific \cup {None}
  BY DEF RoutesTypeOK, Selection
<1>2. over \in Specific \cup {None} /\ own \in Specific \cup {None}
  BY <1>1 DEF RoutesTypeOK, AssetOn
<1>3. /\ Destination(f).specific = First(First(over, at.specific), First(own, f.specific))
      /\ Destination(f).area = First(First(AreaOf(over), AreaOf(at.specific)),
                                     First(AreaOf(own), f.area))
      /\ Destination(f) = [area |-> Destination(f).area, specific |-> Destination(f).specific,
                           asset |-> First(at.asset, f.asset), place |-> f.place]
  BY DEF Destination
<1>4. \A s \in Specific \cup {None} : AreaOf(s) \in Area \cup {None}
  BY DEF AreaOf, RoutesTypeOK
<1> HIDE DEF at, over, own
<1>5. Destination(f) \in Selection
  BY <1>1, <1>2, <1>3, <1>4 DEF First, Selection
<1>6. ASSUME Agrees(f) PROVE Agrees(Destination(f))
  <2>1. CASE over # None
    BY <1>2, <1>3, <1>4, <2>1, RouteAssumption DEF First, Agrees, AreaOf
  <2>2. CASE over = None /\ at.specific # None
    BY <1>1, <1>3, <1>4, <2>2 DEF First, Agrees, AreaOf
  <2>3. CASE over = None /\ at.specific = None /\ own # None
    BY <1>2, <1>3, <1>4, <2>3, RouteAssumption DEF First, Agrees, AreaOf
  <2>4. CASE over = None /\ at.specific = None /\ own = None
    BY <1>1, <1>3, <1>6, <2>4 DEF First, Agrees, AreaOf
  <2> QED BY <2>1, <2>2, <2>3, <2>4
<1> QED BY <1>5, <1>6

\* What each handler has read, and each transfer destined.
HandlersOK == RowsFound /\ \A j \in begun : HandlerOf(j)

LEMMA HandlerBegins ==
  ASSUME HandlersOK, NEW by, NEW of, NEW read, Reads(by, of, read),
         HandlerOf([by |-> by, of |-> of, read |-> read]),
         by = "import" /\ of.specific # None => read.area = of.area
  PROVE  HandlersOK'
<1> DEFINE h == [by |-> by, of |-> of, read |-> read]
<1>1. begun' = begun \cup {h} /\ h.by = by /\ h.of = of /\ h.read = read /\ HandlerOf(h)
  BY DEF Reads
<1> HIDE DEF h
<1> QED BY <1>1 DEF HandlersOK, RowsFound

\* A removal leaves the destination of a transfer without what is removed.
LEMMA HandlersNulled ==
  ASSUME HandlersOK, NEW field \in {"area", "specific", "asset"}, NEW v, begun' = Nulled(field, v)
  PROVE  HandlersOK'
<1> SUFFICES ASSUME NEW j \in begun,
                    NEW h, h = IF j.by = "transfer" /\ j.read[field] = v
                               THEN [j EXCEPT !.read[field] = None] ELSE j
             PROVE  HandlerOf(h) /\ (h.by = "import" /\ h.of.specific # None => h.read.area = h.of.area)
  BY DEF HandlersOK, RowsFound, Nulled
<1>1. HandlerOf(j) /\ (j.by = "import" /\ j.of.specific # None => j.read.area = j.of.area)
  BY DEF HandlersOK, RowsFound
<1>2. CASE h = j
  BY <1>1, <1>2
<1>3. CASE h # j
  <2>1. j.by = "transfer" /\ h = [j EXCEPT !.read[field] = None]
    BY <1>3
  <2>2. j \in [by : {"form", "transfer"}, of : {f \in Selection : f.place # None}, read : Selection]
    BY <1>1, <2>1 DEF HandlerOf
  <2>3. [j.read EXCEPT ![field] = None] \in Selection
    BY <2>2 DEF Selection
  <2>4. h = [j EXCEPT !.read = [j.read EXCEPT ![field] = None]]
    BY <2>1
  <2>5. /\ h \in [by : {"form", "transfer"}, of : {f \in Selection : f.place # None}, read : Selection]
        /\ h.by = "transfer"
    BY <2>1, <2>2, <2>3, <2>4
  <2> QED BY <2>5 DEF HandlerOf
<1> QED BY <1>2, <1>3

LEMMA HandlersStep == RoutesTypeOK /\ RowsFound /\ [RoutesNext]_rvars => HandlersOK'
<1> SUFFICES ASSUME RoutesTypeOK, RowsFound, [RoutesNext]_rvars PROVE HandlersOK'
  OBVIOUS
<1>1. HandlersOK
  BY DEF HandlersOK, RoutesTypeOK
<1>2. CASE UNCHANGED rvars \/ Select \/ OpenForm
  BY <1>1, <1>2 DEF rvars, Select, OpenForm, HandlersOK, RowsFound
<1>3. ASSUME NEW j \in begun,
             \/ SaveForm(j) \/ ImportRow(j) \/ AcceptTransfer(j)
             \/ UpdateSpecific(j) \/ UpdateAsset(j) \/ UpdatePlace(j)
      PROVE  HandlersOK'
  <2>1. begun' = begun \ {j}
    BY <1>3, Zenon DEF SaveForm, ImportRow, AcceptTransfer, UpdateSpecific, UpdateAsset, UpdatePlace,
                       Writes, WritesSelection
  <2> QED BY <1>1, <2>1 DEF HandlersOK, RowsFound
<1>4. CASE BeginSave
  <2>1. Reads("form", form, Resolved(form)) /\ form \in Selection /\ form.place # None
    BY <1>4 DEF BeginSave, RoutesTypeOK
  <2>2. HandlerOf([by |-> "form", of |-> form, read |-> Resolved(form)])
    BY <2>1, ResolvedAgrees DEF HandlerOf
  <2> QED BY <1>1, <2>1, <2>2, HandlerBegins
<1>5. ASSUME NEW f \in Selection, BeginRow(f) PROVE HandlersOK'
  <2>1. Reads("import", f, Looked(f)) /\ (f.specific # None => areaOf[f.specific] = f.area)
    BY <1>5 DEF BeginRow
  <2>2. Looked(f) \in [area : Area \cup {None}] /\ Looked(f).area = AreaOf(f.specific)
    BY DEF Looked, AreaOf, Selection, RoutesTypeOK
  <2>3. HandlerOf([by |-> "import", of |-> f, read |-> Looked(f)])
    BY <2>2 DEF HandlerOf
  <2> QED BY <1>1, <2>1, <2>2, <2>3, HandlerBegins DEF AreaOf
<1>6. ASSUME NEW f \in Selection, RequestTransfer(f) PROVE HandlersOK'
  <2>1. Reads("transfer", f, Destination(f)) /\ f.place # None
    BY <1>6 DEF RequestTransfer
  <2>2. HandlerOf([by |-> "transfer", of |-> f, read |-> Destination(f)])
    BY <2>1, DestinationAgrees DEF HandlerOf
  <2> QED BY <1>1, <2>1, <2>2, HandlerBegins
<1>7. ASSUME NEW s \in Specific, NEW a \in Area \cup {None}, BeginSpecific(s, a) PROVE HandlersOK'
  <2>1. Reads("specific", [specific |-> s, area |-> a], OnSpecific(s))
    BY <1>7 DEF BeginSpecific
  <2>2. OnSpecific(s) \in [held : BOOLEAN]
    BY DEF OnSpecific
  <2>3. HandlerOf([by |-> "specific", of |-> [specific |-> s, area |-> a], read |-> OnSpecific(s)])
    BY <2>2 DEF HandlerOf
  <2> QED BY <1>1, <2>1, <2>3, HandlerBegins
<1>8. ASSUME NEW x \in Asset, NEW s \in Specific \cup {None}, BeginAsset(x, s) PROVE HandlersOK'
  <2>1. Reads("asset", [asset |-> x, specific |-> s], OnAsset(x, s))
    BY <1>8 DEF BeginAsset
  <2>2. AreaOf(s) \in Area \cup {None}
    BY DEF AreaOf, RoutesTypeOK
  <2>3. OnAsset(x, s) \in [area : Area \cup {None}, places : SUBSET Place, held : BOOLEAN]
    BY <2>2 DEF OnAsset
  <2>4. HandlerOf([by |-> "asset", of |-> [asset |-> x, specific |-> s], read |-> OnAsset(x, s)])
    BY <2>3 DEF HandlerOf
  <2> QED BY <1>1, <2>1, <2>4, HandlerBegins
<1>9. ASSUME NEW l \in Place, NEW x \in Asset \cup {None, Kept}, NEW s \in Specific \cup {None},
             BeginPlace(l, x, s)
      PROVE  HandlersOK'
  <2> DEFINE r == OnPlace(l, x, s)
  <2>1. Reads("place", [place |-> l, asset |-> x, specific |-> s], r) /\ r.own # None
    BY <1>9 DEF BeginPlace
  <2>2. r \in [asset : Asset \cup {None}, own : Specific, on : Specific \cup {None},
               area : Area \cup {None}, held : BOOLEAN]
    <3>1. r.asset \in Asset \cup {None} /\ r.own \in Specific \cup {None}
      BY DEF OnPlace, RoutesTypeOK, First, AssetOn
    <3>2. r.on = First(AssetOn(r.asset), r.own) /\ r.area = AreaOf(r.on)
      BY DEF OnPlace
    <3>3. r.on \in Specific \cup {None}
      BY <3>1, <3>2 DEF RoutesTypeOK, First, AssetOn
    <3>4. r.area \in Area \cup {None}
      BY <3>2, <3>3 DEF RoutesTypeOK, AreaOf
    <3>5. r = [asset |-> r.asset, own |-> r.own, on |-> r.on, area |-> r.area, held |-> r.held]
          /\ r.held \in BOOLEAN
      BY DEF OnPlace
    <3> HIDE DEF r
    <3> QED BY <2>1, <3>1, <3>3, <3>4, <3>5
  <2>3. HandlerOf([by |-> "place", of |-> [place |-> l, asset |-> x, specific |-> s], read |-> r])
    BY <2>2 DEF HandlerOf
  <2> QED BY <1>1, <2>1, <2>3, HandlerBegins
<1>10. ASSUME NEW a \in Area, RemoveArea(a) PROVE HandlersOK'
  BY <1>1, <1>10, HandlersNulled DEF RemoveArea
<1>11. ASSUME NEW s \in Specific, RemoveSpecific(s) PROVE HandlersOK'
  BY <1>1, <1>11, HandlersNulled DEF RemoveSpecific
<1>12. ASSUME NEW x \in Asset, RemoveAsset(x) PROVE HandlersOK'
  BY <1>1, <1>12, HandlersNulled DEF RemoveAsset
<1> QED BY <1>2, <1>3, <1>4, <1>5, <1>6, <1>7, <1>8, <1>9, <1>10, <1>11, <1>12 DEF RoutesNext

\* What a handler of each kind has, by its kind.
LEMMA Handlers ==
  ASSUME RoutesTypeOK, NEW j \in begun
  PROVE  /\ j.by \in {"form", "transfer"} =>
              j.of \in Selection /\ j.of.place # None /\ j.read \in Selection
         /\ j.by = "import" => j.of \in Selection /\ j.read = [area |-> j.read.area]
         /\ j.by = "specific" => j.of.specific \in Specific /\ j.of.area \in Area \cup {None}
         /\ j.by = "asset" => /\ j.of.asset \in Asset /\ j.of.specific \in Specific \cup {None}
                              /\ j.read.area \in Area \cup {None}
         /\ j.by = "place" => /\ j.of.place \in Place /\ j.read.asset \in Asset \cup {None}
                              /\ j.read.own \in Specific /\ j.read.on \in Specific \cup {None}
                              /\ j.read.area \in Area \cup {None}
BY DEF RoutesTypeOK, HandlerOf

LEMMA RoutesTyped == RoutesTypeOK /\ RowsFound /\ [RoutesNext]_rvars => RoutesTypeOK'
<1> SUFFICES ASSUME RoutesTypeOK, RowsFound, [RoutesNext]_rvars PROVE RoutesTypeOK'
  OBVIOUS
<1> DEFINE StateOK ==
      /\ areaOf \in [Specific -> Area \cup {None}]
      /\ assetOn \in [Asset -> Specific \cup {None}]
      /\ placeAt \in [Place -> [asset : Asset \cup {None}, specific : Specific \cup {None}]]
      /\ copy \in Selection /\ form \in Selection
<1>1. StateOK
  BY DEF RoutesTypeOK
<1>2. Empty \in Selection
  BY DEF Empty, Selection
<1>3. ASSUME UNCHANGED rvars PROVE StateOK'
  BY <1>1, <1>3 DEF rvars
<1>4. ASSUME Select PROVE StateOK'
  BY <1>1, <1>4, FormSelects DEF Select
<1>5. ASSUME OpenForm \/ BeginSave PROVE StateOK'
  BY <1>1, <1>2, <1>5 DEF OpenForm, BeginSave
<1>6. ASSUME NEW j \in begun, SaveForm(j) \/ ImportRow(j) \/ AcceptTransfer(j) PROVE StateOK'
  <2>1. UNCHANGED <<areaOf, assetOn, placeAt, form>>
    BY <1>6 DEF SaveForm, ImportRow, AcceptTransfer
  <2>2. copy' \in Selection
    BY <1>1, <1>6, Handlers DEF SaveForm, ImportRow, AcceptTransfer
  <2> QED BY <1>1, <2>1, <2>2
<1>7. ASSUME NEW j \in begun, UpdateSpecific(j) PROVE StateOK'
  <2>1. /\ j.of.specific \in Specific /\ j.of.area \in Area \cup {None}
        /\ areaOf' = [areaOf EXCEPT ![j.of.specific] = j.of.area]
        /\ UNCHANGED <<assetOn, placeAt, form>>
    BY <1>7, Handlers DEF UpdateSpecific
  <2>2. copy' = copy \/ copy' = [copy EXCEPT !.specific = j.of.specific, !.area = j.of.area]
    BY <1>7 DEF UpdateSpecific
  <2> QED BY <1>1, <2>1, <2>2 DEF Selection
<1>8. ASSUME NEW j \in begun, UpdateAsset(j) PROVE StateOK'
  <2>1. /\ j.of.asset \in Asset /\ j.of.specific \in Specific \cup {None} /\ j.read.area \in Area \cup {None}
        /\ assetOn' = [assetOn EXCEPT ![j.of.asset] = j.of.specific]
        /\ UNCHANGED <<areaOf, form>>
    BY <1>8, Handlers DEF UpdateAsset
  <2>2. placeAt' \in [Place -> [asset : Asset \cup {None}, specific : Specific \cup {None}]]
    BY <1>1, <1>8, <2>1 DEF UpdateAsset
  <2>3. \/ copy' = copy
        \/ copy' = [copy EXCEPT !.asset = j.of.asset, !.specific = j.of.specific, !.area = j.read.area]
    BY <1>8 DEF UpdateAsset
  <2> QED BY <1>1, <2>1, <2>2, <2>3 DEF Selection
<1>9. ASSUME NEW j \in begun, UpdatePlace(j) PROVE StateOK'
  <2>1. /\ j.of.place \in Place /\ j.read.asset \in Asset \cup {None} /\ j.read.own \in Specific
        /\ j.read.on \in Specific \cup {None} /\ j.read.area \in Area \cup {None}
        /\ UNCHANGED <<areaOf, assetOn, form>>
        /\ placeAt' = [placeAt EXCEPT ![j.of.place] = [asset |-> j.read.asset, specific |-> j.read.own]]
    BY <1>9, Handlers DEF UpdatePlace
  <2>2. \/ copy' = copy
        \/ copy' = [copy EXCEPT !.asset = j.read.asset, !.specific = j.read.on, !.area = j.read.area]
    BY <1>9 DEF UpdatePlace
  <2> QED BY <1>1, <2>1, <2>2 DEF Selection
<1>10. ASSUME \/ \E f \in Selection : BeginRow(f) \/ RequestTransfer(f)
              \/ \E s \in Specific, a \in Area \cup {None} : BeginSpecific(s, a)
              \/ \E x \in Asset, s \in Specific \cup {None} : BeginAsset(x, s)
              \/ \E l \in Place, x \in Asset \cup {None, Kept}, s \in Specific \cup {None} : BeginPlace(l, x, s)
       PROVE  StateOK'
  BY <1>1, <1>10 DEF BeginRow, RequestTransfer, BeginSpecific, BeginAsset, BeginPlace
<1>11. ASSUME NEW a \in Area, RemoveArea(a) PROVE StateOK'
  BY <1>1, <1>11 DEF RemoveArea
<1>12. ASSUME NEW s \in Specific, RemoveSpecific(s) PROVE StateOK'
  BY <1>1, <1>12 DEF RemoveSpecific, Selection
<1>13. ASSUME NEW x \in Asset, RemoveAsset(x) PROVE StateOK'
  BY <1>1, <1>13 DEF RemoveAsset, Selection
<1>14. StateOK'
  BY <1>3, <1>4, <1>5, <1>6, <1>7, <1>8, <1>9, <1>10, <1>11, <1>12, <1>13 DEF RoutesNext
<1> QED BY <1>14, HandlersStep DEF RoutesTypeOK, HandlersOK

\* Only what writes the row or the catalog from outdated rows strays.
LEMMA Straying ==
  ASSUME NEW j, NEW now, NEW held \in BOOLEAN, Writes(j, now, held), ~strayed'
  PROVE  j.read = now /\ (~held => ~strayed)
BY Zenon DEF Writes

LEMMA StrayingSelection ==
  ASSUME NEW j, NEW now, WritesSelection(j, now), ~strayed'
  PROVE  j.read = now /\ Agrees(j.of)
BY Zenon DEF WritesSelection

LEMMA RoutesAgree == RoutesInv /\ [RoutesNext]_rvars => CopyInAreaOfSpecific'
<1> SUFFICES ASSUME RoutesTypeOK, RowsFound, CopyInAreaOfSpecific, [RoutesNext]_rvars, ~strayed'
             PROVE  Agrees(copy)'
  BY DEF RoutesInv, CopyInAreaOfSpecific
<1>1. ~strayed => Agrees(copy)
  BY DEF CopyInAreaOfSpecific
<1>2. ASSUME ~strayed, areaOf' = areaOf, copy'.area = copy.area, copy'.specific = copy.specific
      PROVE  Agrees(copy)'
  BY <1>1, <1>2 DEF Agrees
<1>3. CASE UNCHANGED <<areaOf, copy, strayed>>
  BY <1>2, <1>3
<1>4. ASSUME NEW j \in begun, SaveForm(j) PROVE Agrees(copy)'
  <2>1. /\ j.by = "form" /\ copy' = j.read /\ WritesSelection(j, Resolved(j.of)) /\ areaOf' = areaOf
    BY <1>4 DEF SaveForm
  <2>2. j.read = Resolved(j.of) /\ Agrees(j.of)
    BY <2>1, StrayingSelection
  <2>3. j.of \in Selection /\ j.of.place # None
    BY <2>1, Handlers
  <2>4. Agrees(Resolved(j.of))
    BY <2>2, <2>3, ResolvedAgrees
  <2> QED BY <2>1, <2>2, <2>4 DEF Agrees
<1>5. ASSUME NEW j \in begun, ImportRow(j) PROVE Agrees(copy)'
  <2>1. j.by = "import" /\ copy' = j.of /\ Writes(j, Looked(j.of), TRUE) /\ areaOf' = areaOf
    BY <1>5 DEF ImportRow
  <2>2. j.read = Looked(j.of)
    BY <2>1, Straying
  <2>3. j.of.specific # None => areaOf[j.of.specific] = j.of.area
    BY <2>1, <2>2 DEF RowsFound, Looked, AreaOf
  <2> QED BY <2>1, <2>3 DEF Agrees
<1>6. ASSUME NEW j \in begun, AcceptTransfer(j) PROVE Agrees(copy)'
  <2>1. j.by = "transfer" /\ areaOf' = areaOf
    BY <1>6 DEF AcceptTransfer
  <2>2. CASE j.read.area # None
    <3>1. copy' = j.read /\ WritesSelection(j, Destination(j.of))
      BY <1>6, <2>2 DEF AcceptTransfer
    <3>2. j.read = Destination(j.of) /\ Agrees(j.of)
      BY <3>1, StrayingSelection
    <3>3. j.of \in Selection /\ j.of.place # None
      BY <2>1, Handlers
    <3>4. Agrees(Destination(j.of))
      BY <3>2, <3>3, DestinationAgrees
    <3> QED BY <2>1, <3>1, <3>2, <3>4 DEF Agrees
  <2>3. CASE j.read.area = None
    BY <1>3, <1>6, <2>1, <2>3 DEF AcceptTransfer
  <2> QED BY <2>2, <2>3
<1>7. ASSUME NEW j \in begun, UpdateSpecific(j) PROVE Agrees(copy)'
  <2> DEFINE s == j.of.specific
             held == j.of.area # None /\ j.read.held
  <2>1. /\ s \in Specific /\ areaOf' = [areaOf EXCEPT ![s] = j.of.area]
        /\ copy' = IF held THEN [copy EXCEPT !.specific = s, !.area = j.of.area] ELSE copy
        /\ Writes(j, OnSpecific(s), held)
    BY <1>7, Handlers DEF UpdateSpecific
  <2>2. CASE held
    <3>1. copy'.specific = s /\ copy'.area = j.of.area /\ areaOf'[s] = j.of.area
      BY <2>1, <2>2 DEF RoutesTypeOK, Selection
    <3> QED BY <3>1 DEF Agrees
  <2>3. CASE ~held
    <3>1. j.read = OnSpecific(s) /\ ~strayed /\ copy' = copy
      <4>1. held \in BOOLEAN
        OBVIOUS
      <4> HIDE DEF held
      <4> QED BY <2>1, <2>3, <4>1, Straying
    <3>2. j.of.area = None \/ copy.specific # s
      BY <2>3, <3>1 DEF OnSpecific
    <3> QED BY <1>1, <2>1, <3>1, <3>2 DEF Agrees, RoutesTypeOK, Selection
  <2> QED BY <2>2, <2>3
<1>8. ASSUME NEW j \in begun, UpdateAsset(j) PROVE Agrees(copy)'
  <2> DEFINE x == j.of.asset
             s == j.of.specific
             held == j.read.area # None /\ j.read.held
  <2>1. /\ areaOf' = areaOf /\ s \in Specific \cup {None} /\ held \in BOOLEAN
        /\ copy' = IF held THEN [copy EXCEPT !.asset = x, !.specific = s, !.area = j.read.area] ELSE copy
        /\ Writes(j, OnAsset(x, s), held)
    BY <1>8, Handlers DEF UpdateAsset
  <2>2. CASE held
    <3>1. j.read.area = AreaOf(s)
      <4>1. j.read = OnAsset(x, s)
        BY <2>1, Straying
      <4> QED BY <4>1 DEF OnAsset
    <3>2. copy'.specific = s /\ copy'.area = j.read.area
      BY <2>1, <2>2 DEF RoutesTypeOK, Selection
    <3> QED BY <2>1, <3>1, <3>2 DEF Agrees, AreaOf
  <2>3. CASE ~held
    <3>1. ~strayed
      BY <2>1, <2>3, Straying
    <3> QED BY <1>2, <2>1, <2>3, <3>1
  <2> QED BY <2>2, <2>3
<1>9. ASSUME NEW j \in begun, UpdatePlace(j) PROVE Agrees(copy)'
  <2> DEFINE to == j.read
             now == OnPlace(j.of.place, j.of.asset, j.of.specific)
             held == to.held /\ to.area # None
  <2>1. /\ areaOf' = areaOf /\ held \in BOOLEAN
        /\ copy' = IF held THEN [copy EXCEPT !.asset = to.asset, !.specific = to.on, !.area = to.area]
                   ELSE copy
        /\ Writes(j, now, held)
    BY <1>9 DEF UpdatePlace
  <2>2. CASE held
    <3>1. to.area = AreaOf(to.on)
      <4>1. to = now
        BY <2>1, Straying
      <4> QED BY <4>1 DEF OnPlace
    <3>2. copy'.specific = to.on /\ copy'.area = to.area
      BY <2>1, <2>2 DEF RoutesTypeOK, Selection
    <3> QED BY <2>1, <3>1, <3>2 DEF Agrees, AreaOf
  <2>3. CASE ~held
    <3>1. ~strayed
      BY <2>1, <2>3, Straying
    <3> QED BY <1>2, <2>1, <2>3, <3>1
  <2> QED BY <2>2, <2>3
<1>10. ASSUME NEW a \in Area, RemoveArea(a) PROVE Agrees(copy)'
  BY <1>1, <1>10 DEF RemoveArea, Agrees, RoutesTypeOK, Selection
<1>11. ASSUME NEW s \in Specific, RemoveSpecific(s) PROVE Agrees(copy)'
  BY <1>1, <1>11 DEF RemoveSpecific, Agrees, RoutesTypeOK, Selection
<1>12. ASSUME NEW x \in Asset, RemoveAsset(x) PROVE Agrees(copy)'
  <2>1. areaOf' = areaOf /\ strayed' = strayed /\ copy'.area = copy.area /\ copy'.specific = copy.specific
    BY <1>12 DEF RemoveAsset, RoutesTypeOK, Selection
  <2> QED BY <1>2, <2>1
<1>13. CASE UNCHANGED rvars \/ Select \/ OpenForm \/ BeginSave
  BY <1>3, <1>13 DEF rvars, Select, OpenForm, BeginSave
<1>14. ASSUME \/ \E f \in Selection : BeginRow(f) \/ RequestTransfer(f)
              \/ \E s \in Specific, a \in Area \cup {None} : BeginSpecific(s, a)
              \/ \E x \in Asset, s \in Specific \cup {None} : BeginAsset(x, s)
              \/ \E l \in Place, x \in Asset \cup {None, Kept}, s \in Specific \cup {None} : BeginPlace(l, x, s)
       PROVE  Agrees(copy)'
  BY <1>3, <1>14 DEF BeginRow, RequestTransfer, BeginSpecific, BeginAsset, BeginPlace
<1> QED BY <1>4, <1>5, <1>6, <1>7, <1>8, <1>9, <1>10, <1>11, <1>12, <1>13, <1>14 DEF RoutesNext

\* resolveHardcopyStorageRoute, resolveDestinationStorage and the updateMany of the catalog's
\* services: a hardcopy stays in the area of its specific, unless, since its row was last
\* written from what the catalog said, one wrote by what others had changed meanwhile, or a
\* selection that the catalog contradicted.
THEOREM CopiesFollowCatalog == RoutesSpec => []CopyInAreaOfSpecific
<1>1. RoutesInit => RoutesInv
  <2> SUFFICES ASSUME RoutesInit PROVE RoutesInv
    OBVIOUS
  <2>1. RoutesTypeOK /\ RowsFound
    BY DEF RoutesInit, RoutesTypeOK, RowsFound, Empty, Selection
  <2>2. CopyInAreaOfSpecific
    BY DEF RoutesInit, CopyInAreaOfSpecific, Agrees, Empty
  <2> QED BY <2>1, <2>2 DEF RoutesInv
<1>2. RoutesInv /\ [RoutesNext]_rvars => RoutesInv'
  BY RoutesTyped, RoutesAgree, HandlersStep DEF RoutesInv, HandlersOK
<1>3. RoutesInv => CopyInAreaOfSpecific
  BY DEF RoutesInv
<1> QED BY <1>1, <1>2, <1>3, PTL DEF RoutesSpec

-----------------------------------------------------------------------------
(* Codes of locations *)

\* Of the numbers in a set that is not empty one is the least.
LEMMA Least ==
  ASSUME NEW S \in SUBSET Nat, S # {}
  PROVE  \E n \in S : \A k \in S : n =< k
<1>1. PICK n \in S : \A k \in S : <<k, n>> \notin OpToRel(<, Nat)
  BY NatLessThanWellFounded, WFMin
<1>2. \A k \in S : ~(k < n)
  BY <1>1 DEF OpToRel
<1> QED BY <1>2

\* A function that is defined by its value at an earlier number exists.
Steps(S, X, x0, pre, step) ==
  /\ S \subseteq Nat /\ x0 \in X
  /\ \A k \in S \ {0} : pre[k] \in S /\ pre[k] < k /\ \A x \in X : step[k][x] \in X

Obeys(g, S, X, x0, pre, step) ==
  g \in [S -> X] /\ \A k \in S : g[k] = IF k = 0 THEN x0 ELSE step[k][g[pre[k]]]

LEMMA Recursion ==
  ASSUME NEW S, NEW X, NEW x0, NEW pre, NEW step, Steps(S, X, x0, pre, step)
  PROVE  \E g : Obeys(g, S, X, x0, pre, step)
<1> USE DEF Steps
<1> DEFINE Good(h, n) == /\ h \in [S -> X]
                         /\ \A k \in S : k =< n => h[k] = IF k = 0 THEN x0 ELSE step[k][h[pre[k]]]
<1>1. ASSUME NEW n \in Nat, NEW h, NEW i, Good(h, n), Good(i, n), NEW m \in S, m =< n
      PROVE  h[m] = i[m]
  <2> DEFINE Bad == {k \in S : k =< n /\ h[k] # i[k]}
  <2>1. SUFFICES ASSUME Bad # {} PROVE FALSE
    BY <1>1
  <2>2. PICK k \in Bad : \A j \in Bad : k =< j
    BY <2>1, Least
  <2>3. k # 0 => pre[k] \in S /\ pre[k] < k /\ pre[k] \in Nat /\ k \in Nat
    OBVIOUS
  <2>4. k # 0 => h[pre[k]] = i[pre[k]]
    BY <2>2, <2>3
  <2> QED BY <1>1, <2>2, <2>4
<1>2. \A n \in Nat : \E h : Good(h, n)
  <2> DEFINE Bad == {n \in Nat : ~\E h : Good(h, n)}
  <2>1. SUFFICES ASSUME Bad # {} PROVE FALSE
    OBVIOUS
  <2>2. PICK n \in Bad : \A j \in Bad : n =< j
    <3>1. Bad \in SUBSET Nat
      OBVIOUS
    <3> HIDE DEF Bad
    <3> QED BY <2>1, <3>1, Least
  <2>5. n \in Nat /\ (~\E h : Good(h, n)) /\ \A j \in Nat : j < n => \E h : Good(h, j)
    <3> HIDE DEF Good
    <3> QED BY <2>2
  <2>3. CASE n = 0
    <3> DEFINE z == [k \in S |-> x0]
    <3>1. \A k \in S : k \in Nat /\ z[k] = x0
      OBVIOUS
    <3>2. \A k \in S : k =< n => k = 0
      BY <2>3, <3>1
    <3>3. z \in [S -> X]
      OBVIOUS
    <3>4. Good(z, n)
      <4> HIDE DEF z
      <4> QED BY <3>1, <3>2, <3>3
    <3> QED BY <2>5, <3>4
  <2>4. CASE n # 0
    <3>1. n - 1 \in Nat /\ n - 1 < n
      BY <2>4, <2>5
    <3>2. PICK h : Good(h, n - 1)
      BY <2>5, <3>1
    <3> DEFINE i == [k \in S |-> IF k = n THEN step[n][h[pre[n]]] ELSE h[k]]
    <3>3. i \in [S -> X]
      BY <2>4, <3>2
    <3>4. ASSUME NEW k \in S, k =< n PROVE i[k] = IF k = 0 THEN x0 ELSE step[k][i[pre[k]]]
      <4>1. k \in Nat /\ (k # 0 => pre[k] \in S /\ pre[k] \in Nat /\ pre[k] < k)
        OBVIOUS
      <4>2. k # 0 => i[pre[k]] = h[pre[k]]
        BY <2>5, <3>4, <4>1
      <4>3. CASE k = n
        BY <2>4, <4>1, <4>2, <4>3
      <4>4. CASE k # n
        <5>1. k =< n - 1 /\ i[k] = h[k]
          BY <2>5, <3>4, <4>1, <4>4
        <5>2. h[k] = IF k = 0 THEN x0 ELSE step[k][h[pre[k]]]
          BY <3>2, <5>1
        <5> QED BY <4>2, <5>1, <5>2
      <4> QED BY <4>3, <4>4
    <3>5. Good(i, n)
      BY <3>3, <3>4
    <3> QED BY <2>5, <3>5
  <2> QED BY <2>3, <2>4, <2>5
<1> DEFINE at == [n \in Nat |-> CHOOSE h : Good(h, n)]
           g == [n \in S |-> at[n][n]]
<1>3. \A n \in Nat : Good(at[n], n)
  BY <1>2
<1> HIDE DEF at
<1>4. g \in [S -> X]
  BY <1>3
<1>5. ASSUME NEW k \in S PROVE g[k] = IF k = 0 THEN x0 ELSE step[k][g[pre[k]]]
  <2>1. CASE k = 0
    BY <1>3, <2>1
  <2>2. CASE k # 0
    <3>1. pre[k] \in S /\ pre[k] < k /\ pre[k] \in Nat /\ k \in Nat
      BY <2>2
    <3>2. Good(at[k], pre[k])
      BY <1>3, <3>1
    <3>3. at[k][pre[k]] = at[pre[k]][pre[k]]
      BY <1>1, <1>3, <3>1, <3>2
    <3>4. at[k][k] = step[k][at[k][pre[k]]]
      BY <1>3, <2>2, <3>1
    <3> QED BY <2>2, <3>1, <3>3, <3>4
  <2> QED BY <2>1, <2>2
<1> QED BY <1>4, <1>5 DEF Obeys

\* numericToLocationCode, as far as its definition goes.
LEMMA CodeDef ==
  \A n \in Nat : /\ Code[n] \in Seq(1 .. Letters)
                 /\ Code[n] = IF n = 0 THEN <<>>
                              ELSE Append(Code[(n - 1) \div Letters], ((n - 1) % Letters) + 1)
<1> DEFINE X == Seq(1 .. Letters)
           pre == [n \in Nat |-> (n - 1) \div Letters]
           step == [n \in Nat |-> [x \in X |-> Append(x, ((n - 1) % Letters) + 1)]]
<1>1. \A n \in Nat \ {0} : (n - 1) \div Letters \in Nat /\ (n - 1) \div Letters < n
  BY CodeAssumption
<1>2. \A n \in Nat \ {0} : ((n - 1) % Letters) + 1 \in 1 .. Letters
  BY CodeAssumption
<1>3. \A n \in Nat \ {0} : pre[n] \in Nat /\ pre[n] < n /\ \A x \in X : step[n][x] \in X
  BY <1>1, <1>2
<1>4. <<>> \in X
  OBVIOUS
<1>5. PICK g \in [Nat -> X] : \A n \in Nat : g[n] = IF n = 0 THEN <<>> ELSE step[n][g[pre[n]]]
  <2> DEFINE S == Nat
             z == <<>>
  <2>1. Steps(S, X, z, pre, step)
    BY <1>3, <1>4 DEF Steps
  <2> HIDE DEF S, X, pre, step, z
  <2>2. \E g \in [S -> X] : \A n \in S : g[n] = IF n = 0 THEN z ELSE step[n][g[pre[n]]]
    BY <2>1, Recursion DEF Obeys
  <2> QED BY <2>2 DEF S, z
<1>6. \A n \in Nat : g[n] = IF n = 0 THEN <<>> ELSE Append(g[(n - 1) \div Letters], ((n - 1) % Letters) + 1)
  BY <1>1, <1>5
<1>7. \E f : f = [n \in Nat |-> IF n = 0 THEN <<>> ELSE Append(f[(n - 1) \div Letters], ((n - 1) % Letters) + 1)]
  BY <1>6
<1>8. Code = [n \in Nat |-> IF n = 0 THEN <<>> ELSE Append(Code[(n - 1) \div Letters], ((n - 1) % Letters) + 1)]
  BY <1>7 DEF Code
<1>9. \A n \in Nat : Code[n] = IF n = 0 THEN <<>> ELSE Append(Code[(n - 1) \div Letters], ((n - 1) % Letters) + 1)
  BY <1>8
<1> DEFINE Bad == {n \in Nat : Code[n] \notin X}
<1>10. Bad = {}
  <2> SUFFICES ASSUME Bad # {} PROVE FALSE
    OBVIOUS
  <2>1. PICK n \in Bad : \A k \in Bad : n =< k
    <3>1. Bad \in SUBSET Nat
      OBVIOUS
    <3> HIDE DEF Bad
    <3> QED BY <3>1, Least
  <2>2. n \in Nat \ {0} /\ Code[n] \notin X
    BY <1>4, <1>9, <2>1
  <2> DEFINE q == (n - 1) \div Letters
  <2>3. Code[q] \in X
    <3>1. q \in Nat /\ q < n
      BY <1>1, <2>2
    <3>2. \A k \in Nat : k < n => Code[k] \in X
      <4> HIDE DEF X
      <4> QED BY <2>1, <2>2
    <3> HIDE DEF q
    <3> QED BY <3>1, <3>2
  <2>4. Code[n] = Append(Code[(n - 1) \div Letters], ((n - 1) % Letters) + 1)
    BY <1>9, <2>2
  <2>5. ((n - 1) % Letters) + 1 \in 1 .. Letters
    BY <1>2, <2>2
  <2>6. \A x \in X, a \in 1 .. Letters : Append(x, a) \in X
    OBVIOUS
  <2> QED BY <2>2, <2>3, <2>4, <2>5, <2>6
<1> QED BY <1>9, <1>10

\* locationCodeToNumeric, as far as its definition goes.
LEMMA NumberDef ==
  ASSUME NEW c \in Seq(Nat)
  PROVE  \E f \in [0 .. Len(c) -> Nat] :
           /\ Number(c) = f[Len(c)]
           /\ \A i \in 0 .. Len(c) : f[i] = IF i = 0 THEN 0 ELSE f[i - 1] * Letters + c[i]
<1> DEFINE S == 0 .. Len(c)
           pre == [i \in Nat |-> i - 1]
           step == [i \in Nat |-> [x \in Nat |-> x * Letters + c[i]]]
<1>1. \A i \in S \ {0} : pre[i] \in S /\ pre[i] < i /\ \A x \in Nat : step[i][x] \in Nat
  BY CodeAssumption
<1>2. S \in SUBSET Nat
  OBVIOUS
<1>3. PICK g \in [S -> Nat] : \A i \in S : g[i] = IF i = 0 THEN 0 ELSE step[i][g[pre[i]]]
  <2> DEFINE X == Nat
             z == 0
  <2>1. Steps(S, X, z, pre, step)
    BY <1>1, <1>2 DEF Steps
  <2> HIDE DEF S, X, pre, step, z
  <2>2. \E g \in [S -> X] : \A i \in S : g[i] = IF i = 0 THEN z ELSE step[i][g[pre[i]]]
    BY <2>1, Recursion DEF Obeys
  <2> QED BY <2>2 DEF X, z
<1>4. ASSUME NEW i \in S PROVE g[i] = IF i = 0 THEN 0 ELSE g[i - 1] * Letters + c[i]
  <2>1. i # 0 => i - 1 \in S /\ g[i - 1] \in Nat /\ pre[i] = i - 1
    <3>1. g \in [S -> Nat]
      BY <1>3
    <3> QED BY <3>1
  <2>2. i # 0 => step[i][g[i - 1]] = g[i - 1] * Letters + c[i]
    BY <2>1
  <2> HIDE DEF pre, step
  <2> QED BY <1>3, <2>1, <2>2
<1> DEFINE f == CHOOSE h : h = [i \in 0 .. Len(c) |-> IF i = 0 THEN 0 ELSE h[i - 1] * Letters + c[i]]
<1>5. \E h : h = [i \in 0 .. Len(c) |-> IF i = 0 THEN 0 ELSE h[i - 1] * Letters + c[i]]
  BY <1>4
<1>6. f = [i \in 0 .. Len(c) |-> IF i = 0 THEN 0 ELSE f[i - 1] * Letters + c[i]] /\ Number(c) = f[Len(c)]
  BY <1>5 DEF Number
<1> HIDE DEF f
<1>7. \A i \in S : f[i] = IF i = 0 THEN 0 ELSE f[i - 1] * Letters + c[i]
  BY <1>6
<1> DEFINE Bad == {i \in S : f[i] # g[i]}
<1>8. Bad = {}
  <2> SUFFICES ASSUME Bad # {} PROVE FALSE
    OBVIOUS
  <2>1. PICK i \in Bad : \A k \in Bad : i =< k
    <3>1. Bad \in SUBSET Nat
      OBVIOUS
    <3> HIDE DEF Bad
    <3> QED BY <3>1, Least
  <2>2. i # 0 /\ i - 1 \in S
    BY <1>4, <1>7, <2>1
  <2>3. f[i - 1] = g[i - 1]
    BY <2>1, <2>2
  <2> QED BY <1>4, <1>7, <2>1, <2>2, <2>3
<1>9. f \in [S -> Nat]
  <2>1. \A i \in S : f[i] = g[i]
    BY <1>8
  <2>2. \A i \in S : f[i] \in Nat
    BY <1>3, <2>1
  <2>3. f = [i \in S |-> f[i]]
    BY <1>6
  <2> QED BY <2>2, <2>3
<1> QED BY <1>6, <1>7, <1>9

\* One more letter.
LEMMA NumberAppend ==
  ASSUME NEW c \in Seq(Nat), NEW x \in Nat
  PROVE  Number(Append(c, x)) = Number(c) * Letters + x /\ Number(c) \in Nat
<1> DEFINE d == Append(c, x)
<1>1. d \in Seq(Nat) /\ Len(d) = Len(c) + 1 /\ Len(c) \in Nat /\ d[Len(c) + 1] = x
      /\ \A i \in 1 .. Len(c) : d[i] = c[i]
  OBVIOUS
<1>2. PICK f \in [0 .. Len(c) -> Nat] : /\ Number(c) = f[Len(c)]
           /\ \A i \in 0 .. Len(c) : f[i] = IF i = 0 THEN 0 ELSE f[i - 1] * Letters + c[i]
  BY NumberDef
<1> HIDE DEF d
<1>3. PICK g \in [0 .. Len(d) -> Nat] : /\ Number(d) = g[Len(d)]
           /\ \A i \in 0 .. Len(d) : g[i] = IF i = 0 THEN 0 ELSE g[i - 1] * Letters + d[i]
  BY <1>1, NumberDef
<1> DEFINE Bad == {i \in 0 .. Len(c) : f[i] # g[i]}
<1>4. Bad = {}
  <2> SUFFICES ASSUME Bad # {} PROVE FALSE
    OBVIOUS
  <2>1. PICK i \in Bad : \A k \in Bad : i =< k
    <3>1. Bad \in SUBSET Nat
      OBVIOUS
    <3> HIDE DEF Bad
    <3> QED BY <3>1, Least
  <2>2. i # 0 /\ i - 1 \in 0 .. Len(c) /\ i \in 1 .. Len(c) /\ i \in 0 .. Len(d)
    BY <1>1, <1>2, <1>3, <2>1
  <2>3. f[i - 1] = g[i - 1]
    <3>1. i - 1 \notin Bad
      <4>1. i \in Nat /\ ~(i =< i - 1)
        BY <2>1
      <4> HIDE DEF Bad
      <4> QED BY <2>1, <4>1
    <3> QED BY <2>2, <3>1
  <2>4. f[i] = f[i - 1] * Letters + c[i]
    <3>1. i \in 0 .. Len(c)
      BY <2>1
    <3> QED BY <1>2, <2>2, <3>1
  <2>5. g[i] = g[i - 1] * Letters + c[i]
    <3>1. d[i] = c[i]
      BY <1>1, <2>2
    <3>2. g[i] = g[i - 1] * Letters + d[i]
      BY <1>3, <2>2
    <3> QED BY <3>1, <3>2
  <2> QED BY <2>1, <2>3, <2>4, <2>5
<1>5. g[Len(c)] = f[Len(c)]
  BY <1>1, <1>4
<1>6. g[Len(d)] = g[Len(c)] * Letters + x
  BY <1>1, <1>3
<1> QED BY <1>1, <1>2, <1>3, <1>5, <1>6 DEF d

\* Reading a code gives back its number: no two numbers have the same code.
LEMMA NumberOfCode == \A n \in Nat : Number(Code[n]) = n /\ (Code[n] = <<>> <=> n = 0)
<1>1. \A n \in Nat : Code[n] \in Seq(Nat)
  <2>1. \A x \in Seq(1 .. Letters) : x \in Seq(Nat)
    BY CodeAssumption
  <2> QED BY <2>1, CodeDef
<1>2. Number(<<>>) = 0
  <2>1. <<>> \in Seq(Nat) /\ Len(<<>>) = 0 /\ 0 \in 0 .. 0
    OBVIOUS
  <2> DEFINE c == <<>>
  <2> HIDE DEF c
  <2>2. PICK f \in [0 .. Len(c) -> Nat] :
          /\ Number(c) = f[Len(c)]
          /\ \A i \in 0 .. Len(c) : f[i] = IF i = 0 THEN 0 ELSE f[i - 1] * Letters + c[i]
    BY <2>1, NumberDef DEF c
  <2>3. Number(c) = f[0] /\ f[0] = 0
    BY <2>1, <2>2 DEF c
  <2> QED BY <2>3 DEF c
<1> DEFINE Bad == {n \in Nat : Number(Code[n]) # n}
<1>3. Bad = {}
  <2> SUFFICES ASSUME Bad # {} PROVE FALSE
    OBVIOUS
  <2>1. PICK n \in Bad : \A k \in Bad : n =< k
    <3>1. Bad \in SUBSET Nat
      OBVIOUS
    <3> HIDE DEF Bad
    <3> QED BY <3>1, Least
  <2>2. n # 0
    BY <1>2, <2>1, CodeDef
  <2> DEFINE q == (n - 1) \div Letters
             r == (n - 1) % Letters
  <2>3. q \in Nat /\ q < n /\ r \in Nat
    BY <2>2, CodeAssumption
  <2>4. q * Letters + r = n - 1
    BY <2>2, CodeAssumption
  <2>5. Code[n] = Append(Code[q], r + 1)
    BY <2>2, CodeDef
  <2> HIDE DEF q, r
  <2>6. Number(Code[q]) = q
    BY <2>1, <2>3
  <2>7. Number(Code[n]) = q * Letters + (r + 1)
    BY <1>1, <2>3, <2>5, <2>6, NumberAppend
  <2>8. q * Letters \in Nat
    BY <2>3, CodeAssumption
  <2> QED BY <2>1, <2>3, <2>4, <2>7, <2>8
<1>4. \A n \in Nat : Code[n] = <<>> <=> n = 0
  BY <1>2, <1>3, CodeDef
<1> QED BY <1>3, <1>4

-----------------------------------------------------------------------------
(* The bootstrap of the codes *)

LEMMA CodesDiffer ==
  ASSUME NEW m \in Nat, NEW n \in Nat, Code[m] = Code[n]
  PROVE  m = n
BY NumberOfCode

\* The highest of the codes exists, and no number of a code is above it.
LEMMA HighestOK ==
  ASSUME CodesInv
  PROVE  /\ Highest \in 0 .. Len(codes)
         /\ \A i \in DOMAIN codes, n \in Nat : codes[i] = Code[n] => n =< Highest
         /\ Highest # 0 => \E i \in DOMAIN codes : codes[i] = Code[Highest]
<1> DEFINE X == {0} \cup {Number(codes[i]) : i \in DOMAIN codes}
           U == {u \in Nat : \A x \in X : x =< u}
<1>1. Len(codes) \in Nat /\ DOMAIN codes = 1 .. Len(codes)
  BY DEF CodesInv
<1>2. \A i \in DOMAIN codes : \E n \in 0 .. Len(codes) : codes[i] = Code[n] /\ Number(codes[i]) = n
  <2> SUFFICES ASSUME NEW i \in DOMAIN codes
               PROVE  \E n \in 0 .. Len(codes) : codes[i] = Code[n] /\ Number(codes[i]) = n
    OBVIOUS
  <2>1. CASE codes[i] = <<>>
    <3>1. codes[i] = Code[0] /\ 0 \in Nat
      BY <2>1, NumberOfCode
    <3> QED BY <1>1, <3>1, NumberOfCode
  <2>2. CASE codes[i] # <<>>
    <3>1. PICK n \in 1 .. Len(codes) : codes[i] = Code[n]
      BY <2>2 DEF CodesInv, NumberedRows
    <3> QED BY <1>1, <3>1, NumberOfCode
  <2> QED BY <2>1, <2>2
<1>3. X \subseteq 0 .. Len(codes) /\ 0 \in X
  BY <1>1, <1>2
<1> HIDE DEF X
<1>4. Len(codes) \in U
  BY <1>1, <1>3
<1>5. PICK u \in U : \A v \in U : u =< v
  <2>1. U \in SUBSET Nat /\ U # {}
    BY <1>4
  <2> HIDE DEF U
  <2> QED BY <2>1, Least
<1>6. u \in X
  <2> SUFFICES ASSUME u \notin X PROVE FALSE
    OBVIOUS
  <2>1. u # 0 /\ u \in Nat /\ u - 1 \in Nat
    BY <1>3
  <2>2. \A x \in X : x =< u - 1
    BY <1>1, <1>3, <2>1
  <2>3. u - 1 \in U
    BY <2>1, <2>2
  <2> QED BY <1>5, <2>1, <2>3
<1>7. \E n \in X : \A i \in DOMAIN codes : Number(codes[i]) =< n
  BY <1>6 DEF X
<1>8. Highest \in X /\ \A i \in DOMAIN codes : Number(codes[i]) =< Highest
  BY <1>7 DEF Highest, X
<1>9. Highest # 0 => \E i \in DOMAIN codes : Highest = Number(codes[i])
  BY <1>8 DEF X
<1>10. \A i \in DOMAIN codes, n \in Nat : codes[i] = Code[n] => n =< Highest
  BY <1>8, NumberOfCode
<1>11. Highest # 0 => \E i \in DOMAIN codes : codes[i] = Code[Highest]
  BY <1>2, <1>9
<1> QED BY <1>3, <1>8, <1>10, <1>11

\* Every step of the server keeps the codes those of the rows.
LEMMA CodesStep ==
  ASSUME CodesInv, [CodesNext]_cvars
  PROVE  CodesInv'
<1> DEFINE N == Len(codes)
<1>1. /\ codes \in Seq(Seq(1 .. Letters)) /\ N \in Nat /\ DOMAIN codes = 1 .. N
      /\ counter \in 0 .. N /\ boot \in 0 .. N + 1 /\ up \in BOOLEAN /\ mixed \in BOOLEAN
  BY DEF CodesInv
<1>2. CASE UNCHANGED cvars
  BY <1>2 DEF cvars, CodesInv, NumberedRows, CodesOfPositions, Listening
<1>3. ASSUME NEW c \in Seq(1 .. Letters)
      PROVE  /\ Append(codes, c) \in Seq(Seq(1 .. Letters)) /\ Len(Append(codes, c)) = N + 1
             /\ DOMAIN Append(codes, c) = 1 .. N + 1 /\ Append(codes, c)[N + 1] = c
             /\ \A i \in 1 .. N : Append(codes, c)[i] = codes[i]
  BY <1>1
<1>4. CASE CreateLocation
  <2> DEFINE c == Code[counter + 1]
  <2>1. /\ up /\ boot = 0 /\ codes' = Append(codes, c) /\ counter' = counter + 1 /\ boot' = 0 /\ up'
        /\ mixed' = (mixed \/ \E i \in 1 .. N : codes[i] = <<>>)
    BY <1>1, <1>4 DEF CreateLocation
  <2>2. c \in Seq(1 .. Letters) /\ c # <<>>
    <3>1. counter + 1 \in Nat /\ counter + 1 # 0
      BY <1>1
    <3> QED BY <3>1, CodeDef, NumberOfCode
  <2> HIDE DEF c
  <2>3. /\ codes' \in Seq(Seq(1 .. Letters)) /\ Len(codes') = N + 1 /\ DOMAIN codes' = 1 .. N + 1
        /\ codes'[N + 1] = c /\ \A i \in 1 .. N : codes'[i] = codes[i]
    BY <1>3, <2>1, <2>2
  <2>4. NumberedRows'
    <3> SUFFICES ASSUME NEW i \in 1 .. N + 1, codes'[i] # <<>>
                 PROVE  \E n \in 1 .. N + 1 : codes'[i] = Code[n] /\ n =< counter'
      BY <1>1, <2>1, <2>3 DEF NumberedRows
    <3>1. CASE i = N + 1
      <4>1. counter' \in 1 .. N + 1 /\ codes'[i] = Code[counter']
        BY <1>1, <2>1, <2>3, <3>1 DEF c
      <4> QED BY <4>1
    <3>2. CASE i \in 1 .. N
      <4>1. PICK n \in 1 .. N : codes[i] = Code[n] /\ n =< counter
        BY <1>1, <2>1, <2>3, <3>2 DEF CodesInv, NumberedRows, Listening
      <4> QED BY <1>1, <2>1, <2>3, <3>2, <4>1
    <3> QED BY <1>1, <3>1, <3>2
  <2>5. CodesOfPositions'
    <3> SUFFICES ASSUME ~mixed'
                 PROVE  /\ \A i \in 1 .. N + 1 : codes'[i] # <<>> => codes'[i] = Code[i]
                        /\ counter' = N + 1
      BY <2>1, <2>3 DEF CodesOfPositions
    <3>1. ~mixed /\ \A i \in 1 .. N : codes[i] # <<>>
      BY <2>1
    <3>2. counter = N /\ \A i \in 1 .. N : codes[i] = Code[i]
      BY <1>1, <2>1, <3>1 DEF CodesInv, CodesOfPositions, Listening
    <3>3. codes'[N + 1] = Code[N + 1]
      BY <2>3, <3>2 DEF c
    <3>4. \A i \in 1 .. N + 1 : i \in 1 .. N \/ i = N + 1
      BY <1>1
    <3> QED BY <2>1, <2>3, <3>2, <3>3, <3>4
  <2>6. mixed' \in BOOLEAN /\ counter' \in 0 .. N + 1 /\ boot' \in 0 .. N + 2 /\ up' \in BOOLEAN
    BY <1>1, <2>1
  <2> QED BY <1>1, <2>3, <2>4, <2>5, <2>6 DEF CodesInv
<1>5. CASE ImportLocation
  <2>1. /\ up /\ boot = 0 /\ codes' = Append(codes, <<>>) /\ UNCHANGED <<counter, boot, up, mixed>>
    BY <1>5 DEF ImportLocation
  <2>2. <<>> \in Seq(1 .. Letters)
    OBVIOUS
  <2>3. /\ codes' \in Seq(Seq(1 .. Letters)) /\ Len(codes') = N + 1 /\ DOMAIN codes' = 1 .. N + 1
        /\ codes'[N + 1] = <<>> /\ \A i \in 1 .. N : codes'[i] = codes[i]
    BY <1>3, <2>1, <2>2
  <2>4. \A i \in 1 .. N + 1 : i \in 1 .. N \/ i = N + 1
    BY <1>1
  <2>5. NumberedRows'
    <3> SUFFICES ASSUME NEW i \in 1 .. N + 1, codes'[i] # <<>>
                 PROVE  \E n \in 1 .. N + 1 : codes'[i] = Code[n] /\ n =< counter
      BY <1>1, <2>1, <2>3 DEF NumberedRows
    <3>1. i \in 1 .. N /\ codes[i] = codes'[i]
      BY <2>3, <2>4
    <3>2. PICK n \in 1 .. N : codes[i] = Code[n] /\ n =< counter
      BY <1>1, <2>1, <3>1 DEF CodesInv, NumberedRows, Listening
    <3> QED BY <1>1, <3>1, <3>2
  <2>6. CodesOfPositions'
    <3> SUFFICES ASSUME ~mixed
                 PROVE  \A i \in 1 .. N + 1 : codes'[i] # <<>> => codes'[i] = Code[i]
      BY <1>1, <2>1, <2>3 DEF CodesOfPositions
    <3> QED BY <1>1, <2>3, <2>4 DEF CodesInv, CodesOfPositions
  <2>7. counter' \in 0 .. N + 1 /\ boot' \in 0 .. N + 2
    BY <1>1, <2>1
  <2> QED BY <1>1, <2>1, <2>3, <2>5, <2>6, <2>7 DEF CodesInv
<1>6. CASE Restart
  <2>1. boot' = 1 /\ up' = TRUE /\ UNCHANGED <<codes, counter, mixed>>
    BY <1>6 DEF Restart
  <2>2. NumberedRows'
    BY <1>1, <2>1 DEF CodesInv, NumberedRows, Listening
  <2>3. CodesOfPositions'
    <3>1. ~Listening'
      BY <2>1 DEF Listening
    <3>2. ~mixed => \A i \in DOMAIN codes : codes[i] # <<>> => codes[i] = Code[i]
      BY DEF CodesInv, CodesOfPositions
    <3> QED BY <2>1, <3>1, <3>2 DEF CodesOfPositions
  <2> QED BY <1>1, <2>1, <2>2, <2>3 DEF CodesInv
<1>7. CASE AssignCode
  <2>1. up /\ boot \in 1 .. N /\ UNCHANGED <<counter, mixed>>
    BY <1>1, <1>7 DEF AssignCode
  <2>2. CASE codes[boot] = <<>> /\ Taken(Code[boot])
    <3>1. up' = FALSE /\ UNCHANGED <<codes, boot>>
      BY <1>7, <2>2 DEF AssignCode, ExpectedCode
    <3>2. PICK j \in 1 .. N : codes[j] = Code[boot]
      BY <1>1, <2>2 DEF Taken
    <3>3. mixed
      <4> SUFFICES ASSUME ~mixed PROVE FALSE
        OBVIOUS
      <4>1. codes[j] # <<>>
        BY <2>1, <3>2, NumberOfCode
      <4>2. codes[j] = Code[j]
        BY <1>1, <4>1 DEF CodesInv, CodesOfPositions
      <4>3. j = boot
        <5>1. j \in Nat /\ boot \in Nat /\ Code[j] = Code[boot]
          BY <1>1, <2>1, <3>2, <4>2
        <5> QED BY <5>1, CodesDiffer
      <4> QED BY <2>2, <4>1, <4>3
    <3>4. NumberedRows' /\ CodesOfPositions'
      BY <1>1, <2>1, <3>1, <3>3 DEF CodesInv, NumberedRows, CodesOfPositions, Listening
    <3> QED BY <1>1, <2>1, <3>1, <3>4 DEF CodesInv
  <2>3. CASE ~(codes[boot] = <<>> /\ Taken(Code[boot]))
    <3> DEFINE c == IF codes[boot] = <<>> THEN Code[boot] ELSE codes[boot]
    <3>1. codes' = [codes EXCEPT ![boot] = c] /\ boot' = boot + 1 /\ UNCHANGED up
      BY <1>7, <2>3 DEF AssignCode, ExpectedCode
    <3>2. c \in Seq(1 .. Letters)
      <4>1. Code[boot] \in Seq(1 .. Letters)
        BY <1>1, <2>1, CodeDef
      <4>2. codes[boot] \in Seq(1 .. Letters)
        BY <1>1, <2>1
      <4> QED BY <4>1, <4>2, Zenon
    <3>3. codes[boot] = <<>> => c = Code[boot] /\ c # <<>>
      BY <2>1, NumberOfCode
    <3>4. codes[boot] # <<>> => c = codes[boot]
      OBVIOUS
    <3> HIDE DEF c
    <3>5. /\ codes' \in Seq(Seq(1 .. Letters)) /\ Len(codes') = N /\ DOMAIN codes' = 1 .. N
          /\ codes'[boot] = c /\ \A i \in 1 .. N : i # boot => codes'[i] = codes[i]
      BY <1>1, <2>1, <3>1, <3>2
    <3>6. NumberedRows'
      <4>1. ASSUME NEW i \in 1 .. N, codes'[i] # <<>> PROVE \E n \in 1 .. N : codes'[i] = Code[n]
        <5>1. CASE i = boot /\ codes[boot] = <<>>
          BY <2>1, <3>3, <3>5, <5>1
        <5>2. CASE ~(i = boot /\ codes[boot] = <<>>)
          <6>1. codes'[i] = codes[i]
            BY <3>4, <3>5, <5>2
          <6> QED BY <1>1, <4>1, <6>1 DEF CodesInv, NumberedRows
        <5> QED BY <5>1, <5>2
      <4>2. ASSUME NEW i \in 1 .. N, i < boot + 1 PROVE codes'[i] # <<>>
        <5>1. CASE i = boot
          BY <3>3, <3>4, <3>5, <5>1
        <5>2. CASE i # boot
          <6>1. i < boot /\ codes'[i] = codes[i]
            BY <1>1, <2>1, <3>5, <4>2, <5>2
          <6> QED BY <1>1, <6>1 DEF CodesInv, NumberedRows
        <5> QED BY <5>1, <5>2
      <4> QED BY <1>1, <2>1, <3>1, <3>5, <4>1, <4>2 DEF NumberedRows, Listening
    <3>7. CodesOfPositions'
      <4>1. boot' # 0
        BY <2>1, <3>1
      <4>2. ASSUME ~mixed, NEW i \in 1 .. N, codes'[i] # <<>> PROVE codes'[i] = Code[i]
        <5>1. codes[i] # <<>> => codes[i] = Code[i]
          BY <1>1, <4>2 DEF CodesInv, CodesOfPositions
        <5> QED BY <3>3, <3>4, <3>5, <4>2, <5>1
      <4> QED BY <2>1, <3>1, <3>5, <4>1, <4>2 DEF CodesOfPositions, Listening
    <3> QED BY <1>1, <2>1, <3>1, <3>5, <3>6, <3>7 DEF CodesInv
  <2> QED BY <2>2, <2>3
<1>8. CASE Listen
  <2>1. up /\ boot = N + 1 /\ counter' = Highest /\ boot' = 0 /\ UNCHANGED <<codes, up, mixed>>
    BY <1>8 DEF Listen
  <2>2. \A i \in 1 .. N : codes[i] # <<>>
    <3>1. \A i \in 1 .. N : i < boot
      BY <1>1, <2>1
    <3> QED BY <1>1, <3>1 DEF CodesInv, NumberedRows
  <2>3. NumberedRows'
    <3>1. ASSUME NEW i \in 1 .. N PROVE \E n \in 1 .. N : codes[i] = Code[n] /\ n =< Highest
      <4>1. PICK n \in 1 .. N : codes[i] = Code[n]
        BY <1>1, <2>2 DEF CodesInv, NumberedRows
      <4>2. n \in Nat /\ i \in DOMAIN codes
        BY <1>1
      <4>3. n =< Highest
        BY <4>1, <4>2, HighestOK
      <4> QED BY <4>1, <4>3
    <3>2. DOMAIN codes' = 1 .. N /\ Len(codes') = N /\ \A i \in 1 .. N : codes'[i] = codes[i] /\ ~(i < boot')
      BY <1>1, <2>1
    <3> QED BY <2>1, <3>1, <3>2 DEF NumberedRows
  <2>4. ASSUME ~mixed PROVE Highest = N
    <3>1. \A i \in 1 .. N : codes[i] = Code[i]
      BY <1>1, <2>2, <2>4 DEF CodesInv, CodesOfPositions
    <3>2. CASE N = 0
      BY <3>2, HighestOK
    <3>3. CASE N # 0
      <4>1. codes[N] = Code[N] /\ N \in DOMAIN codes
        BY <1>1, <3>1, <3>3
      <4> QED BY <1>1, <4>1, HighestOK
    <3> QED BY <3>2, <3>3
  <2>5. CodesOfPositions'
    BY <2>1, <2>4 DEF CodesInv, CodesOfPositions
  <2> QED BY <1>1, <2>1, <2>3, <2>5, HighestOK DEF CodesInv
<1> QED BY <1>2, <1>4, <1>5, <1>6, <1>7, <1>8 DEF CodesNext

\* LocationsService and bootstrapLocationCodes, for an alphabet of any size: while the
\* server listens its next code is free, and it fails to start only after a location was
\* created between an import and a restart.
THEOREM CodesAreThoseOfRows == CodesSpec => []CodesFollowRows
<1>1. CodesInit => CodesInv
  <2> SUFFICES ASSUME CodesInit PROVE CodesInv
    OBVIOUS
  <2>1. /\ codes \in Seq(Seq(1 .. Letters)) /\ Len(codes) = 0 /\ DOMAIN codes = {}
        /\ counter = 0 /\ boot = 1 /\ up = TRUE /\ mixed = FALSE
    BY DEF CodesInit
  <2>2. NumberedRows /\ ~Listening
    BY <2>1 DEF NumberedRows, Listening
  <2>3. CodesOfPositions
    BY <2>1, <2>2 DEF CodesOfPositions
  <2>4. counter \in 0 .. Len(codes) /\ boot \in 0 .. Len(codes) + 1
    <3>1. 0 \in 0 .. 0 /\ 1 \in 0 .. 0 + 1
      OBVIOUS
    <3> QED BY <2>1, <3>1, Zenon
  <2>5. up \in BOOLEAN /\ mixed \in BOOLEAN
    BY <2>1, Zenon
  <2> QED BY <2>1, <2>2, <2>3, <2>4, <2>5, Zenon DEF CodesInv
<1>2. CodesInv => CodesFollowRows
  <2> SUFFICES ASSUME CodesInv PROVE CodesFollowRows
    OBVIOUS
  <2>1. ASSUME Listening, Taken(Code[counter + 1]) PROVE FALSE
    <3>1. PICK i \in DOMAIN codes : codes[i] = Code[counter + 1] /\ codes[i] # <<>>
      BY <2>1 DEF Taken
    <3>2. PICK n \in 1 .. Len(codes) : codes[i] = Code[n] /\ n =< counter
      BY <2>1, <3>1 DEF CodesInv, NumberedRows
    <3>3. counter + 1 \in Nat /\ n \in Nat
      BY DEF CodesInv
    <3>4. n = counter + 1
      BY <3>1, <3>2, <3>3, CodesDiffer
    <3> QED BY <3>2, <3>4 DEF CodesInv
  <2>2. ~up => mixed
    BY DEF CodesInv, CodesOfPositions
  <2> QED BY <2>1, <2>2 DEF CodesFollowRows, NextCodeFree, BootstrapFails, Listening
<1>3. CodesInv /\ [CodesNext]_cvars => CodesInv'
  BY CodesStep
<1> QED BY <1>1, <1>2, <1>3, PTL DEF CodesSpec

-----------------------------------------------------------------------------
(* The calendar of retention periods *)

LeapsBefore(y) == Cardinality({i \in 0 .. y - 1 : Leap(FirstYear + i)})

OneIfLeap(y) == IF Leap(FirstYear + y) THEN 1 ELSE 0

LEMMA Leaps ==
  ASSUME NEW y \in Nat
  PROVE  /\ LeapsBefore(y) \in 0 .. y
         /\ LeapsBefore(y + 1) = LeapsBefore(y) + OneIfLeap(y)
         /\ LeapsBefore(0) = 0
<1> DEFINE L(n) == {i \in 0 .. n - 1 : Leap(FirstYear + i)}
<1>1. \A n \in Nat : IsFiniteSet(L(n)) /\ Cardinality(L(n)) \in 0 .. n
  <2> TAKE n \in Nat
  <2> DEFINE S == 0 .. n - 1
             T == L(n)
  <2>1. IsFiniteSet(S) /\ Cardinality(S) = n
    BY FS_Interval
  <2>2. T \in SUBSET S
    OBVIOUS
  <2> HIDE DEF S, T
  <2>3. IsFiniteSet(T) /\ Cardinality(T) =< Cardinality(S) /\ Cardinality(T) \in Nat
    BY <2>1, <2>2, FS_Subset, FS_CardinalityType
  <2> QED BY <2>1, <2>3 DEF T
<1>2. L(y + 1) = IF Leap(FirstYear + y) THEN L(y) \cup {y} ELSE L(y)
  <2>1. \A i : i \in 0 .. (y + 1) - 1 <=> i \in 0 .. y - 1 \/ i = y
    OBVIOUS
  <2> QED BY <2>1
<1>3. y \notin L(y)
  OBVIOUS
<1> DEFINE T == L(y)
<1>4. Cardinality(T \cup {y}) = Cardinality(T) + 1
  <2>1. IsFiniteSet(T) /\ y \notin T
    BY <1>1, <1>3
  <2> HIDE DEF T
  <2> QED BY <2>1, FS_AddElement
<1>5. Cardinality(L(y + 1)) = Cardinality(L(y)) + OneIfLeap(y)
  <2>1. CASE Leap(FirstYear + y)
    BY <1>2, <1>4, <2>1 DEF OneIfLeap
  <2>2. CASE ~Leap(FirstYear + y)
    <3>1. L(y + 1) = L(y) /\ OneIfLeap(y) = 0
      BY <1>2, <2>2 DEF OneIfLeap
    <3>2. Cardinality(L(y)) \in Nat
      BY <1>1
    <3> HIDE DEF L
    <3> QED BY <3>1, <3>2
  <2> QED BY <2>1, <2>2
<1>6. LeapsBefore(0) = 0
  <2>1. L(0) = {}
    OBVIOUS
  <2> QED BY <2>1, FS_EmptySet DEF LeapsBefore
<1> QED BY <1>1, <1>5, <1>6 DEF LeapsBefore

\* The days of a year before each of its months.
LEMMA MonthTable ==
  ASSUME NEW y \in Nat
  PROVE  LET l == OneIfLeap(y) IN
         /\ l \in {0, 1}
         /\ Before(FirstYear + y, 0) = 0        /\ Before(FirstYear + y, 1) = 31
         /\ Before(FirstYear + y, 2) = 59 + l   /\ Before(FirstYear + y, 3) = 90 + l
         /\ Before(FirstYear + y, 4) = 120 + l  /\ Before(FirstYear + y, 5) = 151 + l
         /\ Before(FirstYear + y, 6) = 181 + l  /\ Before(FirstYear + y, 7) = 212 + l
         /\ Before(FirstYear + y, 8) = 243 + l  /\ Before(FirstYear + y, 9) = 273 + l
         /\ Before(FirstYear + y, 10) = 304 + l /\ Before(FirstYear + y, 11) = 334 + l
<1> DEFINE t == <<0, 31, 59, 90, 120, 151, 181, 212, 243, 273, 304, 334>>
<1>1. /\ t[1] = 0 /\ t[2] = 31 /\ t[3] = 59 /\ t[4] = 90 /\ t[5] = 120 /\ t[6] = 151
      /\ t[7] = 181 /\ t[8] = 212 /\ t[9] = 243 /\ t[10] = 273 /\ t[11] = 304 /\ t[12] = 334
  OBVIOUS
<1>2. \A m \in 0 .. 11 : Before(FirstYear + y, m) = t[m + 1] + (IF m > 1 THEN OneIfLeap(y) ELSE 0)
  BY DEF Before, OneIfLeap
<1>3. OneIfLeap(y) \in {0, 1}
  BY DEF OneIfLeap
<1> HIDE DEF t
<1> QED BY <1>1, <1>2, <1>3

LEMMA StartOf ==
  ASSUME NEW y \in Nat, NEW m \in 0 .. 11
  PROVE  MonthStart(12 * y + m) = 365 * y + LeapsBefore(y) + Before(FirstYear + y, m)
<1>1. (12 * y + m) \div 12 = y /\ (12 * y + m) % 12 = m
  OBVIOUS
<1> QED BY <1>1 DEF MonthStart, LeapsBefore

\* Every month is one of a year.
LEMMA MonthOfYear ==
  ASSUME NEW k \in Nat
  PROVE  \E y \in Nat, m \in 0 .. 11 : k = 12 * y + m
<1> DEFINE y == k \div 12
           m == k % 12
<1>1. k = 12 * y + m /\ y \in Nat /\ m \in 0 .. 11
  OBVIOUS
<1> HIDE DEF y, m
<1> QED BY <1>1

LEMMA MonthBounds ==
  ASSUME NEW y \in Nat, NEW m \in 0 .. 11
  PROVE  LET s == MonthStart(12 * y + m)
             n == MonthStart(12 * y + m + 1) - s
         IN  /\ s \in Nat /\ s =< 31 * (12 * y + m) /\ s >= 31 * (12 * y + m) - 7 * (y + 1)
             /\ n = IF m = 1 THEN 28 + OneIfLeap(y) ELSE IF m \in {3, 5, 8, 10} THEN 30 ELSE 31
<1> DEFINE s == MonthStart(12 * y + m)
           n == MonthStart(12 * y + m + 1) - s
           L == LeapsBefore(y)
           b == Before(FirstYear + y, m)
<1>1. s = 365 * y + L + b /\ L \in 0 .. y /\ LeapsBefore(y + 1) = L + OneIfLeap(y)
  <2>1. s = 365 * y + L + b
    BY StartOf
  <2>2. L \in 0 .. y /\ LeapsBefore(y + 1) = L + OneIfLeap(y)
    BY Leaps
  <2> HIDE DEF s, L, b
  <2> QED BY <2>1, <2>2
<1>2. /\ b \in Nat /\ b =< 31 * m /\ b >= 31 * m - 7
  <2> HIDE DEF b
  <2>1. b = Before(FirstYear + y, m)
    BY DEF b
  <2> QED BY <2>1, MonthTable
<1>3. CASE m = 11
  <2>1. 12 * y + m + 1 = 12 * (y + 1) + 0 /\ y + 1 \in Nat /\ 0 \in 0 .. 11
    BY <1>3
  <2>2. MonthStart(12 * (y + 1) + 0) = 365 * (y + 1) + LeapsBefore(y + 1) + Before(FirstYear + (y + 1), 0)
    BY <2>1, StartOf
  <2>3. Before(FirstYear + (y + 1), 0) = 0
    BY <2>1, MonthTable
  <2>4. b = 334 + OneIfLeap(y) /\ OneIfLeap(y) \in {0, 1}
    BY <1>3, MonthTable
  <2>5. n = 31
    <3> HIDE DEF L, b
    <3>1. MonthStart(12 * y + m + 1) = 365 * (y + 1) + (L + OneIfLeap(y))
      <4>1. L + OneIfLeap(y) \in Int
        BY <1>1, <2>4
      <4> QED BY <1>1, <2>1, <2>2, <2>3, <4>1
    <3>2. n = MonthStart(12 * y + m + 1) - s
      OBVIOUS
    <3> HIDE DEF n, s
    <3> QED BY <1>1, <2>4, <3>1, <3>2
  <2> HIDE DEF L, b, n
  <2> QED BY <1>1, <1>2, <1>3, <2>5 DEF n
<1>4. CASE m # 11
  <2>1. m + 1 \in 0 .. 11 /\ 12 * y + m + 1 = 12 * y + (m + 1)
    BY <1>4
  <2>2. MonthStart(12 * y + (m + 1)) = 365 * y + L + Before(FirstYear + y, m + 1)
    BY <2>1, StartOf
  <2>3. Before(FirstYear + y, m + 1) - b =
          IF m = 1 THEN 28 + OneIfLeap(y) ELSE IF m \in {3, 5, 8, 10} THEN 30 ELSE 31
    <3>1. \A j \in 0 .. 10 : m = j =>
            Before(FirstYear + y, j + 1) - Before(FirstYear + y, j) =
              IF j = 1 THEN 28 + OneIfLeap(y) ELSE IF j \in {3, 5, 8, 10} THEN 30 ELSE 31
      BY MonthTable
    <3> QED BY <1>4, <3>1
  <2>4. n = Before(FirstYear + y, m + 1) - b
    <3> HIDE DEF L, b
    <3>1. Before(FirstYear + y, m + 1) \in Int
      BY <2>1, MonthTable
    <3> QED BY <1>1, <1>2, <2>1, <2>2, <3>1
  <2> HIDE DEF L, b, n
  <2> QED BY <1>1, <1>2, <2>3, <2>4 DEF n
<1> QED BY <1>3, <1>4

LEMMA Lengths ==
  ASSUME NEW k \in Nat
  PROVE  /\ MonthStart(k) \in Nat /\ MonthLength(k) \in 28 .. 31
         /\ MonthStart(k + 1) = MonthStart(k) + MonthLength(k)
         /\ MonthLength(k) - 1 =< MonthLength(k + 12)
<1>1. PICK y \in Nat, m \in 0 .. 11 : k = 12 * y + m
  BY MonthOfYear
<1>2. y + 1 \in Nat /\ k + 12 = 12 * (y + 1) + m
  BY <1>1
<1>3. OneIfLeap(y) \in {0, 1} /\ OneIfLeap(y + 1) \in {0, 1}
  BY DEF OneIfLeap
<1> DEFINE Days(l) == IF m = 1 THEN 28 + l ELSE IF m \in {3, 5, 8, 10} THEN 30 ELSE 31
<1>4. MonthStart(k) \in Nat /\ MonthStart(k + 1) - MonthStart(k) = Days(OneIfLeap(y))
  BY <1>1, MonthBounds
<1>5. MonthStart(k + 12 + 1) - MonthStart(k + 12) = Days(OneIfLeap(y + 1))
  <2> DEFINE z == y + 1
  <2>1. z \in Nat /\ k + 12 = 12 * z + m
    BY <1>2
  <2> HIDE DEF z
  <2>2. MonthStart(12 * z + m + 1) - MonthStart(12 * z + m) = Days(OneIfLeap(z))
    BY <2>1, MonthBounds
  <2> QED BY <2>1, <2>2 DEF z
<1>6. k + 1 \in Nat
  OBVIOUS
<1>7. MonthStart(k + 1) \in Nat
  <2>1. PICK z \in Nat, j \in 0 .. 11 : k + 1 = 12 * z + j
    BY <1>6, MonthOfYear
  <2> QED BY <2>1, MonthBounds
<1>8. Days(OneIfLeap(y)) \in 28 .. 31 /\ Days(OneIfLeap(y)) - 1 =< Days(OneIfLeap(y + 1))
  BY <1>3
<1> HIDE DEF Days
<1> QED BY <1>4, <1>5, <1>7, <1>8 DEF MonthLength

\* A later month begins after the end of an earlier one.
LEMMA MonthsRise ==
  ASSUME NEW j \in Nat, NEW k \in Nat, j < k
  PROVE  MonthStart(j + 1) =< MonthStart(k)
<1> DEFINE Bad == {i \in Nat : j < i /\ ~(MonthStart(j + 1) =< MonthStart(i))}
<1>1. SUFFICES ASSUME Bad # {} PROVE FALSE
  OBVIOUS
<1>2. PICK i \in Bad : \A l \in Bad : i =< l
  <2>1. Bad \in SUBSET Nat
    OBVIOUS
  <2> HIDE DEF Bad
  <2> QED BY <1>1, <2>1, Least
<1>3. i - 1 \in Nat /\ i \in Nat /\ j < i /\ ~(MonthStart(j + 1) =< MonthStart(i))
  BY <1>2
<1>4. MonthStart(i - 1 + 1) = MonthStart(i - 1) + MonthLength(i - 1)
      /\ MonthStart(i - 1) \in Nat /\ MonthLength(i - 1) \in 28 .. 31
  BY <1>3, Lengths
<1>5. j + 1 \in Nat /\ MonthStart(j + 1) \in Nat
  BY Lengths
<1>6. i - 1 # j
  BY <1>3, <1>5
<1>7. MonthStart(j + 1) =< MonthStart(i - 1)
  <2>1. j < i - 1
    BY <1>3, <1>6
  <2>2. i - 1 \notin Bad
    <3>1. ~(i =< i - 1)
      BY <1>3
    <3> HIDE DEF Bad
    <3> QED BY <1>2, <3>1
  <2> QED BY <1>3, <2>1, <2>2
<1>8. i - 1 + 1 = i
  BY <1>3
<1> QED BY <1>3, <1>4, <1>5, <1>7, <1>8

\* Every day is in one month, which MonthOf finds.
LEMMA MonthFound ==
  ASSUME NEW d \in Calendar
  PROVE  /\ MonthOf(d) \in 0 .. 12 * Years - 1
         /\ MonthStart(MonthOf(d)) =< d /\ d < MonthStart(MonthOf(d) + 1)
<1> DEFINE S == {k \in Nat : d < MonthStart(k + 1)}
<1>1. 12 * Years - 1 \in Nat /\ 12 * Years - 1 + 1 = 12 * Years /\ 12 * Years \in Nat
  BY RetentionAssumption
<1>2. d \in Nat /\ d =< MonthStart(12 * Years) - 1 /\ MonthStart(12 * Years) \in Nat
  BY <1>1, Lengths DEF Calendar, LastDay
<1>3. 12 * Years - 1 \in S
  BY <1>1, <1>2
<1>4. PICK k \in S : \A j \in S : k =< j
  <2>1. S \in SUBSET Nat /\ S # {}
    BY <1>3
  <2> HIDE DEF S
  <2> QED BY <2>1, Least
<1>5. k \in Nat /\ d < MonthStart(k + 1) /\ k =< 12 * Years - 1
  BY <1>3, <1>4
<1>6. MonthStart(k) =< d
  <2>1. CASE k = 0
    <3>1. MonthStart(12 * 0 + 0) =< 31 * (12 * 0 + 0)
      BY MonthBounds
    <3>2. MonthStart(0) \in Nat /\ 12 * 0 + 0 = 0 /\ 31 * (12 * 0 + 0) = 0
      BY Lengths
    <3> QED BY <1>2, <2>1, <3>1, <3>2
  <2>2. CASE k # 0
    <3>1. k - 1 \in Nat /\ k - 1 + 1 = k /\ k - 1 \notin S
      <4>1. k - 1 \in Nat /\ k - 1 + 1 = k /\ ~(k =< k - 1)
        BY <1>5, <2>2
      <4> HIDE DEF S
      <4> QED BY <1>4, <4>1
    <3>2. MonthStart(k) \in Nat
      BY <1>5, Lengths
    <3> QED BY <1>2, <3>1, <3>2
  <2> QED BY <2>1, <2>2
<1>7. k \in d \div 31 .. d \div 31 + Years
  <2>1. PICK y \in Nat, m \in 0 .. 11 : k = 12 * y + m
    BY <1>5, MonthOfYear
  <2>2. MonthStart(k) >= 31 * k - 7 * (y + 1)
    BY <2>1, MonthBounds
  <2>3. MonthStart(k + 1) =< 31 * (k + 1)
    <3>1. k + 1 \in Nat
      BY <1>5
    <3>2. PICK z \in Nat, j \in 0 .. 11 : k + 1 = 12 * z + j
      BY <3>1, MonthOfYear
    <3>3. MonthStart(12 * z + j) =< 31 * (12 * z + j)
      BY MonthBounds
    <3> QED BY <3>2, <3>3
  <2>4. y + 1 =< Years
    BY <1>5, <2>1, RetentionAssumption
  <2>5. d < 31 * (k + 1) /\ d >= 31 * k - 31 * Years
    <3>1. MonthStart(k) \in Nat /\ MonthStart(k + 1) \in Nat
      BY <1>5, Lengths
    <3>2. 7 * (y + 1) =< 31 * Years
      BY <2>1, <2>4, RetentionAssumption
    <3> QED BY <1>2, <1>5, <1>6, <2>1, <2>2, <2>3, <3>1, <3>2, RetentionAssumption
  <2> QED BY <1>2, <1>5, <2>5, RetentionAssumption
<1>8. \E j \in d \div 31 .. d \div 31 + Years : MonthStart(j) <= d /\ d < MonthStart(j + 1)
  BY <1>5, <1>6, <1>7
<1>9. /\ MonthOf(d) \in d \div 31 .. d \div 31 + Years
      /\ MonthStart(MonthOf(d)) =< d /\ d < MonthStart(MonthOf(d) + 1)
  BY <1>8 DEF MonthOf
<1>10. MonthOf(d) \in Nat
  BY <1>2, <1>9, RetentionAssumption
<1>11. MonthOf(d) =< 12 * Years - 1
  <2>1. CASE 12 * Years < MonthOf(d)
    <3>1. MonthStart(12 * Years + 1) =< MonthStart(MonthOf(d))
      BY <1>1, <1>10, <2>1, MonthsRise
    <3>2. MonthStart(12 * Years + 1) = MonthStart(12 * Years) + MonthLength(12 * Years)
          /\ MonthLength(12 * Years) \in 28 .. 31 /\ MonthStart(MonthOf(d)) \in Nat
      BY <1>1, <1>10, Lengths
    <3> QED BY <1>2, <1>9, <3>1, <3>2
  <2>2. CASE 12 * Years = MonthOf(d)
    BY <1>2, <1>9, <2>2
  <2> QED BY <1>1, <1>10, <2>1, <2>2
<1> QED BY <1>9, <1>10, <1>11

\* A set of numbers that has 0, and each number after one it has, has them all.
LEMMA Induct ==
  ASSUME NEW S, NEW most \in Nat, 0 \in S, \A i \in 1 .. most : i - 1 \in S => i \in S
  PROVE  \A i \in 0 .. most : i \in S
<1> DEFINE Bad == {i \in 0 .. most : i \notin S}
<1>1. SUFFICES ASSUME Bad # {} PROVE FALSE
  OBVIOUS
<1>2. PICK i \in Bad : \A j \in Bad : i =< j
  <2>1. Bad \in SUBSET Nat
    OBVIOUS
  <2> HIDE DEF Bad
  <2> QED BY <1>1, <2>1, Least
<1>3. i # 0 /\ i \in 1 .. most /\ i - 1 \in 0 .. most /\ ~(i =< i - 1)
  BY <1>2
<1>4. i - 1 \in S
  BY <1>2, <1>3
<1> QED BY <1>2, <1>3, <1>4

LEMMA MonthIs ==
  ASSUME NEW d \in Calendar, NEW k \in Nat, MonthStart(k) =< d, d < MonthStart(k + 1)
  PROVE  MonthOf(d) = k
<1> DEFINE m == MonthOf(d)
<1>1. m \in Nat /\ MonthStart(m) =< d /\ d < MonthStart(m + 1) /\ d \in Int
  BY MonthFound, RetentionAssumption DEF Calendar
<1> HIDE DEF m
<1>2. /\ MonthStart(m) \in Nat /\ MonthStart(m + 1) \in Nat
      /\ MonthStart(k) \in Nat /\ MonthStart(k + 1) \in Nat
  BY <1>1, Lengths
<1>3. ~(m < k) /\ ~(k < m)
  <2>1. m < k => MonthStart(m + 1) =< MonthStart(k)
    BY <1>1, MonthsRise
  <2>2. k < m => MonthStart(k + 1) =< MonthStart(m)
    BY <1>1, MonthsRise
  <2> QED BY <1>1, <1>2, <2>1, <2>2
<1> QED BY <1>1, <1>3 DEF m

LEMMA DayFound ==
  ASSUME NEW d \in Calendar
  PROVE  /\ d \in Nat /\ MonthOf(d) \in Nat /\ MonthOf(d) < 12 * Years
         /\ DayOfMonth(d) \in 0 .. MonthLength(MonthOf(d)) - 1
         /\ d = MonthStart(MonthOf(d)) + DayOfMonth(d)
<1> DEFINE m == MonthOf(d)
<1>1. m \in Nat /\ m < 12 * Years /\ MonthStart(m) =< d /\ d < MonthStart(m + 1) /\ d \in Nat
  BY MonthFound, RetentionAssumption DEF Calendar
<1> HIDE DEF m
<1>2. MonthStart(m) \in Nat /\ MonthStart(m + 1) = MonthStart(m) + MonthLength(m) /\ MonthLength(m) \in Nat
  <2>1. /\ MonthStart(m) \in Nat /\ MonthLength(m) \in 28 .. 31
        /\ MonthStart(m + 1) = MonthStart(m) + MonthLength(m)
    BY <1>1, Lengths
  <2>2. \A n \in 28 .. 31 : n \in Nat
    OBVIOUS
  <2> QED BY <2>1, <2>2
<1>3. DayOfMonth(d) = d - MonthStart(m)
  BY DEF DayOfMonth, m
<1>4. DayOfMonth(d) \in 0 .. MonthLength(m) - 1 /\ d = MonthStart(m) + DayOfMonth(d)
  BY <1>1, <1>2, <1>3
<1> QED BY <1>1, <1>4 DEF m

\* Of two days the later is in a later month, or later in the same.
LEMMA LaterDay ==
  ASSUME NEW c \in Calendar, NEW e \in Calendar, c < e
  PROVE  \/ MonthOf(c) < MonthOf(e)
         \/ MonthOf(c) = MonthOf(e) /\ DayOfMonth(c) < DayOfMonth(e)
<1>1. c \in Nat /\ e \in Nat /\ MonthOf(c) \in Nat /\ MonthOf(e) \in Nat
  BY DayFound
<1>2. ~(MonthOf(e) < MonthOf(c))
  <2>1. MonthStart(MonthOf(c)) =< c /\ e < MonthStart(MonthOf(e) + 1)
    BY MonthFound
  <2>2. MonthOf(e) < MonthOf(c) => MonthStart(MonthOf(e) + 1) =< MonthStart(MonthOf(c))
    BY <1>1, MonthsRise
  <2>3. MonthStart(MonthOf(c)) \in Nat /\ MonthStart(MonthOf(e) + 1) \in Nat
    BY <1>1, Lengths
  <2> QED BY <1>1, <2>1, <2>2, <2>3
<1>3. MonthOf(c) = MonthOf(e) => DayOfMonth(c) < DayOfMonth(e)
  <2>1. MonthStart(MonthOf(c)) \in Nat
    BY <1>1, Lengths
  <2> QED BY <1>1, <2>1 DEF DayOfMonth
<1> QED BY <1>1, <1>2, <1>3

\* addUtcMonths keeps the day of the month, or runs over into a month after.
LEMMA MonthsAdded ==
  ASSUME NEW d \in Calendar, NEW n \in Nat
  PROVE  /\ AddMonths(d, n) \in Nat
         /\ DayOfMonth(d) < MonthLength(MonthOf(d) + n) =>
              AddMonths(d, n) < MonthStart(MonthOf(d) + n + 1)
         /\ AddMonths(d, n) \in Calendar =>
              \/ MonthOf(AddMonths(d, n)) > MonthOf(d) + n
              \/ MonthOf(AddMonths(d, n)) = MonthOf(d) + n /\ DayOfMonth(AddMonths(d, n)) = DayOfMonth(d)
         /\ AddMonths(d, n) \in Calendar /\ DayOfMonth(d) =< 27 =>
              DayOfMonth(AddMonths(d, n)) = DayOfMonth(d)
<1> DEFINE k == MonthOf(d) + n
           a == AddMonths(d, n)
<1>1. k \in Nat /\ DayOfMonth(d) \in Nat
  BY DayFound, Lengths
<1>2. a = MonthStart(k) + DayOfMonth(d)
  BY DEF AddMonths
<1> HIDE DEF k, a
<1>3. /\ MonthStart(k) \in Nat /\ MonthStart(k + 1) = MonthStart(k) + MonthLength(k)
      /\ MonthLength(k) \in 28 .. 31
  BY <1>1, Lengths
<1>4. a \in Nat /\ MonthStart(k) =< a
  BY <1>1, <1>2, <1>3
<1>5. DayOfMonth(d) < MonthLength(k) => a < MonthStart(k + 1)
  BY <1>1, <1>2, <1>3
<1>6. ASSUME a \in Calendar
      PROVE  /\ MonthOf(a) > k \/ (MonthOf(a) = k /\ DayOfMonth(a) = DayOfMonth(d))
             /\ DayOfMonth(d) =< 27 => DayOfMonth(a) = DayOfMonth(d)
  <2>1. MonthOf(a) = k => DayOfMonth(a) = DayOfMonth(d)
    <3>1. DayOfMonth(a) = a - MonthStart(MonthOf(a))
      BY DEF DayOfMonth
    <3> QED BY <1>1, <1>2, <1>3, <3>1
  <2>2. a < MonthStart(k + 1) => MonthOf(a) = k
    BY <1>1, <1>4, <1>6, MonthIs
  <2>3. DayOfMonth(d) =< 27 => MonthOf(a) = k
    BY <1>1, <1>3, <1>5, <2>2
  <2>4. ~(MonthOf(a) < k)
    <3>1. MonthOf(a) \in Nat /\ a < MonthStart(MonthOf(a) + 1) /\ MonthStart(MonthOf(a) + 1) \in Nat
      <4>1. MonthOf(a) \in Nat /\ a < MonthStart(MonthOf(a) + 1)
        BY <1>6, MonthFound, RetentionAssumption
      <4> QED BY <4>1, Lengths
    <3>2. MonthOf(a) < k => MonthStart(MonthOf(a) + 1) =< MonthStart(k)
      BY <1>1, <3>1, MonthsRise
    <3> QED BY <1>3, <1>4, <3>1, <3>2
  <2>5. MonthOf(a) \in Nat
    BY <1>6, DayFound
  <2> QED BY <1>1, <2>1, <2>3, <2>4, <2>5
<1> QED BY <1>4, <1>5, <1>6 DEF k, a

\* Months added to a day up to the 28th bring it before a later day's.
LEMMA LaterAdded ==
  ASSUME NEW c \in Calendar, NEW e \in Calendar, c < e, NEW n \in Nat, DayOfMonth(c) =< 27
  PROVE  AddMonths(c, n) < AddMonths(e, n) /\ MonthOf(c) =< MonthOf(e)
<1>1. /\ MonthOf(c) \in Nat /\ MonthOf(e) \in Nat
      /\ DayOfMonth(c) \in Nat /\ DayOfMonth(e) \in Nat
  BY DayFound, Lengths
<1>2. /\ AddMonths(c, n) = MonthStart(MonthOf(c) + n) + DayOfMonth(c)
      /\ AddMonths(e, n) = MonthStart(MonthOf(e) + n) + DayOfMonth(e)
  BY DEF AddMonths
<1>3. MonthStart(MonthOf(c) + n) \in Nat /\ MonthStart(MonthOf(e) + n) \in Nat
  BY <1>1, Lengths
<1>4. CASE MonthOf(c) < MonthOf(e)
  <2> DEFINE k == MonthOf(c) + n
             j == MonthOf(e) + n
  <2>1. k \in Nat /\ j \in Nat /\ k < j
    BY <1>1, <1>4
  <2> HIDE DEF k, j
  <2>2. MonthStart(k + 1) =< MonthStart(j)
    BY <2>1, MonthsRise
  <2>3. MonthStart(k + 1) = MonthStart(k) + MonthLength(k) /\ MonthLength(k) \in 28 .. 31
    BY <2>1, Lengths
  <2>4. MonthStart(k) \in Nat /\ MonthStart(j) \in Nat
    BY <2>1, Lengths
  <2>5. MonthStart(k) + DayOfMonth(c) < MonthStart(j) + DayOfMonth(e)
    BY <1>1, <2>2, <2>3, <2>4
  <2> QED BY <1>1, <1>2, <1>4, <2>5 DEF k, j
<1>5. CASE MonthOf(c) = MonthOf(e) /\ DayOfMonth(c) < DayOfMonth(e)
  BY <1>1, <1>2, <1>3, <1>5
<1> QED BY <1>4, <1>5, LaterDay

LEMMA FirstDay == LastDay \in Int /\ 0 \in Calendar
<1>1. 12 * Years - 1 \in Nat /\ 12 * Years - 1 + 1 = 12 * Years
  BY RetentionAssumption
<1>2. MonthStart(12 * Years) = MonthStart(12 * Years - 1) + MonthLength(12 * Years - 1)
      /\ MonthStart(12 * Years - 1) \in Nat /\ MonthLength(12 * Years - 1) \in 28 .. 31
  BY <1>1, Lengths
<1> QED BY <1>2 DEF Calendar, LastDay

Cursor == [at : Calendar, steps : Nat]

Onward(w, n, to) ==
  IF Reaches(w.at, n, to) THEN [at |-> AddMonths(w.at, n), steps |-> w.steps + 1] ELSE w

\* g is the walk of the cursor, step by step.
IsWalk(g, from, n, to, most) ==
  /\ g \in [0 .. most -> Cursor] /\ g[0] = [at |-> from, steps |-> 0]
  /\ \A i \in 1 .. most : g[i] = Onward(g[i - 1], n, to)

LEMMA OnwardTyped ==
  ASSUME NEW w \in Cursor, NEW n \in Nat, NEW to \in Calendar
  PROVE  Onward(w, n, to) \in Cursor
<1>1. CASE Reaches(w.at, n, to)
  <2>1. w.at \in Calendar /\ AddMonths(w.at, n) =< to /\ w.steps \in Nat
    BY <1>1 DEF Reaches, Cursor
  <2>2. AddMonths(w.at, n) \in Nat
    BY <2>1, MonthsAdded
  <2>3. AddMonths(w.at, n) \in Calendar
    BY <2>1, <2>2, FirstDay DEF Calendar
  <2> QED BY <1>1, <2>1, <2>3 DEF Onward, Cursor
<1>2. CASE ~Reaches(w.at, n, to)
  BY <1>2 DEF Onward
<1> QED BY <1>1, <1>2

\* The loops of retentionDuration, as far as their definition goes.
LEMMA WalkDef ==
  ASSUME NEW from \in Calendar, NEW n \in Nat, NEW to \in Calendar, NEW most \in Nat
  PROVE  \E g : IsWalk(g, from, n, to, most) /\ Walk(from, n, to, most) = g[most]
<1> DEFINE S == 0 .. most
           X == Cursor
           x0 == [at |-> from, steps |-> 0]
           pre == [i \in Nat |-> i - 1]
           step == [i \in Nat |-> [x \in X |-> Onward(x, n, to)]]
<1>1. x0 \in X
  BY DEF Cursor
<1>2. \A i \in S \ {0} : pre[i] = i - 1 /\ i - 1 \in S /\ i - 1 < i /\ \A x \in X : step[i][x] = Onward(x, n, to)
  OBVIOUS
<1>3. PICK g \in [S -> X] : \A i \in S : g[i] = IF i = 0 THEN x0 ELSE step[i][g[pre[i]]]
  <2>1. \A i \in S \ {0} : \A x \in X : Onward(x, n, to) \in X
    BY OnwardTyped
  <2>2. S \in SUBSET Nat
    OBVIOUS
  <2> HIDE DEF S, X, pre, step, x0
  <2>3. Steps(S, X, x0, pre, step)
    BY <1>1, <1>2, <2>1, <2>2 DEF Steps
  <2> QED BY <2>3, Recursion DEF Obeys
<1>4. g[0] = x0 /\ \A i \in 1 .. most : i - 1 \in S /\ g[i - 1] \in X /\ g[i] = Onward(g[i - 1], n, to)
  <2>1. \A i \in 1 .. most : i \in S \ {0} /\ i - 1 \in S
    OBVIOUS
  <2>2. 0 \in S
    OBVIOUS
  <2> HIDE DEF S, X, pre, step, x0
  <2> QED BY <1>2, <1>3, <2>1, <2>2
<1> DEFINE Eq(h) == h = [i \in 0 .. most |->
             IF i = 0 THEN [at |-> from, steps |-> 0]
             ELSE LET w == h[i - 1]
                  IN IF Reaches(w.at, n, to) THEN [at |-> AddMonths(w.at, n), steps |-> w.steps + 1]
                     ELSE w]
           f == CHOOSE h : Eq(h)
<1>5. Eq(g)
  <2>1. \A i \in 0 .. most : g[i] = IF i = 0 THEN x0 ELSE Onward(g[i - 1], n, to)
    <3>1. \A i \in 0 .. most : i = 0 \/ i \in 1 .. most
      OBVIOUS
    <3> HIDE DEF x0
    <3> QED BY <1>4, <3>1
  <2>2. g = [i \in 0 .. most |-> g[i]]
    BY <1>3
  <2> QED BY <2>1, <2>2 DEF Onward
<1>6. Eq(f) /\ Walk(from, n, to, most) = f[most]
  BY <1>5 DEF Walk
<1> HIDE DEF f
<1>7. f[0] = x0 /\ \A i \in 1 .. most : f[i] = Onward(f[i - 1], n, to)
  BY <1>6 DEF Onward
<1> DEFINE T == {i \in 0 .. most : f[i] = g[i]}
<1>8. \A i \in 0 .. most : i \in T
  <2>1. 0 \in T
    BY <1>4, <1>7
  <2>2. ASSUME NEW i \in 1 .. most, i - 1 \in T PROVE i \in T
    BY <1>4, <1>7, <2>2
  <2> HIDE DEF T
  <2> QED BY <2>1, <2>2, Induct
<1>9. IsWalk(g, from, n, to, most)
  BY <1>3, <1>4 DEF IsWalk
<1>10. f[most] = g[most]
  BY <1>8
<1> QED BY <1>6, <1>9, <1>10

\* The cursor goes on until the next step would take it beyond the end, and not there.
LEMMA WalkStops ==
  ASSUME NEW g, NEW from \in Calendar, NEW n \in Nat, NEW to \in Calendar, NEW most \in Nat,
         IsWalk(g, from, n, to, most), from =< to
  PROVE  \A i \in 0 .. most : /\ g[i].at \in Calendar /\ g[i].at =< to
                              /\ g[i].steps \in 0 .. i
                              /\ g[i].steps = i \/ ~Reaches(g[i].at, n, to)
<1> DEFINE T == {i \in 0 .. most : /\ g[i].at =< to /\ g[i].steps =< i
                                   /\ g[i].steps = i \/ ~Reaches(g[i].at, n, to)}
<1>1. g[0] = [at |-> from, steps |-> 0] /\ \A i \in 1 .. most : g[i] = Onward(g[i - 1], n, to)
  BY DEF IsWalk
<1>2. \A i \in 0 .. most : g[i] \in Cursor /\ g[i].at \in Calendar /\ g[i].steps \in Nat
  BY DEF IsWalk, Cursor
<1>3. 0 \in T
  BY <1>1
<1>4. ASSUME NEW i \in 1 .. most, i - 1 \in T PROVE i \in T
  <2>1. i - 1 \in 0 .. most /\ i - 1 \in Nat /\ i \in 0 .. most
    OBVIOUS
  <2> DEFINE w == g[i - 1]
  <2>2. /\ w \in Cursor /\ w.at \in Calendar /\ w.steps \in Nat /\ w.at =< to /\ w.steps =< i - 1
        /\ w.steps = i - 1 \/ ~Reaches(w.at, n, to)
    BY <1>2, <1>4, <2>1
  <2>3. g[i] = Onward(w, n, to)
    BY <1>1
  <2> HIDE DEF w
  <2>4. CASE Reaches(w.at, n, to)
    <3>1. g[i].at = AddMonths(w.at, n) /\ g[i].steps = w.steps + 1
      BY <2>3, <2>4 DEF Onward
    <3>2. AddMonths(w.at, n) =< to /\ w.steps = i - 1
      BY <2>2, <2>4 DEF Reaches
    <3>3. g[i].steps = i
      BY <2>1, <2>2, <3>1, <3>2
    <3> QED BY <2>1, <3>1, <3>2, <3>3
  <2>5. CASE ~Reaches(w.at, n, to)
    BY <2>1, <2>2, <2>3, <2>5 DEF Onward
  <2> QED BY <2>4, <2>5
<1>5. \A i \in 0 .. most : i \in T
  <2> HIDE DEF T
  <2> QED BY <1>3, <1>4, Induct
<1> QED BY <1>2, <1>5

\* A walk that begins by the 28th of a month keeps ahead of no walk that begins later: the
\* later one has taken as many steps and is later, or fewer and has stopped.
Behind(v, w, n, to) ==
  /\ DayOfMonth(v.at) =< 27
  /\ \/ w.steps = v.steps /\ v.at < w.at
     \/ w.steps < v.steps /\ ~Reaches(w.at, n, to)

LEMMA BehindStep ==
  ASSUME NEW v \in Cursor, NEW w \in Cursor, NEW n \in Nat, NEW to \in Calendar, Behind(v, w, n, to)
  PROVE  Behind(Onward(v, n, to), Onward(w, n, to), n, to)
<1>1. v.at \in Calendar /\ w.at \in Calendar /\ v.steps \in Nat /\ w.steps \in Nat
      /\ DayOfMonth(v.at) =< 27
  BY DEF Cursor, Behind
<1>2. /\ Onward(v, n, to).at = IF Reaches(v.at, n, to) THEN AddMonths(v.at, n) ELSE v.at
      /\ Onward(v, n, to).steps = IF Reaches(v.at, n, to) THEN v.steps + 1 ELSE v.steps
      /\ Onward(w, n, to).at = IF Reaches(w.at, n, to) THEN AddMonths(w.at, n) ELSE w.at
      /\ Onward(w, n, to).steps = IF Reaches(w.at, n, to) THEN w.steps + 1 ELSE w.steps
  BY DEF Onward
<1>3. DayOfMonth(Onward(v, n, to).at) =< 27
  <2>1. Onward(v, n, to) \in Cursor
    BY OnwardTyped
  <2>2. Onward(v, n, to).at \in Calendar
    BY <2>1 DEF Cursor
  <2> QED BY <1>1, <1>2, <2>2, MonthsAdded
<1>4. CASE w.steps = v.steps /\ v.at < w.at
  <2>1. AddMonths(v.at, n) < AddMonths(w.at, n) /\ MonthOf(v.at) =< MonthOf(w.at)
    BY <1>1, <1>4, LaterAdded
  <2>2. /\ AddMonths(v.at, n) \in Nat /\ AddMonths(w.at, n) \in Nat /\ to \in Nat
        /\ MonthOf(v.at) \in Nat /\ MonthOf(w.at) \in Nat
    BY <1>1, MonthsAdded, DayFound
  <2>3. Reaches(w.at, n, to) => Reaches(v.at, n, to)
    BY <2>1, <2>2, RetentionAssumption DEF Reaches
  <2>4. CASE Reaches(w.at, n, to)
    BY <1>2, <1>3, <1>4, <2>1, <2>3, <2>4 DEF Behind
  <2>5. CASE ~Reaches(w.at, n, to)
    BY <1>1, <1>2, <1>3, <1>4, <2>5 DEF Behind
  <2> QED BY <2>4, <2>5
<1>5. CASE w.steps < v.steps /\ ~Reaches(w.at, n, to)
  BY <1>1, <1>2, <1>3, <1>5 DEF Behind
<1> QED BY <1>4, <1>5 DEF Behind

LEMMA WalksBehind ==
  ASSUME NEW f, NEW g, NEW c \in Calendar, NEW e \in Calendar, NEW n \in Nat, NEW to \in Calendar,
         NEW most \in Nat, IsWalk(f, c, n, to, most), IsWalk(g, e, n, to, most),
         c < e, DayOfMonth(c) =< 27
  PROVE  Behind(f[most], g[most], n, to)
<1> DEFINE T == {i \in 0 .. most : Behind(f[i], g[i], n, to)}
<1>1. 0 \in T
  <2>1. f[0] = [at |-> c, steps |-> 0] /\ g[0] = [at |-> e, steps |-> 0]
    BY DEF IsWalk
  <2> QED BY <2>1 DEF Behind
<1>2. ASSUME NEW i \in 1 .. most, i - 1 \in T PROVE i \in T
  <2>1. f[i - 1] \in Cursor /\ g[i - 1] \in Cursor
    BY DEF IsWalk
  <2>2. f[i] = Onward(f[i - 1], n, to) /\ g[i] = Onward(g[i - 1], n, to)
    BY DEF IsWalk
  <2> QED BY <1>2, <2>1, <2>2, BehindStep
<1>3. \A i \in 0 .. most : i \in T
  <2> HIDE DEF T
  <2> QED BY <1>1, <1>2, Induct
<1> QED BY <1>3

LEMMA WalkBehind ==
  ASSUME NEW c \in Calendar, NEW e \in Calendar, NEW n \in Nat, NEW to \in Calendar,
         NEW most \in Nat, c < e, DayOfMonth(c) =< 27
  PROVE  LET v == Walk(c, n, to, most)
             w == Walk(e, n, to, most)
         IN  Behind(v, w, n, to) /\ v \in Cursor /\ w \in Cursor
<1>1. PICK f : IsWalk(f, c, n, to, most) /\ Walk(c, n, to, most) = f[most]
  BY WalkDef
<1>2. PICK g : IsWalk(g, e, n, to, most) /\ Walk(e, n, to, most) = g[most]
  BY WalkDef
<1>3. Behind(f[most], g[most], n, to)
  BY <1>1, <1>2, WalksBehind
<1> QED BY <1>1, <1>2, <1>3 DEF IsWalk

\* i steps of n months lead that many months on, to the same day, or further.
LEMMA MonthsWalked ==
  ASSUME NEW g, NEW from \in Calendar, NEW n \in {1, 12}, NEW to \in Calendar, NEW most \in Nat,
         IsWalk(g, from, n, to, most), from =< to, g[most].steps = most
  PROVE  \/ MonthOf(g[most].at) > MonthOf(from) + n * most
         \/ /\ MonthOf(g[most].at) = MonthOf(from) + n * most
            /\ DayOfMonth(g[most].at) = DayOfMonth(from)
<1> DEFINE Far(d, i) == \/ MonthOf(d) > MonthOf(from) + n * i
                        \/ MonthOf(d) = MonthOf(from) + n * i /\ DayOfMonth(d) = DayOfMonth(from)
           T == {i \in 0 .. most : g[i].steps = i => Far(g[i].at, i)}
<1>1. n \in Nat
  OBVIOUS
<1>2. \A i \in 0 .. most : /\ g[i].at \in Calendar /\ g[i].steps \in 0 .. i
                           /\ g[i].steps = i \/ ~Reaches(g[i].at, n, to)
  BY <1>1, WalkStops
<1>3. MonthOf(from) \in Nat
  BY DayFound
<1>4. 0 \in T
  <2>1. g[0].at = from
    BY DEF IsWalk
  <2>2. Far(from, 0)
    BY <1>3
  <2> QED BY <2>1, <2>2
<1>5. ASSUME NEW i \in 1 .. most, i - 1 \in T PROVE i \in T
  <2> SUFFICES ASSUME g[i].steps = i PROVE Far(g[i].at, i)
    OBVIOUS
  <2> DEFINE w == g[i - 1]
             a == AddMonths(w.at, n)
  <2>1. i - 1 \in 0 .. most /\ i \in 0 .. most
    OBVIOUS
  <2>2. w.at \in Calendar /\ w.steps \in 0 .. i - 1 /\ g[i].at \in Calendar
    BY <1>2, <2>1
  <2>3. g[i] = Onward(w, n, to)
    BY DEF IsWalk
  <2> HIDE DEF w
  <2>4. Reaches(w.at, n, to) /\ w.steps = i - 1
    BY <2>2, <2>3 DEF Onward
  <2>5. g[i].at = a
    BY <2>3, <2>4 DEF Onward
  <2>6. Far(w.at, i - 1)
    BY <1>5, <2>4 DEF w
  <2>7. \/ MonthOf(a) > MonthOf(w.at) + n
        \/ MonthOf(a) = MonthOf(w.at) + n /\ DayOfMonth(a) = DayOfMonth(w.at)
    BY <1>1, <2>2, <2>5, MonthsAdded
  <2>8. MonthOf(a) \in Nat /\ MonthOf(w.at) \in Nat
    BY <2>2, <2>5, DayFound
  <2>9. n * i = n * (i - 1) + n
    <3>1. CASE n = 1
      BY <3>1
    <3>2. CASE n = 12
      BY <3>2
    <3> QED BY <3>1, <3>2
  <2>10. n * i \in Nat /\ n * (i - 1) \in Nat
    <3>1. CASE n = 1
      BY <3>1
    <3>2. CASE n = 12
      BY <3>2
    <3> QED BY <3>1, <3>2
  <2> DEFINE j == n * i
             k == n * (i - 1)
  <2>11. Far(a, i)
    <3>1. j = k + n /\ j \in Nat /\ k \in Nat
      BY <2>9, <2>10
    <3>2. \/ MonthOf(w.at) > MonthOf(from) + k
          \/ MonthOf(w.at) = MonthOf(from) + k /\ DayOfMonth(w.at) = DayOfMonth(from)
      BY <2>6
    <3> HIDE DEF a, j, k
    <3>3. \/ MonthOf(a) > MonthOf(from) + j
          \/ MonthOf(a) = MonthOf(from) + j /\ DayOfMonth(a) = DayOfMonth(from)
      BY <1>1, <1>3, <2>7, <2>8, <3>1, <3>2
    <3> QED BY <3>3 DEF j
  <2> QED BY <2>5, <2>11
<1>6. \A i \in 0 .. most : i \in T
  <2> HIDE DEF T
  <2> QED BY <1>4, <1>5, Induct
<1>7. Far(g[most].at, most)
  BY <1>6
<1> QED BY <1>7

\* The years are all counted that pass, and so are the months after them.
LEMMA YearsCounted ==
  ASSUME NEW from \in Calendar, NEW to \in Calendar, from =< to
  PROVE  LET y == Walk(from, 12, to, Years) IN
         /\ y \in Cursor /\ y.at =< to /\ ~Reaches(y.at, 12, to)
<1>1. Years \in Nat
  BY RetentionAssumption
<1>2. PICK g : IsWalk(g, from, 12, to, Years) /\ Walk(from, 12, to, Years) = g[Years]
  BY <1>1, WalkDef
<1> DEFINE y == g[Years]
<1>3. /\ y.at \in Calendar /\ y.at =< to /\ y.steps \in 0 .. Years
      /\ y.steps = Years \/ ~Reaches(y.at, 12, to)
  BY <1>1, <1>2, WalkStops
<1>4. y.steps # Years
  <2> SUFFICES ASSUME y.steps = Years PROVE FALSE
    OBVIOUS
  <2>1. MonthOf(y.at) >= MonthOf(from) + 12 * Years
    <3>1. \/ MonthOf(y.at) > MonthOf(from) + 12 * Years
          \/ MonthOf(y.at) = MonthOf(from) + 12 * Years
      BY <1>1, <1>2, MonthsWalked
    <3>2. MonthOf(y.at) \in Nat /\ MonthOf(from) \in Nat
      BY <1>3, DayFound
    <3> QED BY <1>1, <3>1, <3>2
  <2>2. MonthOf(y.at) \in Nat /\ MonthOf(y.at) < 12 * Years /\ MonthOf(from) \in Nat
    BY <1>3, DayFound
  <2> QED BY <1>1, <2>1, <2>2
<1>5. y \in Cursor
  BY <1>1, <1>2 DEF IsWalk
<1> QED BY <1>2, <1>3, <1>4, <1>5

LEMMA MonthsCounted ==
  ASSUME NEW from \in Calendar, NEW to \in Calendar, from =< to, ~Reaches(from, 12, to)
  PROVE  LET m == Walk(from, 1, to, 12) IN
         m \in Cursor /\ m.at =< to /\ m.steps =< 11 /\ to - m.at =< 30
<1>1. PICK g : IsWalk(g, from, 1, to, 12) /\ Walk(from, 1, to, 12) = g[12]
  BY WalkDef
<1> DEFINE m == g[12]
           mo == MonthOf(from)
<1>2. /\ m.at \in Calendar /\ m.at =< to /\ m.steps \in 0 .. 12
      /\ m.steps = 12 \/ ~Reaches(m.at, 1, to)
  <2>1. \A i \in 0 .. 12 : /\ g[i].at \in Calendar /\ g[i].at =< to
                           /\ g[i].steps \in 0 .. i
                           /\ g[i].steps = i \/ ~Reaches(g[i].at, 1, to)
    BY <1>1, WalkStops
  <2> QED BY <2>1
<1>3. /\ m.at \in Nat /\ to \in Nat /\ mo \in Nat /\ MonthOf(m.at) \in Nat /\ MonthOf(m.at) < 12 * Years
      /\ DayOfMonth(from) \in 0 .. MonthLength(mo) - 1
      /\ m.at = MonthStart(MonthOf(m.at)) + DayOfMonth(m.at)
      /\ DayOfMonth(m.at) \in 0 .. MonthLength(MonthOf(m.at)) - 1
  BY <1>2, DayFound
<1>4. m.steps # 12
  <2> SUFFICES ASSUME m.steps = 12 PROVE FALSE
    OBVIOUS
  <2>1. \/ MonthOf(m.at) > mo + 12
        \/ MonthOf(m.at) = mo + 12 /\ DayOfMonth(m.at) = DayOfMonth(from)
    <3>1. 1 * 12 = 12
      OBVIOUS
    <3> QED BY <1>1, <3>1, MonthsWalked
  <2> HIDE DEF m, mo
  <2>2. mo + 12 < 12 * Years
    BY <1>3, <2>1, RetentionAssumption
  <2>3. AddMonths(from, 12) = MonthStart(mo + 12) + DayOfMonth(from)
    BY DEF AddMonths, mo
  <2>4. AddMonths(from, 12) > to
    <3>1. AddMonths(from, 12) \in Nat
      BY MonthsAdded
    <3> QED BY <1>3, <2>2, <3>1 DEF Reaches, mo
  <2>5. /\ MonthStart(mo + 12) \in Nat /\ MonthLength(mo + 12) \in 28 .. 31
        /\ MonthStart(mo + 13) = MonthStart(mo + 12) + MonthLength(mo + 12)
        /\ MonthLength(mo) - 1 =< MonthLength(mo + 12) /\ MonthLength(mo) \in 28 .. 31
    <3>1. mo + 12 \in Nat /\ mo + 12 + 1 = mo + 13
      BY <1>3
    <3> QED BY <1>3, <3>1, Lengths
  <2>6. CASE MonthOf(m.at) > mo + 12
    <3>1. MonthStart(mo + 13) =< MonthStart(MonthOf(m.at))
      <4>1. mo + 12 \in Nat /\ mo + 12 + 1 = mo + 13
        BY <1>3
      <4> QED BY <1>3, <2>6, <4>1, MonthsRise
    <3>2. MonthStart(MonthOf(m.at)) \in Nat /\ MonthStart(MonthOf(m.at)) =< m.at
      BY <1>2, <1>3, Lengths, MonthFound
    <3> QED BY <1>2, <1>3, <2>3, <2>4, <2>5, <3>1, <3>2
  <2>7. CASE MonthOf(m.at) = mo + 12 /\ DayOfMonth(m.at) = DayOfMonth(from)
    BY <1>2, <1>3, <2>3, <2>4, <2>7
  <2> QED BY <2>1, <2>6, <2>7
<1>5. m \in Cursor
  BY <1>1 DEF IsWalk
<1>6. to - m.at =< 30
  <2> DEFINE k == MonthOf(m.at)
  <2>1. /\ MonthStart(k) \in Nat /\ MonthLength(k) \in 28 .. 31
        /\ MonthStart(k + 1) = MonthStart(k) + MonthLength(k)
    BY <1>3, Lengths
  <2>2. k + 1 >= 12 * Years \/ AddMonths(m.at, 1) > to
    <3>1. AddMonths(m.at, 1) \in Nat
      BY <1>2, MonthsAdded
    <3> QED BY <1>2, <1>3, <1>4, <3>1, RetentionAssumption DEF Reaches
  <2>3. AddMonths(m.at, 1) = MonthStart(k + 1) + DayOfMonth(m.at)
    BY DEF AddMonths
  <2>4. to < MonthStart(12 * Years)
    <3>1. 12 * Years \in Nat
      BY RetentionAssumption
    <3>2. MonthStart(12 * Years) \in Nat
      BY <3>1, Lengths
    <3> QED BY <1>3, <3>2 DEF Calendar, LastDay
  <2> HIDE DEF m, k
  <2>5. CASE k + 1 >= 12 * Years
    <3>1. k + 1 = 12 * Years
      BY <1>3, <2>5, RetentionAssumption DEF k
    <3> QED BY <1>3, <2>1, <2>4, <3>1 DEF k
  <2>6. CASE AddMonths(m.at, 1) > to
    BY <1>3, <2>1, <2>3, <2>6 DEF k
  <2> QED BY <2>2, <2>5, <2>6
<1>7. m.steps =< 11
  BY <1>2, <1>4
<1> QED BY <1>1, <1>2, <1>5, <1>6, <1>7

LEMMA Remains ==
  ASSUME NEW from \in Calendar, NEW to \in Calendar, from =< to
  PROVE  Normal(retentionDuration(from, to))
<1> DEFINE y == Walk(from, 12, to, Years)
           m == Walk(y.at, 1, to, 12)
<1>1. y \in Cursor /\ y.at =< to /\ ~Reaches(y.at, 12, to)
  BY YearsCounted
<1> HIDE DEF y
<1>2. m.steps =< 11 /\ to - m.at =< 30
  BY <1>1, MonthsCounted DEF Cursor
<1>3. retentionDuration(from, to) = [years |-> y.steps, months |-> m.steps, days |-> to - m.at]
  BY DEF retentionDuration, y
<1> QED BY <1>2, <1>3 DEF Normal

LEMMA RemainsLess ==
  ASSUME NEW c \in Calendar, NEW e \in Calendar, NEW to \in Calendar,
         c < e, e =< to, DayOfMonth(c) =< 27
  PROVE  Less(retentionDuration(e, to), retentionDuration(c, to))
<1> DEFINE y == Walk(c, 12, to, Years)
           z == Walk(e, 12, to, Years)
           m == Walk(y.at, 1, to, 12)
           l == Walk(z.at, 1, to, 12)
<1>1. c =< to /\ to \in Nat
  BY DayFound
<1>2. Behind(y, z, 12, to) /\ y \in Cursor /\ z \in Cursor
  <2>1. Years \in Nat
    BY RetentionAssumption
  <2> QED BY <2>1, WalkBehind
<1>3. y.at \in Calendar /\ z.at \in Calendar /\ y.steps \in Nat /\ z.steps \in Nat
  BY <1>2 DEF Cursor
<1>4. /\ retentionDuration(c, to) = [years |-> y.steps, months |-> m.steps, days |-> to - m.at]
      /\ retentionDuration(e, to) = [years |-> z.steps, months |-> l.steps, days |-> to - l.at]
  BY DEF retentionDuration
<1> HIDE DEF y, z
<1>5. CASE z.steps < y.steps
  BY <1>4, <1>5 DEF Less
<1>6. CASE z.steps = y.steps /\ y.at < z.at
  <2>1. DayOfMonth(y.at) =< 27
    BY <1>2 DEF Behind
  <2>2. Behind(m, l, 1, to) /\ m \in Cursor /\ l \in Cursor
    <3> DEFINE a == y.at
               b == z.at
    <3>1. a \in Calendar /\ b \in Calendar /\ a < b /\ DayOfMonth(a) =< 27
      BY <1>3, <1>6, <2>1
    <3> HIDE DEF a, b
    <3>2. LET v == Walk(a, 1, to, 12)
              w == Walk(b, 1, to, 12)
          IN  Behind(v, w, 1, to) /\ v \in Cursor /\ w \in Cursor
      BY <3>1, WalkBehind
    <3> QED BY <3>2 DEF a, b
  <2>3. m.at \in Nat /\ l.at \in Nat
    BY <2>2, DayFound DEF Cursor
  <2> HIDE DEF m, l
  <2>4. l.steps < m.steps \/ (l.steps = m.steps /\ to - l.at < to - m.at)
    BY <1>1, <2>2, <2>3 DEF Behind
  <2> QED BY <1>4, <1>6, <2>4 DEF Less
<1> QED BY <1>2, <1>5, <1>6 DEF Behind

LEMMA PeriodStep == PeriodInv /\ [RetentionNext]_periodVars => PeriodInv'
<1> SUFFICES ASSUME PeriodInv, [RetentionNext]_periodVars PROVE PeriodInv'
  OBVIOUS
<1>1. CASE DayPasses
  <2>1. today' \in Calendar
    BY <1>1, FirstDay DEF DayPasses, PeriodInv, Calendar
  <2> QED BY <1>1, <2>1 DEF DayPasses, PeriodInv
<1>2. ASSUME NEW start \in Date, NEW end \in Date, SetRetention(TRUE, start, end) PROVE PeriodInv'
  <2>1. hardcopy' = [enabled |-> TRUE, start |-> start, end |-> end] /\ today' = today
    BY <1>2 DEF SetRetention
  <2>2. hardcopy'.enabled = TRUE /\ hardcopy'.end \in Calendar
    BY <2>1, RetentionAssumption DEF Calendar
  <2> QED BY <2>1, <2>2 DEF PeriodInv
<1>3. CASE SetRetention(FALSE, NoDate, NoDate)
  <2>1. hardcopy' = NoRetention /\ today' = today
    BY <1>3 DEF SetRetention
  <2>2. hardcopy'.enabled = FALSE
    BY <2>1 DEF NoRetention
  <2> QED BY <2>1, <2>2 DEF PeriodInv
<1>4. CASE UNCHANGED periodVars
  BY <1>4 DEF periodVars, PeriodInv
<1> QED BY <1>1, <1>2, <1>3, <1>4 DEF RetentionNext

LEMMA DayTells ==
  ASSUME PeriodInv, [RetentionNext]_periodVars, today' # today, Runs(hardcopy, today')
  PROVE  LET r == retentionDuration(today', hardcopy.end) IN
         /\ Normal(r)
         /\ DayOfMonth(today) < 28 => Less(r, retentionDuration(today, hardcopy.end))
<1>1. today' = today + 1 /\ today' \in Calendar /\ today \in Calendar
  <2>1. DayPasses
    BY DEF RetentionNext, SetRetention, periodVars
  <2>2. PeriodInv'
    BY PeriodStep
  <2> QED BY <2>1, <2>2 DEF DayPasses, PeriodInv
<1>2. hardcopy.end \in Calendar /\ today' =< hardcopy.end
  BY DEF PeriodInv, Runs
<1> DEFINE c == today
           e == today'
           to == hardcopy.end
<1>3. c \in Calendar /\ e \in Calendar /\ to \in Calendar /\ c < e /\ e =< to
  BY <1>1, <1>2, DayFound
<1>4. DayOfMonth(c) \in Nat
  BY <1>3, DayFound, Lengths
<1> HIDE DEF c, e, to
<1>5. Normal(retentionDuration(e, to))
  BY <1>3, Remains
<1>6. DayOfMonth(c) < 28 => Less(retentionDuration(e, to), retentionDuration(c, to))
  BY <1>3, <1>4, RemainsLess
<1> QED BY <1>5, <1>6 DEF c, e, to

\* withHardcopyRetention, retentionDuration: over a calendar of any number of years, what
\* remains is told in at most 11 months and 30 days, and up to the 28th of a month it is
\* less on every day.
THEOREM CountdownIsTrue == RetentionSpec => CountdownFalls
<1>1. RetentionInit => PeriodInv
  BY FirstDay DEF RetentionInit, NoRetention, PeriodInv
<1>2. PeriodInv /\ [RetentionNext]_periodVars =>
        [today' # today /\ Runs(hardcopy, today') =>
           LET r == retentionDuration(today', hardcopy.end) IN
           /\ Normal(r)
           /\ DayOfMonth(today) < 28 => Less(r, retentionDuration(today, hardcopy.end))]_periodVars
  BY DayTells
<1> QED BY <1>1, <1>2, PeriodStep, PTL DEF RetentionSpec, CountdownFalls

=============================================================================
