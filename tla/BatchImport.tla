----------------------------- MODULE BatchImport -----------------------------
(***************************************************************************)
(* The import of hardcopies from a workbook.  An import reads the catalog  *)
(* into maps once, then takes row after row, each in a transaction of its  *)
(* own: entries that the maps miss are created and put into the maps at    *)
(* once, although the transaction may still roll back.  Imports overlap.   *)
(* Two of the five kinds of entries stand for all: areas, whose names may  *)
(* repeat, and locations, whose names the database keeps unique.           *)
(***************************************************************************)
EXTENDS Naturals

CONSTANTS
  Import,      \* imports
  Area,        \* names of areas in the workbooks
  Location,    \* names of locations
  MaxRows,     \* bound: rows of a workbook
  MaxBroken    \* bound: rows whose transaction the database breaks off

ASSUME ImportAssumption == MaxRows \in Nat /\ MaxBroken \in Nat

VARIABLES
  areas,       \* rows of areas: [name, by, nr], nr counting what an import created
  locations,   \* rows of locations: [name, by, nr]
  imports,     \* the imports: [running, areaMap, locationMap, processed, nr]
  outcomes,    \* rows done: [by, nr, row, status]
  before,      \* the areas and locations that each import found when it began
  broken

ivars == <<areas, locations, imports, outcomes, before, broken>>

Row == [area : Area, location : Location]

Waiting == [running |-> FALSE, areaMap |-> {}, locationMap |-> {}, processed |-> {}, nr |-> 0]

\* Mutant: the maps start empty
Known_Nothing(rows) == {}

\* A map's entry for a name: the last of the rows read with it
Known(rows) == {CHOOSE e \in rows : e.name = n : n \in {e.name : e \in rows}}

Start(i) ==
  /\ imports[i] = Waiting
  /\ imports' = [imports EXCEPT ![i] = [@ EXCEPT !.running = TRUE, !.areaMap = Known(areas),
                                                 !.locationMap = Known(locations)]]
  /\ before' = [before EXCEPT ![i] = [areas |-> areas, locations |-> locations]]
  /\ UNCHANGED <<areas, locations, outcomes, broken>>

Duplicate(i, row) ==
  /\ imports[i].running /\ imports[i].nr < MaxRows
  /\ row \in imports[i].processed
  /\ imports' = [imports EXCEPT ![i].nr = @ + 1]
  /\ UNCHANGED <<areas, locations, outcomes, before, broken>>

\* resolveBatchArea, resolveBatchLocation: an entry of the map or a row to create
Resolve(map, name, i) ==
  IF \E e \in map : e.name = name THEN CHOOSE e \in map : e.name = name
  ELSE [name |-> name, by |-> i, nr |-> imports[i].nr]

Remembered(map, entry) == map \cup {entry}

\* One row: an area, a location, the document that refers to both.  A location whose name
\* is taken ends the transaction before the map gets it; an entry that a transaction
\* rolled back had created stays in the map and breaks the document's foreign key.
ImportRow(i, row, breaks) ==
  LET import == imports[i]
      area == Resolve(import.areaMap, row.area, i)
      location == Resolve(import.locationMap, row.location, i)
      newArea == area \notin import.areaMap
      newLocation == location \notin import.locationMap
      taken == newLocation /\ \E l \in locations : l.name = row.location
      dangling == (~newArea /\ area \notin areas) \/ (~newLocation /\ location \notin locations)
      created == ~taken /\ ~dangling /\ ~breaks
  IN
  /\ import.running /\ import.nr < MaxRows
  /\ row \notin import.processed
  /\ breaks => broken < MaxBroken
  /\ broken' = IF breaks THEN broken + 1 ELSE broken
  /\ areas' = IF created THEN areas \cup {area} ELSE areas
  /\ locations' = IF created THEN locations \cup {location} ELSE locations
  /\ imports' = [imports EXCEPT ![i] =
       [import EXCEPT !.areaMap = Remembered(@, area),
                      !.locationMap = IF taken THEN @ ELSE @ \cup {location},
                      !.processed = @ \cup {row}, !.nr = @ + 1]]
  /\ outcomes' = outcomes \cup
       {[by |-> i, nr |-> import.nr, row |-> row,
         status |-> IF taken THEN "taken" ELSE IF dangling THEN "dangling"
                    ELSE IF breaks THEN "broken" ELSE "created"]}
  /\ UNCHANGED before

ImportInit ==
  /\ areas = {} /\ locations = {}
  /\ imports = [i \in Import |-> Waiting]
  /\ outcomes = {} /\ before = [i \in Import |-> [areas |-> {}, locations |-> {}]] /\ broken = 0

ImportNext ==
  \E i \in Import :
    \/ Start(i)
    \/ \E row \in Row : Duplicate(i, row) \/ \E breaks \in BOOLEAN : ImportRow(i, row, breaks)

ImportSpec == ImportInit /\ [][ImportNext]_ivars

-----------------------------------------------------------------------------
(* Properties *)

\* A row fails only where the database broke off, or a location of its name came to be
\* after the import began, by another import, or an earlier row of the same import had
\* failed that named its area or its location first.
ErrorsExplained ==
  \A o \in outcomes :
    /\ o.status = "taken" =>
         \E l \in locations : l.name = o.row.location /\ l.by # o.by /\ l \notin before[o.by].locations
    /\ o.status = "dangling" =>
         \E p \in outcomes :
           /\ p.by = o.by /\ p.nr < o.nr /\ p.status # "created"
           /\ p.row.area = o.row.area \/ p.row.location = o.row.location

\* Two areas of one name come only from imports that overlapped: neither found the name
\* when it began.
AreasDoubledByOverlap ==
  \A a, b \in areas : a # b /\ a.name = b.name =>
    /\ a.by # b.by
    /\ a \notin before[b.by].areas /\ b \notin before[a.by].areas

\* Both: what failed and what was doubled has a reason in the order of the rows.
ImportsExplained == ErrorsExplained /\ AreasDoubledByOverlap

-----------------------------------------------------------------------------
(* Inductive invariant *)

AreaRow == [name : Area, by : Import, nr : Nat]
LocationRow == [name : Location, by : Import, nr : Nat]

ImportTypeOK ==
  /\ areas \subseteq AreaRow /\ locations \subseteq LocationRow
  /\ imports \in [Import -> [running : BOOLEAN, areaMap : SUBSET AreaRow,
                             locationMap : SUBSET LocationRow, processed : SUBSET Row, nr : Nat]]
  /\ outcomes \subseteq [by : Import, nr : Nat, row : Row,
                         status : {"taken", "dangling", "broken", "created"}]
  /\ before \in [Import -> [areas : SUBSET AreaRow, locations : SUBSET LocationRow]]

\* Rows and outcomes are of imports that run, and of rows they have done; what an import
\* found is still there.
MadeByImports ==
  /\ \A r \in areas \cup locations : imports[r.by].running
  /\ \A o \in outcomes : imports[o.by].running /\ o.nr < imports[o.by].nr
  /\ \A i \in Import : before[i].areas \subseteq areas /\ before[i].locations \subseteq locations

\* The maps of i know every name that it found or created.
MapsKnow(i) ==
  /\ \A a \in areas : a.by = i \/ a \in before[i].areas =>
       \E e \in imports[i].areaMap : e.name = a.name
  /\ \A l \in locations : l.by = i \/ l \in before[i].locations =>
       \E e \in imports[i].locationMap : e.name = l.name

\* An entry without a row is what a row that failed has left.
MapsExplained(i) ==
  /\ \A e \in imports[i].areaMap : e \in areas \/
       \E p \in outcomes : p.by = i /\ p.status # "created" /\ p.row.area = e.name
  /\ \A e \in imports[i].locationMap : e \in locations \/
       \E p \in outcomes : p.by = i /\ p.status # "created" /\ p.row.location = e.name

\* ImportsExplained with what makes it inductive
ImportInv ==
  /\ ImportTypeOK /\ MadeByImports /\ ImportsExplained
  /\ \A i \in Import : MapsExplained(i) /\ (imports[i].running => MapsKnow(i))

=============================================================================
