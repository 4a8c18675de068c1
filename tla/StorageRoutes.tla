--------------------------- MODULE StorageRoutes ---------------------------
(***************************************************************************)
(* Where a hardcopy is kept: a location, by an asset number or directly on *)
(* a specific of an area.  The hardcopy row repeats the route of its       *)
(* location; edits of specifics, asset numbers and locations cascade to it *)
(* (updateMany in their services), and it is written by the document form, *)
(* by batch imports and by the acceptance of transfers.  Every one of them *)
(* reads the catalog first and writes later what follows from it, while    *)
(* others commit: transactions are READ COMMITTED.  What one reads at      *)
(* several moments is taken as read at once: if another commits between    *)
(* these, it has read before that.                                         *)
(***************************************************************************)
EXTENDS Naturals, FiniteSets

CONSTANTS Area, Specific, Asset, Place, None,
  MaxBegun     \* bound: handlers and transfers under way

Kept == "kept"   \* a request that leaves out the asset number of a location

ASSUME RouteAssumption ==
  /\ None \notin Area \cup Specific \cup Asset \cup Place
  /\ Kept \notin Asset \cup {None} /\ MaxBegun \in Nat

VARIABLES
  areaOf,     \* specifics.area_id
  assetOn,    \* asset_numbers.specific_id
  placeAt,    \* locations: asset_id and specific_id
  copy,       \* the hardcopy_documents row
  form,       \* the open form: its four selections
  begun,      \* handlers between reading and writing, transfers: [by, of, read]
  strayed     \* whether, since the row was last written, one wrote or skipped it by what others
              \* had changed since, or wrote a selection that the catalog contradicted

rvars == <<areaOf, assetOn, placeAt, copy, form, begun, strayed>>

Selection == [area : Area \cup {None}, specific : Specific \cup {None},
              asset : Asset \cup {None}, place : Place \cup {None}]

Empty == [area |-> None, specific |-> None, asset |-> None, place |-> None]

First(x, y) == IF x # None THEN x ELSE y

AreaOf(s)  == IF s = None THEN None ELSE areaOf[s]
AssetOn(x) == IF x = None THEN None ELSE assetOn[x]

\* The specific a location is on: its asset's, or else its own
RouteOf(l, on, at) ==
  IF l = None THEN None
  ELSE First(IF at[l].asset = None THEN None ELSE on[at[l].asset], at[l].specific)

-----------------------------------------------------------------------------
(* The form: each selection adjusts or clears the others *)

\* Clears a selection that the list it was made from no longer offers
WithoutPlace(f) ==
  IF f.place # None /\ f.asset # None /\ placeAt[f.place].asset # f.asset
  THEN [f EXCEPT !.place = None] ELSE f

Filtered(f) ==
  WithoutPlace(IF f.asset # None /\ f.specific # None /\ assetOn[f.asset] # f.specific
               THEN [f EXCEPT !.asset = None] ELSE f)

WithArea(f, a) ==
  Filtered(IF a # None /\ f.specific # None /\ areaOf[f.specific] # a
           THEN [f EXCEPT !.area = a, !.specific = None]
           ELSE [f EXCEPT !.area = a])

WithSpecific(f, s) == Filtered([f EXCEPT !.specific = s, !.area = First(AreaOf(s), @)])

WithAsset(f, x) ==
  LET g == [f EXCEPT !.asset = x] IN
  WithoutPlace(IF AssetOn(x) # None THEN WithSpecific(g, AssetOn(x)) ELSE g)

WithPlace(f, l) ==
  LET g == [f EXCEPT !.place = l]
      h == IF l = None THEN g
           ELSE IF placeAt[l].asset # None THEN WithAsset(g, placeAt[l].asset)
           ELSE IF placeAt[l].specific # None
                THEN [WithSpecific(g, placeAt[l].specific) EXCEPT !.asset = None]
           ELSE g
  IN [h EXCEPT !.place = l]

Select ==
  /\ \/ \E a \in Area \cup {None} : form' = WithArea(form, a)
     \/ \E s \in Specific \cup {None} : form' = WithSpecific(form, s)
     \/ \E x \in Asset \cup {None} : form' = WithAsset(form, x)
     \/ \E l \in Place \cup {None} : form' = WithPlace(form, l)
  /\ UNCHANGED <<areaOf, assetOn, placeAt, copy, begun, strayed>>

\* The form of an existing document starts from its row
OpenForm ==
  /\ form' = copy
  /\ UNCHANGED <<areaOf, assetOn, placeAt, copy, begun, strayed>>

\* The area, where one is given, is the specific's
Agrees(f) == f.specific # None /\ areaOf[f.specific] # None /\ f.area # None
               => f.area = areaOf[f.specific]

\* Mutant: the area is the form's
Resolved_FormArea(f) ==
  [f EXCEPT !.specific = First(RouteOf(f.place, assetOn, placeAt), @),
            !.asset = First(placeAt[f.place].asset, @)]

\* resolveHardcopyStorageRoute
Resolved(f) ==
  LET at == placeAt[f.place] IN
  [area     |-> First(First(AreaOf(AssetOn(at.asset)), AreaOf(at.specific)), f.area),
   specific |-> First(RouteOf(f.place, assetOn, placeAt), f.specific),
   asset    |-> First(at.asset, f.asset),
   place    |-> f.place]

-----------------------------------------------------------------------------
(* Handlers read, then write *)

Reads(by, of, read) ==
  /\ Cardinality(begun) < MaxBegun
  /\ begun' = begun \cup {[by |-> by, of |-> of, read |-> read]}

\* now: what it would read now; held: whether it writes the row
Writes(j, now, held) ==
  /\ begun' = begun \ {j}
  /\ strayed' = (j.read # now \/ (strayed /\ ~held))

\* The same for one that writes a selection
WritesSelection(j, now) ==
  /\ begun' = begun \ {j}
  /\ strayed' = (j.read # now \/ ~Agrees(j.of))

BeginSave ==
  /\ form.area # None /\ form.place # None
  /\ Reads("form", form, Resolved(form)) /\ form' = Empty
  /\ UNCHANGED <<areaOf, assetOn, placeAt, copy, strayed>>

SaveForm(j) ==
  /\ j \in begun /\ j.by = "form"
  /\ copy' = j.read
  /\ WritesSelection(j, Resolved(j.of))
  /\ UNCHANGED <<areaOf, assetOn, placeAt, form>>

\* An import reads the catalog once: a specific is looked up by its name and area.  What
\* the location is on plays no part.
Looked(f) == [area |-> AreaOf(f.specific)]

BeginRow(f) ==
  /\ copy = Empty /\ f.area # None /\ f.place # None
  /\ f.specific # None => areaOf[f.specific] = f.area
  /\ Reads("import", f, Looked(f))
  /\ UNCHANGED <<areaOf, assetOn, placeAt, copy, form, strayed>>

ImportRow(j) ==
  /\ j \in begun /\ j.by = "import" /\ copy = Empty
  /\ copy' = j.of
  /\ Writes(j, Looked(j.of), TRUE)
  /\ UNCHANGED <<areaOf, assetOn, placeAt, form>>

\* resolveDestinationStorage
Destination(f) ==
  LET at == placeAt[f.place] IN
  [area     |-> First(First(AreaOf(AssetOn(at.asset)), AreaOf(at.specific)),
                      First(AreaOf(AssetOn(f.asset)), f.area)),
   specific |-> First(First(AssetOn(at.asset), at.specific), First(AssetOn(f.asset), f.specific)),
   asset    |-> First(at.asset, f.asset),
   place    |-> f.place]

RequestTransfer(f) ==
  LET at == placeAt[f.place]  to == Destination(f) IN
  /\ copy # Empty /\ f.place # None /\ to.specific # None
  /\ f.asset # None => /\ at.asset \in {None, f.asset}
                       /\ at.specific # None => AssetOn(f.asset) \in {None, at.specific}
  /\ f.area \in {None, to.area} /\ f.specific \in {None, to.specific}
  /\ Reads("transfer", f, to)
  /\ UNCHANGED <<areaOf, assetOn, placeAt, copy, form, strayed>>

AcceptTransfer(j) ==
  /\ j \in begun /\ j.by = "transfer"
  /\ IF j.read.area # None
     THEN copy' = j.read /\ WritesSelection(j, Destination(j.of))
     ELSE begun' = begun \ {j} /\ UNCHANGED <<copy, strayed>>
  /\ UNCHANGED <<areaOf, assetOn, placeAt, form>>

-----------------------------------------------------------------------------
(* The catalog *)

OnSpecific(s) ==
  [held |-> \/ copy.specific = s
            \/ AssetOn(copy.asset) = s
            \/ copy.place # None /\ AssetOn(placeAt[copy.place].asset) = s]

BeginSpecific(s, a) ==
  /\ Reads("specific", [specific |-> s, area |-> a], OnSpecific(s))
  /\ UNCHANGED <<areaOf, assetOn, placeAt, copy, form, strayed>>

UpdateSpecific(j) ==
  /\ j \in begun /\ j.by = "specific"
  /\ areaOf' = [areaOf EXCEPT ![j.of.specific] = j.of.area]
  /\ LET held == j.of.area # None /\ j.read.held IN
       /\ copy' = IF held THEN [copy EXCEPT !.specific = j.of.specific, !.area = j.of.area] ELSE copy
       /\ Writes(j, OnSpecific(j.of.specific), held)
  /\ UNCHANGED <<assetOn, placeAt, form>>

\* The area that an asset number comes to, and what is on it
OnAsset(x, s) ==
  [area   |-> AreaOf(s),
   places |-> {l \in Place : placeAt[l].asset = x},
   held   |-> copy.asset = x \/ (copy.place # None /\ placeAt[copy.place].asset = x)]

BeginAsset(x, s) ==
  /\ Reads("asset", [asset |-> x, specific |-> s], OnAsset(x, s))
  /\ UNCHANGED <<areaOf, assetOn, placeAt, copy, form, strayed>>

UpdateAsset(j) ==
  LET x == j.of.asset  s == j.of.specific  routed == j.read.area # None IN
  /\ j \in begun /\ j.by = "asset"
  /\ assetOn' = [assetOn EXCEPT ![x] = s]
  /\ placeAt' = [l \in Place |-> IF routed /\ l \in j.read.places
                                 THEN [placeAt[l] EXCEPT !.specific = s] ELSE placeAt[l]]
  /\ copy' = IF routed /\ j.read.held
             THEN [copy EXCEPT !.asset = x, !.specific = s, !.area = j.read.area] ELSE copy
  /\ Writes(j, OnAsset(x, s), routed /\ j.read.held)
  /\ UNCHANGED <<areaOf, form>>

\* What location l comes to be on with asset number x, or the one it has, and specific s,
\* and the route of the hardcopies there
OnPlace(l, x, s) ==
  LET asset == IF x = Kept THEN placeAt[l].asset ELSE x
      own   == First(IF x = Kept THEN None ELSE AssetOn(x), s)
      on    == First(AssetOn(asset), own)
  IN [asset |-> asset, own |-> own, on |-> on, area |-> AreaOf(on), held |-> copy.place = l]

BeginPlace(l, x, s) ==
  /\ OnPlace(l, x, s).own # None
  /\ Reads("place", [place |-> l, asset |-> x, specific |-> s], OnPlace(l, x, s))
  /\ UNCHANGED <<areaOf, assetOn, placeAt, copy, form, strayed>>

UpdatePlace(j) ==
  LET to == j.read  held == to.held /\ to.area # None IN
  /\ j \in begun /\ j.by = "place"
  /\ placeAt' = [placeAt EXCEPT ![j.of.place] = [asset |-> to.asset, specific |-> to.own]]
  /\ copy' = IF held
             THEN [copy EXCEPT !.asset = to.asset, !.specific = to.on, !.area = to.area] ELSE copy
  /\ Writes(j, OnPlace(j.of.place, j.of.asset, j.of.specific), held)
  /\ UNCHANGED <<areaOf, assetOn, form>>

\* Foreign keys: a hardcopy keeps its area, other references are set to null, those of a
\* transfer's destination too
Nulled(field, v) ==
  {IF j.by = "transfer" /\ j.read[field] = v THEN [j EXCEPT !.read[field] = None] ELSE j : j \in begun}

RemoveArea(a) ==
  /\ copy.area # a
  /\ areaOf' = [s \in Specific |-> IF areaOf[s] = a THEN None ELSE areaOf[s]]
  /\ begun' = Nulled("area", a)
  /\ UNCHANGED <<assetOn, placeAt, copy, form, strayed>>

RemoveSpecific(s) ==
  /\ areaOf' = [areaOf EXCEPT ![s] = None]
  /\ assetOn' = [x \in Asset |-> IF assetOn[x] = s THEN None ELSE assetOn[x]]
  /\ placeAt' = [l \in Place |-> IF placeAt[l].specific = s
                                 THEN [placeAt[l] EXCEPT !.specific = None] ELSE placeAt[l]]
  /\ copy' = IF copy.specific = s THEN [copy EXCEPT !.specific = None] ELSE copy
  /\ begun' = Nulled("specific", s)
  /\ UNCHANGED <<form, strayed>>

RemoveAsset(x) ==
  /\ assetOn' = [assetOn EXCEPT ![x] = None]
  /\ placeAt' = [l \in Place |-> IF placeAt[l].asset = x
                                 THEN [placeAt[l] EXCEPT !.asset = None] ELSE placeAt[l]]
  /\ copy' = IF copy.asset = x THEN [copy EXCEPT !.asset = None] ELSE copy
  /\ begun' = Nulled("asset", x)
  /\ UNCHANGED <<areaOf, form, strayed>>

-----------------------------------------------------------------------------

RoutesInit ==
  /\ areaOf = [s \in Specific |-> None]
  /\ assetOn = [x \in Asset |-> None]
  /\ placeAt = [l \in Place |-> [asset |-> None, specific |-> None]]
  /\ copy = Empty /\ form = Empty /\ begun = {} /\ strayed = FALSE

RoutesNext ==
  \/ Select \/ OpenForm \/ BeginSave
  \/ \E f \in Selection : BeginRow(f) \/ RequestTransfer(f)
  \/ \E j \in begun : \/ SaveForm(j) \/ ImportRow(j) \/ AcceptTransfer(j)
                     \/ UpdateSpecific(j) \/ UpdateAsset(j) \/ UpdatePlace(j)
  \/ \E s \in Specific : RemoveSpecific(s) \/ \E a \in Area \cup {None} : BeginSpecific(s, a)
  \/ \E x \in Asset : RemoveAsset(x) \/ \E s \in Specific \cup {None} : BeginAsset(x, s)
  \/ \E l \in Place, x \in Asset \cup {None, Kept}, s \in Specific \cup {None} : BeginPlace(l, x, s)
  \/ \E a \in Area : RemoveArea(a)

RoutesSpec == RoutesInit /\ [][RoutesNext]_rvars

-----------------------------------------------------------------------------
(* Properties *)

\* A hardcopy is in the area of its specific, however the catalog is edited and whoever
\* writes the row, unless, since the row was last written from what the catalog said, a
\* handler or an accepted transfer did what had followed from the catalog before others
\* changed that, or wrote a selection that the catalog contradicted.
CopyInAreaOfSpecific == strayed \/ Agrees(copy)

-----------------------------------------------------------------------------
(* Inductive invariant *)

\* What a handler of each kind has read of the catalog and is to write
HandlerOf(j) ==
  \/ j \in [by : {"form", "transfer"}, of : {f \in Selection : f.place # None}, read : Selection]
  \/ j \in [by : {"import"}, of : Selection, read : [area : Area \cup {None}]]
  \/ j \in [by : {"specific"}, of : [specific : Specific, area : Area \cup {None}],
           read : [held : BOOLEAN]]
  \/ j \in [by : {"asset"}, of : [asset : Asset, specific : Specific \cup {None}],
           read : [area : Area \cup {None}, places : SUBSET Place, held : BOOLEAN]]
  \/ j \in [by : {"place"},
           of : [place : Place, asset : Asset \cup {None, Kept}, specific : Specific \cup {None}],
           read : [asset : Asset \cup {None}, own : Specific, on : Specific \cup {None},
                   area : Area \cup {None}, held : BOOLEAN]]

RoutesTypeOK ==
  /\ areaOf \in [Specific -> Area \cup {None}]
  /\ assetOn \in [Asset -> Specific \cup {None}]
  /\ placeAt \in [Place -> [asset : Asset \cup {None}, specific : Specific \cup {None}]]
  /\ copy \in Selection /\ form \in Selection
  /\ \A j \in begun : HandlerOf(j)

\* The specific of an imported row was found in its area
RowsFound == \A j \in begun : j.by = "import" /\ j.of.specific # None => j.read.area = j.of.area

\* CopyInAreaOfSpecific with what makes it inductive
RoutesInv == RoutesTypeOK /\ RowsFound /\ CopyInAreaOfSpecific

=============================================================================
