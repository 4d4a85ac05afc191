------------------------------ MODULE EdgeProofs ------------------------------
(***************************************************************************)
(* Proofs about the four edges of the system, where data enters or is      *)
(* shown: ZoneEditor for every set of positions and every bound on the     *)
(* number of points, OverlayPlayer for any video and any timelines,        *)
(* ScenarioLog for any frames and however the recording ends, EventRequest *)
(* for any fields in any order.                                            *)
(*                                                                         *)
(* Of the arithmetic of Side the editor's proofs use only that it yields   *)
(* integers: whatever the shape of the polygons, the editor's bookkeeping  *)
(* keeps them as its validator left them.                                  *)
(*                                                                         *)
(* The player hears of playback late, from a queue; its invariant says     *)
(* what the queue is going to do: there is a plan, the number of frames    *)
(* pending after each queued event, that starts at what is pending now and *)
(* ends at what the element needs.                                         *)
(***************************************************************************)
EXTENDS ZoneEditor, OverlayPlayer, ScenarioLog, EventRequest, SequenceTheorems,
        FiniteSetTheorems, WellFoundedInduction, TLAPS

-----------------------------------------------------------------------------
(***************************************************************************)
(* The arrays.                                                             *)
(***************************************************************************)

\* A vertex written at a place of an array: the array is long enough for it,
\* and the other elements are what they were, or undefined.
LEMMA WriteAtProperties ==
    ASSUME NEW zone \in Zone, NEW i \in Nat \ {0}, NEW v \in Vertex
    PROVE  /\ WriteAt(zone, i, v) \in Zone
           /\ Len(WriteAt(zone, i, v)) = IF i > Len(zone) THEN i ELSE Len(zone)
           /\ WriteAt(zone, i, v)[i] = v
           /\ \A k \in 1 .. Len(zone) : k # i => WriteAt(zone, i, v)[k] = zone[k]
<1> DEFINE size == IF i > Len(zone) THEN i ELSE Len(zone)
           value(k) == IF k = i THEN v ELSE IF k =< Len(zone) THEN zone[k] ELSE Hole
<1>1. zone \in Seq(Vertex) /\ Len(zone) \in Nat /\ size \in Nat
  BY LenProperties DEF Zone
<1>2. \A k \in 1 .. size : value(k) \in Vertex
  <2>1. Hole \in Vertex
    BY DEF Vertex
  <2>2. \A k \in 1 .. Len(zone) : zone[k] \in Vertex
    BY <1>1, ElementOfSeq
  <2> QED
    BY <1>1, <2>1, <2>2
<1>3. WriteAt(zone, i, v) = [k \in 1 .. size |-> value(k)]
  BY DEF WriteAt
<1> HIDE DEF value
<1>4. /\ WriteAt(zone, i, v) \in Seq(Vertex)
      /\ Len(WriteAt(zone, i, v)) = size
      /\ \A k \in 1 .. size : WriteAt(zone, i, v)[k] = value(k)
  BY <1>1, <1>2, <1>3, IsASeq, LenProperties
<1>5. i \in 1 .. size /\ \A k \in 1 .. Len(zone) : k \in 1 .. size
  BY <1>1
<1> QED
  BY <1>4, <1>5 DEF value, Zone

\* Equal sequences: the same length and the same elements.
LEMMA SameArray ==
    ASSUME NEW s \in Zone, NEW t \in Zone, Len(s) = Len(t),
           \A k \in 1 .. Len(s) : s[k] = t[k]
    PROVE  s = t
  BY SeqEqual DEF Zone

-----------------------------------------------------------------------------
(***************************************************************************)
(* PolygonValidator.                                                       *)
(***************************************************************************)

\* Whole polygons have numbers for coordinates.
LEMMA SideIsNumber ==
    ASSUME NEW p \in Grid, NEW q \in Grid, NEW r \in Grid
    PROVE  Side(p, q, r) \in Int
<1>1. /\ p[1] \in Int /\ p[2] \in Int
      /\ q[1] \in Int /\ q[2] \in Int
      /\ r[1] \in Int /\ r[2] \in Int
  BY GridAssumption
<1> QED
  BY <1>1 DEF Side

\* Points strictly on either side of a line have different orientations.
LEMMA OppositeOrientations ==
    ASSUME NEW p \in Grid, NEW q \in Grid, NEW a \in Grid, NEW b \in Grid,
           OppositeSides(p, q, a, b)
    PROVE  Orientation(p, q, a) # Orientation(p, q, b)
<1>1. Empty \notin {p, q, a} /\ Empty \notin {p, q, b}
  BY VertexAssumption
<1> DEFINE x == Side(p, q, a)
           y == Side(p, q, b)
<1>2. x \in Int /\ y \in Int
  BY SideIsNumber
<1>3. (x > 0 /\ y < 0) \/ (x < 0 /\ y > 0)
  BY DEF OppositeSides
<1>4. /\ Orientation(p, q, a) = IF x = 0 THEN 0 ELSE IF x > 0 THEN 1 ELSE 2
      /\ Orientation(p, q, b) = IF y = 0 THEN 0 ELSE IF y > 0 THEN 1 ELSE 2
  BY <1>1 DEF Orientation
<1> HIDE DEF x, y
<1> QED
  BY <1>2, <1>3, <1>4

\* A polygon the validator accepts has no crossed edges: the pairs of edges it
\* does not compare share a vertex.
LEMMA ValidIsSimple ==
    ASSUME NEW zone \in Zone, Len(zone) >= 3, Whole(zone), IsValidPolygon(zone)
    PROVE  ~Crossed(zone)
<1>1. DOMAIN zone = 1 .. Len(zone) /\ Len(zone) \in Nat
  BY LenProperties DEF Zone
<1> SUFFICES ASSUME NEW i \in DOMAIN zone, NEW j \in DOMAIN zone,
                    i < j,
                    j # After(zone, i),
                    i # After(zone, j),
                    OppositeSides(zone[i], zone[After(zone, i)],
                                  zone[j], zone[After(zone, j)]),
                    OppositeSides(zone[j], zone[After(zone, j)],
                                  zone[i], zone[After(zone, i)])
             PROVE  FALSE
  BY DEF Crossed
<1>2. i + 2 =< j /\ ~(i = 1 /\ j = Len(zone))
  BY <1>1 DEF After
<1>3. After(zone, i) \in DOMAIN zone /\ After(zone, j) \in DOMAIN zone
  BY <1>1 DEF After
<1>4. <<i, j>> \in EdgePairs(zone)
  BY <1>2 DEF EdgePairs
<1>5. ~PairCrosses(zone, <<i, j>>)
  <2>1. Len(zone) >= 4
    BY <1>1, <1>2
  <2> QED
    BY <1>1, <1>4, <2>1 DEF IsValidPolygon
<1>6. ~DoIntersect(zone[i], zone[After(zone, i)], zone[j], zone[After(zone, j)])
  BY <1>5 DEF PairCrosses, Ends
<1>7. /\ zone[i] \in Grid /\ zone[After(zone, i)] \in Grid
      /\ zone[j] \in Grid /\ zone[After(zone, j)] \in Grid
  BY <1>3 DEF Whole
<1> QED
  BY <1>6, <1>7, OppositeOrientations DEF DoIntersect

\* The validator raises an exception only on a polygon with an undefined vertex.
LEMMA WholeNeverThrows ==
    ASSUME NEW zone \in Zone, Whole(zone)
    PROVE  ~Throws(zone)
<1>1. DOMAIN zone = 1 .. Len(zone) /\ Len(zone) \in Nat
  BY LenProperties DEF Zone
<1> SUFFICES ASSUME NEW e \in EdgePairs(zone), PairThrows(zone, e)
             PROVE  FALSE
  BY DEF Throws
<1>2. e[1] \in DOMAIN zone /\ e[2] \in DOMAIN zone
  BY DEF EdgePairs
<1>3. After(zone, e[1]) \in DOMAIN zone /\ After(zone, e[2]) \in DOMAIN zone
  BY <1>1, <1>2 DEF After
<1>4. \A k \in 1 .. 4 : Ends(zone, e)[k] \in Grid
  BY <1>2, <1>3 DEF Ends, Whole
<1> QED
  BY <1>4, VertexAssumption DEF PairThrows

-----------------------------------------------------------------------------
(***************************************************************************)
(* Types.                                                                  *)
(***************************************************************************)

\* Every reference getHitTarget can return has the type of a drag target, and
\* names an element of an array that is there.
LEMMA ReferenceExists ==
    ASSUME EditorTypeOK, NEW r
    PROVE  r \in References <=>
              /\ r \in [zone : Nat, point : Nat \ {0}]
              /\ r.zone \in 0 .. ZoneCount
              /\ r.point \in 1 .. Len(ZoneAt(r.zone))
<1>1. ZoneCount \in Nat
  BY LenProperties DEF EditorTypeOK, ZoneCount
<1>2. ASSUME NEW z \in 0 .. ZoneCount
      PROVE  ZoneAt(z) \in Zone
  BY <1>1, <1>2, ElementOfSeq DEF EditorTypeOK, ZoneAt, ZoneCount
<1>3. ASSUME NEW z \in 0 .. ZoneCount
      PROVE  DOMAIN ZoneAt(z) = 1 .. Len(ZoneAt(z)) /\ Len(ZoneAt(z)) \in Nat
  BY <1>2, LenProperties DEF Zone
<1>4. r \in References <=>
         \E z \in 0 .. ZoneCount : r \in [zone : {z}, point : 1 .. Len(ZoneAt(z))]
  BY <1>3 DEF References
<1>5. ASSUME NEW z \in 0 .. ZoneCount, r \in [zone : {z}, point : 1 .. Len(ZoneAt(z))]
      PROVE  /\ r \in [zone : Nat, point : Nat \ {0}]
             /\ r.zone \in 0 .. ZoneCount
             /\ r.point \in 1 .. Len(ZoneAt(r.zone))
  BY <1>1, <1>3, <1>5
<1>6. ASSUME r \in [zone : Nat, point : Nat \ {0}],
             r.zone \in 0 .. ZoneCount,
             r.point \in 1 .. Len(ZoneAt(r.zone))
      PROVE  r \in [zone : {r.zone}, point : 1 .. Len(ZoneAt(r.zone))]
  BY <1>6
<1> QED
  BY <1>4, <1>5, <1>6

\* Dragging a vertex leaves an array of vertices.
LEMMA DraggedIsZone ==
    ASSUME NEW zone \in Zone, NEW i \in Nat \ {0}, NEW p \in Grid
    PROVE  Dragged(zone, i, p) \in Zone
<1>1. p \in Vertex
  BY DEF Vertex
<1>2. WriteAt(zone, i, p) \in Zone
  BY <1>1, WriteAtProperties
<1>3. OriginalPoint(zone, i) \in Vertex
  <2>1. \A k \in DOMAIN zone : zone[k] \in Vertex
    BY DEF Zone
  <2> QED
    BY <2>1 DEF OriginalPoint, Vertex
<1>4. WriteAt(WriteAt(zone, i, p), i, OriginalPoint(zone, i)) \in Zone
  BY <1>2, <1>3, WriteAtProperties
<1> QED
  BY <1>2, <1>4 DEF Dragged

\* Each handler of the editor keeps the types.
LEMMA EditorTypeStep ==
    ASSUME EditorTypeOK, [EditorNext]_editorVars
    PROVE  EditorTypeOK'
<1>1. /\ currentZone \in Seq(Vertex) /\ <<>> \in Seq(Vertex)
      /\ <<>> \in Seq(Seq(Vertex)) /\ completedZones \in Seq(Seq(Vertex))
      /\ Len(completedZones) \in Nat
  BY EmptySeq, LenProperties DEF EditorTypeOK, Zone
<1>2. ASSUME NEW button \in Button, NEW p \in Grid, OnMouseDown(button, p)
      PROVE  EditorTypeOK'
  <2>1. menuDue' \in BOOLEAN
    BY <1>2 DEF OnMouseDown, MenuFollows
  <2>2. CASE Grab(button, p)
    <3>1. PICK r \in FirstStop(p) : dragTarget' = r
      BY <2>2 DEF Grab
    <3>2. dragTarget' \in [zone : Nat, point : Nat \ {0}]
      BY <3>1, ReferenceExists DEF FirstStop
    <3> QED
      BY <1>2, <2>1, <2>2, <3>2 DEF OnMouseDown, Grab, EditorTypeOK
  <2>3. CASE AddPoint(button, p)
    <3>1. currentZone' \in Seq(Vertex)
      <4>1. p \in Vertex
        BY DEF Vertex
      <4> QED
        BY <1>1, <2>3, <4>1, AppendProperties DEF AddPoint
    <3> QED
      BY <1>2, <2>1, <2>3, <3>1 DEF OnMouseDown, AddPoint, EditorTypeOK, Zone
  <2>4. CASE PressInVain(button, p)
    BY <1>2, <2>1, <2>4 DEF OnMouseDown, PressInVain, EditorTypeOK
  <2> QED
    BY <1>2, <2>2, <2>3, <2>4 DEF OnMouseDown
<1>3. ASSUME NEW p \in Grid, OnMouseMove(p)
      PROVE  EditorTypeOK'
  <2>1. dragTarget \in [zone : Nat, point : Nat \ {0}]
    BY <1>3 DEF OnMouseMove, EditorTypeOK
  <2> DEFINE z == dragTarget.zone
             i == dragTarget.point
  <2>2. z \in Nat /\ i \in Nat \ {0}
    BY <2>1
  <2>3. CASE /\ z = 0
             /\ currentZone' = Dragged(currentZone, i, p)
             /\ UNCHANGED completedZones
    BY <1>3, <2>2, <2>3, DraggedIsZone DEF OnMouseMove, EditorTypeOK
  <2>4. CASE /\ z \in 1 .. ZoneCount
             /\ completedZones' =
                    [completedZones EXCEPT ![z] = Dragged(@, i, p)]
             /\ UNCHANGED currentZone
    <3>1. completedZones[z] \in Zone
      BY <1>1, <2>4, ElementOfSeq DEF ZoneCount, Zone
    <3>2. Dragged(completedZones[z], i, p) \in Zone
      BY <2>2, <3>1, DraggedIsZone
    <3>3. completedZones' \in Seq(Zone)
      BY <1>1, <2>4, <3>2, ExceptSeq DEF ZoneCount, Zone
    <3> QED
      BY <1>3, <2>4, <3>3 DEF OnMouseMove, EditorTypeOK
  <2> QED
    BY <1>3, <2>3, <2>4 DEF OnMouseMove
<1>4. ASSUME NEW button \in Button, OnMouseUp(button)
      PROVE  EditorTypeOK'
  BY <1>4 DEF OnMouseUp, MenuFollows, EditorTypeOK
<1>5. CASE CloseCurrentZone
  <2>1. completedZones' \in Seq(Zone)
    BY <1>1, <1>5, AppendProperties DEF CloseCurrentZone, Zone
  <2> QED
    BY <1>1, <1>5, <2>1 DEF CloseCurrentZone, NoteInterruption, EditorTypeOK, Zone
<1>6. CASE RefuseToClose
  BY <1>6 DEF RefuseToClose, EditorTypeOK
<1>7. CASE StartDrawingMode
  BY <1>7 DEF StartDrawingMode, EditorTypeOK
<1>8. CASE StopDrawingMode
  BY <1>1, <1>8 DEF StopDrawingMode, NoteInterruption, EditorTypeOK, Zone
<1>9. CASE ClearAll
  BY <1>1, <1>9 DEF ClearAll, NoteInterruption, EditorTypeOK, Zone
<1>10. CASE UNCHANGED editorVars
  BY <1>10 DEF editorVars, EditorTypeOK
<1> QED
  BY <1>2, <1>3, <1>4, <1>5, <1>6, <1>7, <1>8, <1>9, <1>10 DEF EditorNext

\* Arrays, drag target and flags have their types in every reachable state.
THEOREM EditorTypeInvariant == EditorSpec => []EditorTypeOK
<1>1. EditorInit => EditorTypeOK
  BY EmptySeq DEF EditorInit, EditorTypeOK, Zone
<1> QED
  BY <1>1, EditorTypeStep, PTL DEF EditorSpec

-----------------------------------------------------------------------------
(***************************************************************************)
(* Simple polygons.                                                        *)
(***************************************************************************)
Simple(zone) == Len(zone) >= 3 /\ (Whole(zone) => ~Crossed(zone))

\* A drag keeps a closed zone simple: the validator accepted the new place, or
\* the old vertex is back, or what is back in its place is not a vertex.
LEMMA DraggedIsSimple ==
    ASSUME NEW zone \in Zone, Simple(zone), NEW i \in Nat \ {0}, NEW p \in Grid
    PROVE  Simple(Dragged(zone, i, p))
<1> DEFINE moved == WriteAt(zone, i, p)
           original == OriginalPoint(zone, i)
           restored == WriteAt(moved, i, original)
<1>1. zone \in Seq(Vertex) /\ Len(zone) \in Nat /\ DOMAIN zone = 1 .. Len(zone)
  BY LenProperties DEF Zone
<1>2. p \in Vertex
  BY DEF Vertex
<1>3. /\ moved \in Zone
      /\ Len(moved) = IF i > Len(zone) THEN i ELSE Len(zone)
      /\ moved[i] = p
      /\ \A k \in 1 .. Len(zone) : k # i => moved[k] = zone[k]
  BY <1>2, WriteAtProperties
<1>4. Len(moved) \in Nat /\ Len(moved) >= 3 /\ i \in 1 .. Len(moved)
  BY <1>1, <1>3 DEF Simple
<1>5. CASE Throws(moved)
  <2>1. ~Whole(moved)
    BY <1>3, <1>5, WholeNeverThrows
  <2> QED
    BY <1>4, <1>5, <2>1 DEF Dragged, Simple
<1>6. CASE IsValidPolygon(moved)
  BY <1>3, <1>4, <1>6, ValidIsSimple DEF Dragged, Simple
<1>7. CASE ~(Throws(moved) \/ IsValidPolygon(moved))
  <2>1. Dragged(zone, i, p) = restored
    BY <1>7 DEF Dragged
  <2>2. original \in Vertex
    <3>1. \A k \in DOMAIN zone : zone[k] \in Vertex
      BY <1>1, ElementOfSeq
    <3> QED
      BY <3>1 DEF OriginalPoint, Vertex
  <2>3. /\ restored \in Zone
        /\ Len(restored) = Len(moved)
        /\ restored[i] = original
        /\ \A k \in 1 .. Len(moved) : k # i => restored[k] = moved[k]
    <3> HIDE DEF moved, original
    <3> QED
      BY <1>3, <1>4, <2>2, WriteAtProperties
  <2>4. CASE i \in 1 .. Len(zone) /\ zone[i] # Hole
    <3>1. original = zone[i] /\ Len(moved) = Len(zone)
      <4>1. original = zone[i]
        BY <1>1, <2>4 DEF OriginalPoint
      <4>2. ~(i > Len(zone))
        BY <1>1, <2>4
      <4> QED
        BY <1>3, <4>1, <4>2
    <3>2. restored = zone
      <4> HIDE DEF moved, original, restored
      <4>1. \A k \in 1 .. Len(zone) : restored[k] = zone[k]
        BY <1>3, <2>3, <3>1
      <4> QED
        BY <2>3, <3>1, <4>1, SameArray
    <3> QED
      BY <2>1, <3>2
  <2>5. CASE ~(i \in 1 .. Len(zone) /\ zone[i] # Hole)
    <3>1. original = Empty
      BY <1>1, <2>5 DEF OriginalPoint
    <3>2. DOMAIN restored = 1 .. Len(restored)
      BY <2>3, LenProperties DEF Zone
    <3>3. ~Whole(restored)
      <4> HIDE DEF moved, original, restored
      <4> QED
        BY <1>4, <2>3, <3>1, <3>2, VertexAssumption DEF Whole
    <3> HIDE DEF moved, original, restored
    <3> QED
      BY <1>4, <2>1, <2>3, <3>3 DEF Simple
  <2> QED
    BY <2>4, <2>5
<1> QED
  BY <1>5, <1>6, <1>7

AllSimple == \A z \in 1 .. ZoneCount : Simple(completedZones[z])

\* Each handler of the editor keeps the closed zones simple.
LEMMA SimpleStep ==
    ASSUME EditorTypeOK, AllSimple, [EditorNext]_editorVars
    PROVE  AllSimple'
<1>1. completedZones \in Seq(Zone) /\ Len(completedZones) \in Nat
  BY LenProperties DEF EditorTypeOK
<1>2. CASE UNCHANGED completedZones
  BY <1>2 DEF AllSimple, ZoneCount
<1>3. CASE CloseCurrentZone
  <2>1. Simple(currentZone)
    BY <1>3, ValidIsSimple DEF CloseCurrentZone, MayClose, EditorTypeOK, Simple
  <2>2. /\ Len(completedZones') = Len(completedZones) + 1
        /\ completedZones'[Len(completedZones) + 1] = currentZone
        /\ \A z \in 1 .. Len(completedZones) : completedZones'[z] = completedZones[z]
    BY <1>1, <1>3, AppendProperties DEF CloseCurrentZone, EditorTypeOK
  <2>3. ASSUME NEW z \in 1 .. Len(completedZones')
        PROVE  Simple(completedZones'[z])
    <3>1. z = Len(completedZones) + 1 \/ z \in 1 .. Len(completedZones)
      BY <1>1, <2>2
    <3> QED
      BY <2>1, <2>2, <3>1 DEF AllSimple, ZoneCount
  <2> QED
    BY <2>3 DEF AllSimple, ZoneCount
<1>4. ASSUME NEW p \in Grid, OnMouseMove(p), ~UNCHANGED completedZones
      PROVE  AllSimple'
  <2> DEFINE t == dragTarget.zone
             i == dragTarget.point
  <2>1. /\ t \in 1 .. ZoneCount /\ i \in Nat \ {0}
        /\ completedZones' = [completedZones EXCEPT ![t] = Dragged(@, i, p)]
    BY <1>4 DEF OnMouseMove, EditorTypeOK
  <2>2. completedZones[t] \in Zone /\ Simple(completedZones[t])
    BY <1>1, <2>1, ElementOfSeq DEF ZoneCount, AllSimple
  <2>3. Simple(Dragged(completedZones[t], i, p))
    BY <2>1, <2>2, DraggedIsSimple
  <2>4. Dragged(completedZones[t], i, p) \in Zone
    BY <2>1, <2>2, DraggedIsZone
  <2>5. /\ Len(completedZones') = Len(completedZones)
        /\ \A z \in 1 .. Len(completedZones) :
              completedZones'[z] = IF z = t THEN Dragged(completedZones[t], i, p)
                                            ELSE completedZones[z]
    BY <1>1, <2>1, <2>4, ExceptSeq DEF ZoneCount
  <2>6. ASSUME NEW z \in 1 .. Len(completedZones)
        PROVE  Simple(completedZones'[z])
    BY <2>3, <2>5 DEF AllSimple, ZoneCount
  <2> QED
    BY <2>5, <2>6 DEF AllSimple, ZoneCount
<1>5. CASE ClearAll
  BY <1>5, EmptySeq DEF ClearAll, AllSimple, ZoneCount
<1> QED
  BY <1>2, <1>3, <1>4, <1>5
     DEF EditorNext, editorVars, OnMouseDown, OnMouseUp, RefuseToClose,
         StartDrawingMode, StopDrawingMode

\* Whatever is drawn, dragged, refused, restored or cleared, no closed zone
\* ever has two edges that cross, for every set of positions: what
\* exportZones() hands to the heatmap encloses an area.
THEOREM ZonesAreSimpleAlways == EditorSpec => []ZonesAreSimple
<1>1. EditorInit => AllSimple
  BY EmptySeq DEF EditorInit, AllSimple, ZoneCount
<1>2. AllSimple => ZonesAreSimple
  BY DEF AllSimple, Simple, ZonesAreSimple
<1> QED
  BY <1>1, <1>2, SimpleStep, EditorTypeInvariant, PTL DEF EditorSpec

-----------------------------------------------------------------------------
(***************************************************************************)
(* Intact arrays.                                                          *)
(***************************************************************************)

\* A drag of a vertex that is there keeps the array whole and its length.
LEMMA DraggedIsWhole ==
    ASSUME NEW zone \in Zone, Whole(zone), NEW i \in 1 .. Len(zone), NEW p \in Grid
    PROVE  Whole(Dragged(zone, i, p)) /\ Len(Dragged(zone, i, p)) = Len(zone)
<1> DEFINE moved == WriteAt(zone, i, p)
           original == OriginalPoint(zone, i)
           restored == WriteAt(moved, i, original)
<1>1. Len(zone) \in Nat /\ DOMAIN zone = 1 .. Len(zone) /\ i \in Nat \ {0}
  BY LenProperties DEF Zone
<1>2. ~(i > Len(zone)) /\ p \in Vertex
  BY <1>1 DEF Vertex
<1>3. /\ moved \in Zone
      /\ Len(moved) = Len(zone)
      /\ moved[i] = p
      /\ \A k \in 1 .. Len(zone) : k # i => moved[k] = zone[k]
  BY <1>1, <1>2, WriteAtProperties
<1>4. zone[i] \in Grid /\ original = zone[i] /\ original \in Vertex
  BY <1>1, VertexAssumption DEF OriginalPoint, Whole, Vertex
<1>5. /\ restored \in Zone
      /\ Len(restored) = Len(moved)
      /\ restored[i] = original
      /\ \A k \in 1 .. Len(moved) : k # i => restored[k] = moved[k]
  <2>1. ~(i > Len(moved))
    BY <1>2, <1>3
  <2> HIDE DEF moved, original
  <2> QED
    BY <1>1, <1>3, <1>4, <2>1, WriteAtProperties
<1>6. DOMAIN moved = 1 .. Len(zone) /\ DOMAIN restored = 1 .. Len(zone)
  BY <1>3, <1>5, LenProperties DEF Zone
<1>7. Dragged(zone, i, p) \in {moved, restored}
  BY DEF Dragged
<1> HIDE DEF moved, original, restored
<1>8. Whole(moved) /\ Whole(restored)
  BY <1>1, <1>3, <1>4, <1>5, <1>6 DEF Whole
<1> QED
  BY <1>3, <1>5, <1>7, <1>8

\* Each handler of the editor keeps its arrays whole and its drag target there,
\* or an array leaves the editor while a drag is on.
LEMMA IntactStep ==
    ASSUME EditorTypeOK, EditorTypeOK', IntactUnlessInterrupted,
           [EditorNext]_editorVars
    PROVE  IntactUnlessInterrupted'
<1> DEFINE Intact == /\ dragTarget \in References \cup {NoTarget}
                     /\ \A z \in 0 .. ZoneCount : Whole(ZoneAt(z))
<1> SUFFICES ASSUME ~interrupted'
             PROVE  Intact'
  BY DEF IntactUnlessInterrupted
<1>1. ~interrupted /\ Intact
  <2>1. ~interrupted
    BY DEF EditorNext, editorVars, OnMouseDown, OnMouseMove, OnMouseUp, CloseCurrentZone,
           RefuseToClose, StartDrawingMode, StopDrawingMode, ClearAll, NoteInterruption
  <2> QED
    BY <2>1 DEF IntactUnlessInterrupted
<1>2. /\ currentZone \in Zone /\ completedZones \in Seq(Zone)
      /\ Len(completedZones) \in Nat
      /\ ZoneCount = Len(completedZones) /\ ZoneCount' = Len(completedZones')
      /\ ZoneCount' \in Nat
  BY LenProperties DEF EditorTypeOK, ZoneCount
<1>3. \A z \in 1 .. ZoneCount : ZoneAt(z) = completedZones[z] /\ ZoneAt(z) \in Zone
  BY <1>2, ElementOfSeq DEF ZoneAt
<1>4. ZoneAt(0) = currentZone /\ ZoneAt(0)' = currentZone'
  BY DEF ZoneAt
<1>5. \A z \in 1 .. ZoneCount' : ZoneAt(z)' = completedZones'[z]
  BY <1>2 DEF ZoneAt
<1>6. Whole(<<>>)
  BY DEF Whole
<1>7. CASE UNCHANGED <<completedZones, currentZone>>
  <2>1. References' = References /\ \A z \in 0 .. ZoneCount' : ZoneAt(z)' = ZoneAt(z)
    BY <1>7 DEF References, ZoneCount, ZoneAt
  <2>2. ZoneCount' = ZoneCount
    BY <1>7 DEF ZoneCount
  <2>3. dragTarget' \in References \cup {NoTarget}
    BY <1>1, <1>7, <2>1
       DEF EditorNext, editorVars, OnMouseDown, Grab, AddPoint, PressInVain, FirstStop,
           OnMouseMove, OnMouseUp, CloseCurrentZone, RefuseToClose, StartDrawingMode,
           StopDrawingMode, ClearAll
  <2> QED
    BY <1>1, <2>1, <2>2, <2>3
<1>8. ASSUME dragTarget' = dragTarget,
             \A z \in 0 .. ZoneCount :
                 z \in 0 .. ZoneCount' /\ Len(ZoneAt(z)) <= Len(ZoneAt(z)')
      PROVE  dragTarget' \in References' \cup {NoTarget}
  <2> SUFFICES ASSUME dragTarget \in References
               PROVE  dragTarget \in References'
    BY <1>1, <1>8
  <2>1. PICK r : r = dragTarget
    OBVIOUS
  <2>2. /\ r \in [zone : Nat, point : Nat \ {0}]
        /\ r.zone \in 0 .. ZoneCount
        /\ r.point \in 1 .. Len(ZoneAt(r.zone))
    BY <2>1, ReferenceExists
  <2>3. PICK z : z = r.zone
    OBVIOUS
  <2>4. /\ z \in 0 .. ZoneCount'
        /\ Len(ZoneAt(z)) \in Nat /\ Len(ZoneAt(z)') \in Nat
        /\ DOMAIN ZoneAt(z)' = 1 .. Len(ZoneAt(z)')
        /\ Len(ZoneAt(z)) <= Len(ZoneAt(z)')
    <3>1. z \in 0 .. ZoneCount' /\ Len(ZoneAt(z)) <= Len(ZoneAt(z)')
      BY <1>8, <2>2, <2>3
    <3>2. ZoneAt(z) \in Zone /\ ZoneAt(z)' \in Zone
      BY <1>2, <1>3, <1>4, <1>5, <2>2, <2>3, <3>1, ElementOfSeq DEF EditorTypeOK
    <3> QED
      BY <3>1, <3>2, LenProperties DEF Zone
  <2>5. r.point \in DOMAIN ZoneAt(z)'
    BY <2>2, <2>3, <2>4
  <2>6. r \in [zone : {z}, point : DOMAIN ZoneAt(z)']
    BY <2>2, <2>3, <2>5
  <2> QED
    BY <2>1, <2>4, <2>6 DEF References
<1>9. CASE \E button \in Button, p \in Grid : OnMouseDown(button, p) /\ AddPoint(button, p)
  <2> PICK button \in Button, p \in Grid : OnMouseDown(button, p) /\ AddPoint(button, p)
    BY <1>9
  <2>1. /\ Len(currentZone') = Len(currentZone) + 1
        /\ currentZone'[Len(currentZone) + 1] = p
        /\ \A k \in 1 .. Len(currentZone) : currentZone'[k] = currentZone[k]
        /\ DOMAIN currentZone' = 1 .. Len(currentZone')
        /\ DOMAIN currentZone = 1 .. Len(currentZone)
        /\ Len(currentZone) \in Nat
    <3>1. p \in Vertex
      BY DEF Vertex
    <3>2. currentZone' = Append(currentZone, p)
      BY DEF AddPoint
    <3> QED
      BY <1>2, <3>1, <3>2, AppendProperties, LenProperties DEF Zone
  <2>2. Whole(currentZone')
    <3>1. Whole(currentZone)
      BY <1>1, <1>2, <1>4
    <3> QED
      BY <2>1, <3>1 DEF Whole
  <2>3. completedZones' = completedZones /\ dragTarget' = dragTarget
    BY DEF OnMouseDown, AddPoint
  <2>4. \A z \in 0 .. ZoneCount' : Whole(ZoneAt(z)')
    BY <1>1, <1>2, <1>3, <1>4, <1>5, <2>2, <2>3
  <2>5. \A z \in 0 .. ZoneCount : z \in 0 .. ZoneCount' /\ Len(ZoneAt(z)) <= Len(ZoneAt(z)')
    <3>1. \A z \in 1 .. ZoneCount : Len(ZoneAt(z)) \in Nat /\ ZoneAt(z)' = ZoneAt(z)
      BY <1>2, <1>3, <1>5, <2>3, LenProperties DEF Zone
    <3>2. Len(ZoneAt(0)) <= Len(ZoneAt(0)')
      BY <1>4, <2>1
    <3> QED
      BY <1>2, <2>3, <3>1, <3>2
  <2> QED
    BY <1>8, <2>3, <2>4, <2>5
<1>10. CASE \E p \in Grid : OnMouseMove(p)
  <2> PICK p \in Grid : OnMouseMove(p)
    BY <1>10
  <2> DEFINE t == dragTarget.zone
             i == dragTarget.point
  <2>1. /\ dragTarget' = dragTarget
        /\ t \in 0 .. ZoneCount /\ i \in 1 .. Len(ZoneAt(t))
        /\ ZoneAt(t) \in Zone /\ Whole(ZoneAt(t))
    <3>1. dragTarget \in References /\ dragTarget' = dragTarget
      BY <1>1 DEF OnMouseMove
    <3>2. t \in 0 .. ZoneCount /\ i \in 1 .. Len(ZoneAt(t))
      BY <3>1, ReferenceExists
    <3> QED
      BY <1>1, <1>2, <1>3, <1>4, <3>1, <3>2
  <2>2. /\ Whole(Dragged(ZoneAt(t), i, p))
        /\ Len(Dragged(ZoneAt(t), i, p)) = Len(ZoneAt(t))
        /\ Dragged(ZoneAt(t), i, p) \in Zone
    <3>1. i \in Nat \ {0}
      BY <2>1, LenProperties DEF Zone
    <3> QED
      BY <2>1, <3>1, DraggedIsWhole, DraggedIsZone
  <2>3. ZoneCount' = ZoneCount
        /\ \A z \in 0 .. ZoneCount : ZoneAt(z)' = IF z = t THEN Dragged(ZoneAt(t), i, p)
                                                          ELSE ZoneAt(z)
    <3>1. CASE t = 0
      <4>1. completedZones' = completedZones /\ currentZone' = Dragged(ZoneAt(0), i, p)
        BY <1>4, <3>1 DEF OnMouseMove
      <4> QED
        BY <1>2, <1>3, <1>4, <1>5, <3>1, <4>1
    <3>2. CASE t # 0
      <4>1. /\ completedZones' = [completedZones EXCEPT ![t] = Dragged(@, i, p)]
            /\ currentZone' = currentZone
            /\ t \in 1 .. ZoneCount
        BY <3>2 DEF OnMouseMove
      <4>2. completedZones[t] = ZoneAt(t)
        BY <1>3, <4>1
      <4>3. /\ Len(completedZones') = Len(completedZones)
            /\ \A z \in 1 .. Len(completedZones) :
                  completedZones'[z] = IF z = t THEN Dragged(ZoneAt(t), i, p)
                                                ELSE completedZones[z]
        <5> HIDE DEF t, i
        <5> QED
          BY <1>2, <2>2, <4>1, <4>2, ExceptSeq
      <4> HIDE DEF t, i
      <4> QED
        BY <1>2, <1>3, <1>4, <1>5, <3>2, <4>1, <4>3
    <3> QED
      BY <3>1, <3>2
  <2>4. \A z \in 0 .. ZoneCount' : Whole(ZoneAt(z)')
    BY <1>1, <2>2, <2>3
  <2>5. \A z \in 0 .. ZoneCount : z \in 0 .. ZoneCount' /\ Len(ZoneAt(z)) <= Len(ZoneAt(z)')
    <3>1. \A z \in 0 .. ZoneCount : Len(ZoneAt(z)) \in Nat
      BY <1>2, <1>3, <1>4, LenProperties DEF Zone
    <3>2. \A z \in 0 .. ZoneCount : Len(ZoneAt(z)') = Len(ZoneAt(z))
      BY <2>2, <2>3
    <3> QED
      BY <2>3, <3>1, <3>2
  <2> QED
    BY <1>8, <2>1, <2>4, <2>5
<1>11. CASE CloseCurrentZone
  <2>1. dragTarget = NoTarget /\ dragTarget' = NoTarget
    BY <1>11 DEF CloseCurrentZone, NoteInterruption
  <2>2. /\ Len(completedZones') = Len(completedZones) + 1
        /\ completedZones'[Len(completedZones) + 1] = currentZone
        /\ \A z \in 1 .. Len(completedZones) : completedZones'[z] = completedZones[z]
    BY <1>2, <1>11, AppendProperties DEF CloseCurrentZone
  <2>3. currentZone' = <<>>
    BY <1>11 DEF CloseCurrentZone
  <2>4. ASSUME NEW z \in 0 .. ZoneCount'
        PROVE  Whole(ZoneAt(z)')
    <3>1. z = 0 \/ z = Len(completedZones) + 1 \/ z \in 1 .. ZoneCount
      BY <1>2, <2>2
    <3> QED
      BY <1>1, <1>2, <1>3, <1>4, <1>5, <1>6, <2>2, <2>3, <3>1
  <2> QED
    BY <2>1, <2>4
<1>12. CASE StopDrawingMode \/ ClearAll
  <2>1. dragTarget = NoTarget /\ dragTarget' = NoTarget
    BY <1>12 DEF StopDrawingMode, ClearAll, NoteInterruption
  <2>2. currentZone' = <<>> /\ completedZones' \in {completedZones, <<>>}
    BY <1>12 DEF StopDrawingMode, ClearAll
  <2>3. ASSUME NEW z \in 0 .. ZoneCount'
        PROVE  Whole(ZoneAt(z)')
    <3>1. CASE completedZones' = completedZones
      BY <1>1, <1>2, <1>3, <1>4, <1>5, <1>6, <2>2, <3>1
    <3>2. CASE completedZones' = <<>>
      BY <1>2, <1>4, <1>6, <2>2, <3>2, EmptySeq
    <3> QED
      BY <2>2, <3>1, <3>2
  <2> QED
    BY <2>1, <2>3
<1> QED
  BY <1>7, <1>9, <1>10, <1>11, <1>12
     DEF EditorNext, editorVars, OnMouseDown, Grab, AddPoint, PressInVain, OnMouseUp,
         RefuseToClose, StartDrawingMode

\* A drag that no closed, abandoned or cleared array came under refers to a
\* vertex that is there, and no array has an undefined element.
THEOREM IntactUnlessInterruptedAlways == EditorSpec => []IntactUnlessInterrupted
<1>1. EditorInit => IntactUnlessInterrupted
  <2> SUFFICES ASSUME EditorInit
               PROVE  IntactUnlessInterrupted
    OBVIOUS
  <2>1. ZoneCount = 0 /\ dragTarget = NoTarget /\ ZoneAt(0) = <<>>
    BY EmptySeq DEF EditorInit, ZoneCount, ZoneAt
  <2>2. Whole(<<>>)
    BY DEF Whole
  <2> QED
    BY <2>1, <2>2 DEF IntactUnlessInterrupted
<1> QED
  BY <1>1, IntactStep, EditorTypeInvariant, PTL DEF EditorSpec

\* What it is for: unless an array was replaced under a drag, neither the search
\* for the vertex under the mouse, nor the validator, at the closing of a zone
\* or after a drag has moved its vertex, meets an undefined element.
NothingThrows ==
    /\ \A r \in References : VertexAt(r) # Hole
    /\ ~Throws(currentZone)
    /\ dragTarget # NoTarget =>
          /\ dragTarget.zone \in 0 .. ZoneCount
          /\ \A p \in Grid :
                ~Throws(WriteAt(ZoneAt(dragTarget.zone), dragTarget.point, p))

\* No handler raises a TypeError in a session whose drags were not interrupted.
THEOREM NothingThrowsUnlessInterrupted ==
    EditorSpec => [](~interrupted => NothingThrows)
<1>1. EditorTypeOK /\ IntactUnlessInterrupted => (~interrupted => NothingThrows)
  <2> SUFFICES ASSUME EditorTypeOK, IntactUnlessInterrupted, ~interrupted
               PROVE  NothingThrows
    OBVIOUS
  <2>1. /\ dragTarget \in References \cup {NoTarget}
        /\ \A z \in 0 .. ZoneCount : Whole(ZoneAt(z))
    BY DEF IntactUnlessInterrupted
  <2>2. ZoneCount \in Nat /\ \A z \in 0 .. ZoneCount : ZoneAt(z) \in Zone
    BY LenProperties, ElementOfSeq DEF EditorTypeOK, ZoneCount, ZoneAt
  <2>3. ASSUME NEW r \in References
        PROVE  VertexAt(r) # Hole
    <3>1. r.zone \in 0 .. ZoneCount /\ r.point \in 1 .. Len(ZoneAt(r.zone))
      BY ReferenceExists
    <3>2. DOMAIN ZoneAt(r.zone) = 1 .. Len(ZoneAt(r.zone))
      BY <2>2, <3>1, LenProperties DEF Zone
    <3> QED
      BY <2>1, <3>1, <3>2, VertexAssumption DEF VertexAt, Whole
  <2>4. ~Throws(currentZone)
    BY <2>1, <2>2, WholeNeverThrows DEF ZoneAt
  <2>5. ASSUME dragTarget # NoTarget, NEW p \in Grid
        PROVE  /\ dragTarget.zone \in 0 .. ZoneCount
               /\ ~Throws(WriteAt(ZoneAt(dragTarget.zone), dragTarget.point, p))
    <3> DEFINE zone == ZoneAt(dragTarget.zone)
               i == dragTarget.point
               moved == WriteAt(zone, i, p)
    <3>1. /\ dragTarget.zone \in 0 .. ZoneCount /\ i \in 1 .. Len(zone)
          /\ i \in Nat \ {0}
      BY <2>1, <2>5, ReferenceExists
    <3>2. zone \in Zone /\ Whole(zone) /\ DOMAIN zone = 1 .. Len(zone) /\ Len(zone) \in Nat
      BY <2>1, <2>2, <3>1, LenProperties DEF Zone
    <3> HIDE DEF zone, i
    <3>3. ~(i > Len(zone)) /\ p \in Vertex
      BY <3>1, <3>2 DEF Vertex
    <3>4. /\ moved \in Zone
          /\ Len(moved) = IF i > Len(zone) THEN i ELSE Len(zone)
          /\ moved[i] = p
          /\ \A k \in 1 .. Len(zone) : k # i => moved[k] = zone[k]
      BY <3>1, <3>2, <3>3, WriteAtProperties
    <3> HIDE DEF moved
    <3>5. Len(moved) = Len(zone)
      BY <3>3, <3>4
    <3>6. moved \in Seq(Vertex)
      BY <3>4 DEF Zone
    <3>7. DOMAIN moved = 1 .. Len(moved)
      BY <3>6, LenProperties
    <3>8. /\ moved \in Zone /\ Len(moved) = Len(zone) /\ moved[i] = p
          /\ \A k \in 1 .. Len(zone) : k # i => moved[k] = zone[k]
          /\ DOMAIN moved = 1 .. Len(zone)
      BY <3>4, <3>5, <3>7
    <3>9. Whole(moved)
      BY <3>1, <3>2, <3>8 DEF Whole
    <3> QED
      BY <3>1, <3>8, <3>9, WholeNeverThrows DEF moved, zone, i
  <2>6. dragTarget # NoTarget => dragTarget.zone \in 0 .. ZoneCount
    BY <2>1, ReferenceExists
  <2> QED
    BY <2>3, <2>4, <2>5, <2>6 DEF NothingThrows
<1> QED
  BY <1>1, EditorTypeInvariant, IntactUnlessInterruptedAlways, PTL

-----------------------------------------------------------------------------
(***************************************************************************)
(* OverlayPlayer: the render loop and the overlay.                         *)
(***************************************************************************)

Task == {"play", "pause", "seeked"}

Needed == IF paused THEN 0 ELSE 1

\* f is the number of frames pending after each event of the queue s, from
\* "first" before them all to "last" after them.
Plan(f, s, first, last) ==
    /\ f \in [0 .. Len(s) -> {0, 1}]
    /\ f[0] = first
    /\ f[Len(s)] = last
    /\ \A i \in 1 .. Len(s) :
          /\ s[i] = "play" => f[i - 1] = 0 /\ f[i] = 1
          /\ s[i] = "pause" => f[i - 1] = 1 /\ f[i] = 0
          /\ s[i] = "seeked" => f[i] = f[i - 1]

QueueIsPlanned == \E f : Plan(f, tasks, pendingFrames, Needed)

\* The frame the player remembers is the last one asked for.
RememberedFrame ==
    animationFrameId # NoFrame =>
        animationFrameId = pendingFrames /\ pendingFrames >= 1

\* The player remembers its one frame and shows the button that goes with it.
LoopIsShown ==
    /\ animationFrameId = (IF pendingFrames = 0 THEN NoFrame ELSE 1)
    /\ label = (IF pendingFrames = 0 THEN "play" ELSE "pause")

LoopInv ==
    /\ PlayerTypeOK
    /\ RememberedFrame
    /\ ~cutOff => LoopIsShown /\ QueueIsPlanned

\* A stale overlay is redrawn by an event that is queued.
OverlayInv ==
    /\ PlayerTypeOK
    /\ (~timeMoved /\ timelineData # {} /\ canvas # Active(timelineData, currentTime))
         => \E i \in 1 .. Len(tasks) : tasks[i] = "seeked"

-----------------------------------------------------------------------------
\* The boxes on the canvas are of a timeline that was loaded.
LEMMA DrawnIsLoaded ==
    ASSUME NEW data \in SUBSET Interval, NEW t, DrawCurrentFrame(data, t),
           canvas \in SUBSET Interval, timeMoved \in BOOLEAN
    PROVE  canvas' \in SUBSET Interval /\ timeMoved' \in BOOLEAN
BY DEF DrawCurrentFrame, Drawn, Active

\* A timeline holds intervals.
LEMMA TimelineIsLoaded ==
    ASSUME NEW data \in Timelines
    PROVE  data \in SUBSET Interval
BY DEF Interval

\* togglePlay queues 'play', 'seeked' or both.
LEMMA ReplayQueued ==
    ASSUME tasks \in Seq(Task), paused \in BOOLEAN, TogglePlayPlays
    PROVE  /\ tasks' \in Seq(Task)
           /\ \/ paused /\ tasks' = Append(tasks, "play")
              \/ paused /\ tasks' = Append(Append(tasks, "play"), "seeked")
              \/ ~paused /\ tasks' = Append(tasks, "seeked")
<1> DEFINE asked == IF paused THEN <<"play">> ELSE <<>>
           back == IF Ended THEN <<"seeked">> ELSE <<>>
<1>1. tasks' = (tasks \o asked) \o back
  BY DEF TogglePlayPlays
<1>2. paused \/ Ended
  BY DEF TogglePlayPlays
<1>3. CASE paused /\ Ended
  <2>1. tasks \o asked = Append(tasks, "play")
    BY <1>3 DEF Task
  <2>2. Append(tasks, "play") \in Seq(Task)
    BY DEF Task
  <2>3. Append(tasks, "play") \o back = Append(Append(tasks, "play"), "seeked")
    BY <1>3, <2>2 DEF Task
  <2> QED
    BY <1>1, <1>3, <2>1, <2>2, <2>3 DEF Task
<1>4. CASE paused /\ ~Ended
  <2>1. tasks \o asked = Append(tasks, "play")
    BY <1>4 DEF Task
  <2>2. Append(tasks, "play") \in Seq(Task)
    BY DEF Task
  <2>3. Append(tasks, "play") \o back = Append(tasks, "play")
    BY <1>4, <2>2 DEF Task
  <2> QED
    BY <1>1, <1>4, <2>1, <2>2, <2>3
<1>5. CASE ~paused /\ Ended
  <2>1. tasks \o asked = tasks
    BY <1>5 DEF Task
  <2>2. tasks \o back = Append(tasks, "seeked")
    BY <1>5 DEF Task
  <2>3. Append(tasks, "seeked") \in Seq(Task)
    BY DEF Task
  <2> QED
    BY <1>1, <1>5, <2>1, <2>2, <2>3
<1> QED
  BY <1>2, <1>3, <1>4, <1>5

\* The type invariant, with the frame the player remembers, is inductive.
LEMMA TypeStep ==
    ASSUME PlayerTypeOK, RememberedFrame, [PlayerNext]_playerVars
    PROVE  PlayerTypeOK' /\ RememberedFrame'
<1> USE NoFrameAssumption, DurationAssumption
<1> USE DEF PlayerTypeOK, RememberedFrame, Time
<1>1. CASE AnimationFrame
  <2>1. canvas' \in SUBSET Interval /\ timeMoved' \in BOOLEAN
    BY <1>1, DrawnIsLoaded DEF AnimationFrame
  <2> QED
    BY <1>1, <2>1 DEF AnimationFrame, mediaVars
<1>2. CASE Tick
  BY <1>2 DEF Tick, loopVars
<1>3. CASE PlayDispatched
  BY <1>3 DEF PlayDispatched, OnPlay, StartRenderLoop, overlayVars
<1>4. CASE PauseDispatched
  BY <1>4 DEF PauseDispatched, OnPause, StopRenderLoop, overlayVars
<1>5. CASE SeekedDispatched
  <2>1. canvas' \in SUBSET Interval /\ timeMoved' \in BOOLEAN
    BY <1>5, DrawnIsLoaded DEF SeekedDispatched
  <2> QED
    BY <1>5, <2>1 DEF SeekedDispatched, loopVars
<1>6. CASE EndOfMedia
  BY <1>6 DEF EndOfMedia, loopVars, overlayVars
<1>7. CASE MetadataLoaded
  BY <1>7 DEF MetadataLoaded, loopVars, overlayVars
<1>8. CASE TogglePlayPlays
  <2>1. tasks' \in Seq(Task)
    BY <1>8, ReplayQueued DEF Task
  <2>2. currentTime' \in Time
    BY <1>8 DEF TogglePlayPlays
  <2>3. paused' \in BOOLEAN /\ UNCHANGED <<ready, loopVars, overlayVars, cutOff>>
    BY <1>8 DEF TogglePlayPlays
  <2> QED
    BY <2>1, <2>2, <2>3 DEF loopVars, overlayVars, Task
<1>9. CASE TogglePlayPauses
  BY <1>9 DEF TogglePlayPauses, loopVars, overlayVars
<1>10. ASSUME NEW t \in Time, Seek(t)
       PROVE  PlayerTypeOK' /\ RememberedFrame'
  <2>1. canvas' \in SUBSET Interval /\ timeMoved' \in BOOLEAN
    BY <1>10, DrawnIsLoaded DEF Seek
  <2> QED
    BY <1>10, <2>1 DEF Seek, loopVars
<1>11. CASE LoadVideo
  <2>1. tasks' \in Seq(Task)
    BY <1>11 DEF LoadVideo
  <2>2. timeMoved' \in BOOLEAN /\ cutOff' \in BOOLEAN
    <3>1. timeMoved' = (timeMoved \/ currentTime # 0 \/ tasks # <<>>)
      BY <1>11 DEF LoadVideo
    <3>2. cutOff' = (cutOff \/ ~paused \/ tasks # <<>>)
      BY <1>11 DEF LoadVideo
    <3> QED
      BY ONLY <3>1, <3>2
  <2>3. ready' \in BOOLEAN /\ paused' \in BOOLEAN /\ currentTime' = 0
    BY <1>11 DEF LoadVideo
  <2>4. UNCHANGED <<loopVars, timelineData, canvas>>
    BY <1>11 DEF LoadVideo
  <2>5. RememberedFrame'
    BY <2>4 DEF loopVars
  <2>6. PlayerTypeOK'
    BY <2>1, <2>2, <2>3, <2>4 DEF loopVars, Task
  <2> QED
    BY <2>5, <2>6
<1>12. ASSUME NEW data \in Timelines, LoadMetadataTimeline(data)
       PROVE  PlayerTypeOK' /\ RememberedFrame'
  <2>1. data \in SUBSET Interval
    BY TimelineIsLoaded
  <2>2. canvas' \in SUBSET Interval /\ timeMoved' \in BOOLEAN
    BY <1>12, <2>1, DrawnIsLoaded DEF LoadMetadataTimeline
  <2> QED
    BY <1>12, <2>1, <2>2 DEF LoadMetadataTimeline, mediaVars, loopVars
<1>13. CASE Resize
  BY <1>13 DEF Resize, Active, mediaVars, loopVars
<1>14. CASE UNCHANGED playerVars
  BY <1>14 DEF playerVars, mediaVars, loopVars, overlayVars
<1> QED
  BY <1>1, <1>2, <1>3, <1>4, <1>5, <1>6, <1>7, <1>8, <1>9, <1>10, <1>11, <1>12,
     <1>13, <1>14 DEF PlayerNext

\* A player that was just built is well typed.
LEMMA PlayerInitTyped ==
    ASSUME PlayerInit
    PROVE  PlayerTypeOK /\ RememberedFrame
<1> USE NoFrameAssumption, DurationAssumption
<1>1. tasks \in Seq(Task)
  <2>1. <<>> \in Seq(Task) /\ <<"play">> \in Seq(Task)
    BY DEF Task
  <2> QED
    BY <2>1 DEF PlayerInit
<1>2. currentTime \in Time
  BY DEF PlayerInit, Time
<1>3. /\ ready = FALSE /\ cutOff = FALSE /\ timeMoved = FALSE
      /\ paused \in BOOLEAN
      /\ pendingFrames = 0 /\ animationFrameId = NoFrame /\ label = "play"
      /\ timelineData = {} /\ canvas = {}
  BY DEF PlayerInit
<1> QED
  BY <1>1, <1>2, <1>3 DEF PlayerTypeOK, RememberedFrame, Task

-----------------------------------------------------------------------------
\* Queuing an event extends a plan.
LEMMA PlanExtends ==
    ASSUME NEW s \in Seq(Task), NEW e \in Task, NEW first, NEW f,
           NEW last \in {0, 1}, NEW after \in {0, 1}, Plan(f, s, first, last),
           e = "play" => last = 0 /\ after = 1,
           e = "pause" => last = 1 /\ after = 0,
           e = "seeked" => after = last
    PROVE  \E g : Plan(g, Append(s, e), first, after)
<1> DEFINE g == [i \in 0 .. Len(s) + 1 |-> IF i = Len(s) + 1 THEN after ELSE f[i]]
<1>1. PICK n \in Nat : n = Len(s)
  OBVIOUS
<1>2. /\ Len(Append(s, e)) = n + 1
      /\ Append(s, e)[n + 1] = e
      /\ \A i \in 1 .. n : Append(s, e)[i] = s[i]
  BY <1>1
<1>3. /\ \A i \in 0 .. n : g[i] = f[i]
      /\ g[n + 1] = after
      /\ f[0] = first /\ f[n] = last
      /\ \A i \in 0 .. n : f[i] \in {0, 1}
  BY <1>1 DEF Plan
<1>4. g \in [0 .. n + 1 -> {0, 1}]
  BY <1>1, <1>3
<1>5. ASSUME NEW i \in 1 .. n
      PROVE  /\ s[i] = "play" => g[i - 1] = 0 /\ g[i] = 1
             /\ s[i] = "pause" => g[i - 1] = 1 /\ g[i] = 0
             /\ s[i] = "seeked" => g[i] = g[i - 1]
  BY <1>1, <1>3 DEF Plan
<1> HIDE DEF g
<1>6. /\ e = "play" => g[n + 1 - 1] = 0 /\ g[n + 1] = 1
      /\ e = "pause" => g[n + 1 - 1] = 1 /\ g[n + 1] = 0
      /\ e = "seeked" => g[n + 1] = g[n + 1 - 1]
  BY <1>3
<1>7. ASSUME NEW i \in 1 .. n + 1
      PROVE  /\ Append(s, e)[i] = "play" => g[i - 1] = 0 /\ g[i] = 1
             /\ Append(s, e)[i] = "pause" => g[i - 1] = 1 /\ g[i] = 0
             /\ Append(s, e)[i] = "seeked" => g[i] = g[i - 1]
  <2>1. CASE i = n + 1
    BY <2>1, <1>2, <1>6
  <2>2. CASE i # n + 1
    <3>1. i \in 1 .. n
      BY <2>2
    <3> QED
      BY <3>1, <1>2, <1>5
  <2> QED
    BY <2>1, <2>2
<1>8. Plan(g, Append(s, e), first, after)
  BY <1>2, <1>3, <1>4, <1>7 DEF Plan
<1> QED
  BY <1>8

\* Dispatching the oldest event takes the first step of a plan.
LEMMA PlanAdvances ==
    ASSUME NEW s \in Seq(Task), s # <<>>, NEW first, NEW last, NEW f,
           Plan(f, s, first, last)
    PROVE  /\ \E g : Plan(g, Tail(s), f[1], last)
           /\ Head(s) = "play" => first = 0 /\ f[1] = 1
           /\ Head(s) = "pause" => first = 1 /\ f[1] = 0
           /\ Head(s) = "seeked" => f[1] = first
<1>1. PICK n \in Nat : Len(s) = n + 1
  <2>1. Len(s) \in Nat /\ Len(s) # 0
    OBVIOUS
  <2>2. Len(s) - 1 \in Nat /\ Len(s) = (Len(s) - 1) + 1
    BY <2>1
  <2> QED
    BY <2>2
<1> DEFINE g == [i \in 0 .. n |-> f[i + 1]]
<1>2. /\ Head(s) = s[1]
      /\ Len(Tail(s)) = n
      /\ \A i \in 1 .. n : Tail(s)[i] = s[i + 1]
  BY <1>1
<1>3. /\ f \in [0 .. n + 1 -> {0, 1}]
      /\ f[0] = first /\ f[n + 1] = last
      /\ \A i \in 1 .. n + 1 :
            /\ s[i] = "play" => f[i - 1] = 0 /\ f[i] = 1
            /\ s[i] = "pause" => f[i - 1] = 1 /\ f[i] = 0
            /\ s[i] = "seeked" => f[i] = f[i - 1]
  BY <1>1 DEF Plan
<1>4. /\ s[1] = "play" => f[1 - 1] = 0 /\ f[1] = 1
      /\ s[1] = "pause" => f[1 - 1] = 1 /\ f[1] = 0
      /\ s[1] = "seeked" => f[1] = f[1 - 1]
  BY <1>3
<1>5. g \in [0 .. n -> {0, 1}] /\ g[0] = f[1] /\ g[n] = last
  BY <1>3
<1>6. ASSUME NEW i \in 1 .. n
      PROVE  /\ Tail(s)[i] = "play" => g[i - 1] = 0 /\ g[i] = 1
             /\ Tail(s)[i] = "pause" => g[i - 1] = 1 /\ g[i] = 0
             /\ Tail(s)[i] = "seeked" => g[i] = g[i - 1]
  <2>1. i + 1 \in 1 .. n + 1 /\ (i + 1) - 1 = i
    OBVIOUS
  <2>2. g[i] = f[i + 1] /\ g[i - 1] = f[i]
    OBVIOUS
  <2> HIDE DEF g
  <2> QED
    BY <2>1, <2>2, <1>2, <1>3
<1> HIDE DEF g
<1>7. Plan(g, Tail(s), f[1], last)
  BY <1>2, <1>5, <1>6 DEF Plan
<1> QED
  BY <1>2, <1>3, <1>4, <1>7

-----------------------------------------------------------------------------
\* An event is queued while the loop is left alone.
LEMMA EventQueued ==
    ASSUME LoopInv, ~cutOff, NEW e \in Task, tasks' = Append(tasks, e),
           UNCHANGED loopVars, paused' \in BOOLEAN,
           e = "play" => paused /\ ~paused',
           e = "pause" => ~paused /\ paused',
           e = "seeked" => paused' = paused
    PROVE  LoopIsShown' /\ QueueIsPlanned'
<1>1. PICK f : Plan(f, tasks, pendingFrames, Needed)
  BY DEF LoopInv, QueueIsPlanned
<1>2. tasks \in Seq(Task) /\ paused \in BOOLEAN
  BY DEF LoopInv, PlayerTypeOK, Task
<1>3. /\ Needed \in {0, 1} /\ Needed' \in {0, 1}
      /\ e = "play" => Needed = 0 /\ Needed' = 1
      /\ e = "pause" => Needed = 1 /\ Needed' = 0
      /\ e = "seeked" => Needed' = Needed
  BY <1>2 DEF Needed
<1>4. \E g : Plan(g, Append(tasks, e), pendingFrames, Needed')
  BY <1>1, <1>2, <1>3, PlanExtends
<1>5. pendingFrames' = pendingFrames /\ LoopIsShown'
  BY DEF LoopInv, LoopIsShown, loopVars
<1> QED
  BY <1>4, <1>5 DEF QueueIsPlanned

\* The oldest event is dispatched and the loop does what was planned.
LEMMA EventDispatched ==
    ASSUME LoopInv, ~cutOff, tasks # <<>>, tasks' = Tail(tasks), paused' = paused,
           Head(tasks) = "play" => pendingFrames' = pendingFrames + 1,
           Head(tasks) = "pause" /\ pendingFrames = 1 => pendingFrames' = 0,
           Head(tasks) = "seeked" => pendingFrames' = pendingFrames
    PROVE  /\ QueueIsPlanned'
           /\ Head(tasks) = "play" => pendingFrames = 0
           /\ Head(tasks) = "pause" => pendingFrames = 1
<1>1. PICK f : Plan(f, tasks, pendingFrames, Needed)
  BY DEF LoopInv, QueueIsPlanned
<1>2. tasks \in Seq(Task) /\ Head(tasks) \in Task
  BY DEF LoopInv, PlayerTypeOK, Task
<1>3. /\ \E g : Plan(g, Tail(tasks), f[1], Needed)
      /\ Head(tasks) = "play" => pendingFrames = 0 /\ f[1] = 1
      /\ Head(tasks) = "pause" => pendingFrames = 1 /\ f[1] = 0
      /\ Head(tasks) = "seeked" => f[1] = pendingFrames
  BY <1>1, <1>2, PlanAdvances
<1>4. f[1] = pendingFrames'
  BY <1>2, <1>3 DEF Task
<1>5. Needed' = Needed
  BY DEF Needed
<1> QED
  BY <1>3, <1>4, <1>5 DEF QueueIsPlanned

\* togglePlay, which may queue two events, the first of them 'play'.
LEMMA ReplayPlanned ==
    ASSUME LoopInv, ~cutOff', TogglePlayPlays
    PROVE  LoopIsShown' /\ QueueIsPlanned'
<1>1. ~cutOff /\ paused' = FALSE /\ UNCHANGED loopVars
  BY DEF TogglePlayPlays
<1>2. tasks \in Seq(Task) /\ paused \in BOOLEAN
  BY DEF LoopInv, PlayerTypeOK, Task
<1>3. \/ paused /\ tasks' = Append(tasks, "play")
      \/ paused /\ tasks' = Append(Append(tasks, "play"), "seeked")
      \/ ~paused /\ tasks' = Append(tasks, "seeked")
  BY <1>2, ReplayQueued
<1>4. CASE paused /\ tasks' = Append(tasks, "play")
  BY <1>1, <1>4, EventQueued DEF Task
<1>5. CASE paused /\ tasks' = Append(Append(tasks, "play"), "seeked")
  <2>1. PICK f : Plan(f, tasks, pendingFrames, 0)
    BY <1>1, <1>5 DEF LoopInv, QueueIsPlanned, Needed
  <2>2. PICK g : Plan(g, Append(tasks, "play"), pendingFrames, 1)
    BY <1>2, <2>1, PlanExtends DEF Task
  <2>3. Append(tasks, "play") \in Seq(Task)
    BY <1>2 DEF Task
  <2>4. \E h : Plan(h, tasks', pendingFrames, 1)
    BY <1>5, <2>2, <2>3, PlanExtends DEF Task
  <2>5. pendingFrames' = pendingFrames /\ LoopIsShown'
    BY <1>1 DEF LoopInv, LoopIsShown, loopVars
  <2> QED
    BY <1>1, <2>4, <2>5 DEF QueueIsPlanned, Needed
<1>6. CASE ~paused /\ tasks' = Append(tasks, "seeked")
  BY <1>1, <1>2, <1>6, EventQueued DEF Task
<1> QED
  BY <1>3, <1>4, <1>5, <1>6

\* A step that changes neither the queue, nor playback, nor the loop.
LEMMA LoopUntouched ==
    ASSUME LoopInv, ~cutOff, UNCHANGED <<paused, tasks, loopVars>>
    PROVE  LoopIsShown' /\ QueueIsPlanned'
BY DEF LoopInv, LoopIsShown, QueueIsPlanned, Needed, loopVars

\* The plan of the queue survives every step but the one that cuts it off.
LEMMA LoopStep ==
    ASSUME LoopInv, [PlayerNext]_playerVars
    PROVE  LoopInv'
<1>1. PlayerTypeOK' /\ RememberedFrame'
  BY TypeStep DEF LoopInv
<1> SUFFICES ASSUME ~cutOff'
             PROVE  LoopIsShown' /\ QueueIsPlanned'
  BY <1>1 DEF LoopInv
<1> USE NoFrameAssumption
<1>2. CASE AnimationFrame
  <2>1. ~cutOff /\ LoopIsShown /\ QueueIsPlanned
    BY <1>2 DEF AnimationFrame, LoopInv
  <2>2. pendingFrames \in {0, 1}
    BY <2>1 DEF QueueIsPlanned, Plan, LoopInv, PlayerTypeOK
  <2>3. pendingFrames' = 1 /\ pendingFrames = 1 /\ animationFrameId' = 1
    BY <1>2, <2>2 DEF AnimationFrame
  <2>4. LoopIsShown'
    BY <1>2, <2>1, <2>3 DEF LoopIsShown, AnimationFrame
  <2>5. QueueIsPlanned'
    BY <1>2, <2>1, <2>3 DEF QueueIsPlanned, Needed, AnimationFrame, mediaVars
  <2> QED
    BY <2>4, <2>5
<1>3. CASE Tick
  BY <1>3, LoopUntouched DEF Tick
<1>4. CASE PlayDispatched
  <2>1. ~cutOff /\ paused' = paused /\ tasks # <<>> /\ tasks' = Tail(tasks)
    BY <1>4 DEF PlayDispatched
  <2>2. /\ Head(tasks) = "play" /\ label' = "pause"
        /\ pendingFrames' = pendingFrames + 1
        /\ animationFrameId' = pendingFrames + 1
    BY <1>4 DEF PlayDispatched, OnPlay, StartRenderLoop
  <2>3. QueueIsPlanned' /\ pendingFrames = 0
    BY <2>1, <2>2, EventDispatched
  <2> QED
    BY <2>2, <2>3 DEF LoopIsShown
<1>5. CASE PauseDispatched
  <2>1. ~cutOff /\ paused' = paused /\ tasks # <<>> /\ tasks' = Tail(tasks)
    BY <1>5 DEF PauseDispatched
  <2>2. Head(tasks) = "pause" /\ label' = "play" /\ animationFrameId' = NoFrame
    BY <1>5 DEF PauseDispatched, OnPause, StopRenderLoop
  <2>3. pendingFrames = 1 => pendingFrames' = 0
    BY <1>5, <2>1 DEF PauseDispatched, OnPause, StopRenderLoop, LoopInv, LoopIsShown
  <2>4. QueueIsPlanned' /\ pendingFrames = 1
    BY <2>1, <2>2, <2>3, EventDispatched
  <2> QED
    BY <2>2, <2>3, <2>4 DEF LoopIsShown
<1>6. CASE SeekedDispatched
  <2>1. ~cutOff /\ paused' = paused /\ tasks # <<>> /\ tasks' = Tail(tasks)
    BY <1>6 DEF SeekedDispatched
  <2>2. Head(tasks) = "seeked" /\ UNCHANGED loopVars
    BY <1>6 DEF SeekedDispatched
  <2>3. QueueIsPlanned'
    BY <2>1, <2>2, EventDispatched DEF loopVars
  <2> QED
    BY <2>1, <2>2, <2>3 DEF LoopIsShown, LoopInv, loopVars
<1>7. CASE EndOfMedia
  <2>1. /\ ~cutOff /\ ~paused /\ paused' = TRUE
        /\ tasks' = Append(tasks, "pause") /\ UNCHANGED loopVars
    BY <1>7 DEF EndOfMedia
  <2> QED
    BY <2>1, EventQueued DEF Task
<1>8. CASE MetadataLoaded
  BY <1>8, LoopUntouched DEF MetadataLoaded
<1>9. CASE TogglePlayPlays
  BY <1>9, ReplayPlanned
<1>10. CASE TogglePlayPauses
  <2>1. /\ ~cutOff /\ ~paused /\ paused' = TRUE
        /\ tasks' = Append(tasks, "pause") /\ UNCHANGED loopVars
    BY <1>10 DEF TogglePlayPauses
  <2> QED
    BY <2>1, EventQueued DEF Task
<1>11. ASSUME NEW t \in Time, Seek(t)
       PROVE  LoopIsShown' /\ QueueIsPlanned'
  <2>1. /\ ~cutOff /\ paused' = paused
        /\ tasks' = Append(tasks, "seeked") /\ UNCHANGED loopVars
    BY <1>11 DEF Seek
  <2>2. paused' \in BOOLEAN
    BY <1>1 DEF PlayerTypeOK
  <2> QED
    BY <2>1, <2>2, EventQueued DEF Task
<1>12. CASE LoadVideo
  <2>1. /\ ~cutOff /\ paused /\ paused' /\ tasks = <<>> /\ tasks' = <<>>
        /\ UNCHANGED loopVars
    BY <1>12 DEF LoadVideo
  <2>2. paused' = paused
    BY <2>1 DEF LoopInv, PlayerTypeOK
  <2> QED
    BY <2>1, <2>2, LoopUntouched
<1>13. ASSUME NEW data \in Timelines, LoadMetadataTimeline(data)
       PROVE  LoopIsShown' /\ QueueIsPlanned'
  BY <1>13, LoopUntouched DEF LoadMetadataTimeline, mediaVars
<1>14. CASE Resize
  BY <1>14, LoopUntouched DEF Resize, mediaVars
<1>15. CASE UNCHANGED playerVars
  BY <1>15, LoopUntouched DEF playerVars, mediaVars
<1> QED
  BY <1>2, <1>3, <1>4, <1>5, <1>6, <1>7, <1>8, <1>9, <1>10, <1>11, <1>12, <1>13,
     <1>14, <1>15 DEF PlayerNext

\* When no event is queued the plan is over.
LEMMA LoopInvSettles ==
    ASSUME LoopInv
    PROVE  LoopFollowsPlayback
<1> SUFFICES ASSUME tasks = <<>>, ~cutOff
             PROVE  /\ pendingFrames = (IF paused THEN 0 ELSE 1)
                    /\ animationFrameId = (IF paused THEN NoFrame ELSE 1)
                    /\ label = (IF paused THEN "play" ELSE "pause")
  BY DEF LoopFollowsPlayback
<1>1. LoopIsShown /\ QueueIsPlanned /\ Len(tasks) = 0
  BY DEF LoopInv
<1>2. pendingFrames = Needed
  BY <1>1 DEF QueueIsPlanned, Plan
<1> QED
  BY <1>1, <1>2 DEF LoopIsShown, Needed

\* Playing again from the end queues a 'seeked' event, and no play drops one.
LEMMA ReplayAwaited ==
    ASSUME tasks \in Seq(Task), paused \in BOOLEAN, TogglePlayPlays,
           Ended \/ \E i \in 1 .. Len(tasks) : tasks[i] = "seeked"
    PROVE  \E i \in 1 .. Len(tasks') : tasks'[i] = "seeked"
<1> DEFINE asked == IF paused THEN <<"play">> ELSE <<>>
           back == IF Ended THEN <<"seeked">> ELSE <<>>
<1>1. tasks' = (tasks \o asked) \o back
  BY DEF TogglePlayPlays
<1>2. asked \in Seq(Task) /\ back \in Seq(Task) /\ (Ended => back = <<"seeked">>)
  <2>1. <<>> \in Seq(Task) /\ <<"play">> \in Seq(Task) /\ <<"seeked">> \in Seq(Task)
    BY DEF Task
  <2> QED
    BY <2>1
<1> HIDE DEF asked, back
<1> DEFINE first == tasks \o asked
<1>3. /\ first \in Seq(Task)
      /\ Len(tasks) =< Len(first)
      /\ \A i \in 1 .. Len(tasks) : first[i] = tasks[i]
  BY <1>2
<1>4. tasks' = first \o back
  BY <1>1
<1> HIDE DEF first
<1>5. /\ Len(tasks') = Len(first) + Len(back)
      /\ \A i \in 1 .. Len(first) : tasks'[i] = first[i]
      /\ \A i \in 1 .. Len(back) : tasks'[Len(first) + i] = back[i]
  BY <1>2, <1>3, <1>4
<1>6. CASE Ended
  <2>1. Len(back) = 1 /\ back[1] = "seeked"
    BY <1>2, <1>6
  <2>2. Len(first) \in Nat /\ tasks'[Len(first) + 1] = "seeked"
    BY <1>3, <1>5, <2>1
  <2> QED
    BY <1>5, <2>1, <2>2
<1>7. ASSUME NEW i \in 1 .. Len(tasks), tasks[i] = "seeked"
      PROVE  \E k \in 1 .. Len(tasks') : tasks'[k] = "seeked"
  <2>1. Len(tasks) \in Nat /\ Len(first) \in Nat /\ Len(back) \in Nat
    BY <1>2, <1>3
  <2>2. i \in 1 .. Len(first) /\ i \in 1 .. Len(tasks')
    BY <2>1, <1>3, <1>5
  <2>3. tasks'[i] = "seeked"
    BY <2>2, <1>3, <1>5, <1>7
  <2> QED
    BY <2>2, <2>3
<1> QED
  BY <1>6, <1>7

\* A stale overlay waits for a 'seeked' event that is queued, whatever was
\* queued before it and whatever is dispatched first.
LEMMA OverlayStep ==
    ASSUME OverlayInv, PlayerTypeOK', [PlayerNext]_playerVars
    PROVE  OverlayInv'
<1> DEFINE Stale == /\ ~timeMoved /\ timelineData # {}
                    /\ canvas # Active(timelineData, currentTime)
           Awaited == \E i \in 1 .. Len(tasks) : tasks[i] = "seeked"
<1> SUFFICES ASSUME Stale'
             PROVE  Awaited'
  BY DEF OverlayInv
<1>1. tasks \in Seq(Task) /\ (Stale => Awaited)
  BY DEF OverlayInv, PlayerTypeOK, Task
<1>2. ASSUME NEW e \in Task, tasks' = Append(tasks, e), Awaited \/ e = "seeked"
      PROVE  Awaited'
  <2>1. PICK n \in Nat : n = Len(tasks)
    BY <1>1
  <2>2. /\ Len(tasks') = n + 1 /\ tasks'[n + 1] = e
        /\ \A i \in 1 .. n : tasks'[i] = tasks[i]
    BY <1>1, <1>2, <2>1
  <2>3. CASE e = "seeked"
    BY <2>2, <2>3
  <2>4. CASE Awaited
    BY <2>1, <2>2, <2>4
  <2> QED
    BY <1>2, <2>3, <2>4
<1>3. ASSUME tasks # <<>>, tasks' = Tail(tasks), Head(tasks) # "seeked", Awaited
      PROVE  Awaited'
  <2>1. PICK i \in 1 .. Len(tasks) : tasks[i] = "seeked"
    BY <1>3
  <2>2. i # 1
    BY <1>1, <1>3, <2>1
  <2>3. i - 1 \in 1 .. Len(tasks') /\ tasks'[i - 1] = tasks[i]
    BY <1>1, <1>3, <2>2
  <2> QED
    BY <2>1, <2>3
<1>4. ASSUME NEW data, NEW t, DrawCurrentFrame(data, t),
             timelineData' = data, currentTime' = t
      PROVE  FALSE
  BY <1>4 DEF DrawCurrentFrame, Drawn, Active
<1>5. CASE AnimationFrame
  BY <1>4, <1>5 DEF AnimationFrame, mediaVars
<1>6. CASE Tick
  BY <1>6 DEF Tick
<1>7. CASE PlayDispatched
  <2>1. Stale
    BY <1>7 DEF PlayDispatched, overlayVars, Active
  <2>2. tasks # <<>> /\ tasks' = Tail(tasks) /\ Head(tasks) # "seeked"
    BY <1>7 DEF PlayDispatched
  <2> QED
    BY <1>1, <1>3, <2>1, <2>2
<1>8. CASE PauseDispatched
  <2>1. Stale
    BY <1>8 DEF PauseDispatched, overlayVars, Active
  <2>2. tasks # <<>> /\ tasks' = Tail(tasks) /\ Head(tasks) # "seeked"
    BY <1>8 DEF PauseDispatched
  <2> QED
    BY <1>1, <1>3, <2>1, <2>2
<1>9. CASE SeekedDispatched
  BY <1>4, <1>9 DEF SeekedDispatched
<1>10. CASE EndOfMedia
  <2>1. Stale /\ tasks' = Append(tasks, "pause")
    BY <1>10 DEF EndOfMedia, overlayVars, Active
  <2> QED
    BY <1>1, <1>2, <2>1 DEF Task
<1>11. CASE MetadataLoaded
  <2>1. Stale /\ tasks' = tasks
    BY <1>11 DEF MetadataLoaded, overlayVars, Active
  <2> QED
    BY <1>1, <2>1
<1>12. CASE TogglePlayPlays
  <2>1. paused \in BOOLEAN
    BY DEF OverlayInv, PlayerTypeOK
  <2>2. CASE Ended
    BY <1>1, <1>12, <2>1, <2>2, ReplayAwaited
  <2>3. CASE ~Ended
    <3>1. Stale
      BY <1>12, <2>3 DEF TogglePlayPlays, overlayVars, Active
    <3> QED
      BY <1>1, <1>12, <2>1, <3>1, ReplayAwaited
  <2> QED
    BY <2>2, <2>3
<1>13. CASE TogglePlayPauses
  <2>1. Stale /\ tasks' = Append(tasks, "pause")
    BY <1>13 DEF TogglePlayPauses, overlayVars, Active
  <2> QED
    BY <1>1, <1>2, <2>1 DEF Task
<1>14. ASSUME NEW t \in Time, Seek(t)
       PROVE  FALSE
  BY <1>4, <1>14 DEF Seek
<1>15. CASE LoadVideo
  <2>1. Stale /\ tasks = <<>>
    BY <1>15 DEF LoadVideo, Active
  <2> QED
    BY <1>1, <2>1
<1>16. ASSUME NEW data \in Timelines, LoadMetadataTimeline(data)
       PROVE  FALSE
  BY <1>4, <1>16 DEF LoadMetadataTimeline, mediaVars
<1>17. CASE Resize
  BY <1>17 DEF Resize, Active, mediaVars
<1>18. CASE UNCHANGED playerVars
  <2>1. Stale /\ tasks' = tasks
    BY <1>18 DEF playerVars, mediaVars, overlayVars, Active
  <2> QED
    BY <1>1, <2>1
<1> QED
  BY <1>5, <1>6, <1>7, <1>8, <1>9, <1>10, <1>11, <1>12, <1>13, <1>14, <1>15,
     <1>16, <1>17, <1>18 DEF PlayerNext

-----------------------------------------------------------------------------
\* The types, with the frame remembered (startRenderLoop, stopRenderLoop).
THEOREM PlayerTypeCorrect == PlayerSpec => [](PlayerTypeOK /\ RememberedFrame)
<1>1. PlayerInit => PlayerTypeOK /\ RememberedFrame
  BY PlayerInitTyped
<1>2. PlayerTypeOK /\ RememberedFrame /\ [PlayerNext]_playerVars
        => (PlayerTypeOK /\ RememberedFrame)'
  BY TypeStep
<1> QED
  BY <1>1, <1>2, PTL DEF PlayerSpec

\* For any video and any number of queued events: once they are handled, one
\* frame is pending while the video plays and none while it is paused.
THEOREM LoopFollowsPlaybackAlways == PlayerSpec => []LoopFollowsPlayback
<1>1. PlayerInit => LoopInv
  <2> SUFFICES ASSUME PlayerInit
               PROVE  LoopIsShown /\ QueueIsPlanned
    BY PlayerInitTyped DEF LoopInv
  <2>1. LoopIsShown
    BY DEF PlayerInit, LoopIsShown
  <2>2. <<>> \in Seq(Task) /\ Plan([i \in 0 .. 0 |-> 0], <<>>, 0, 0)
    BY DEF Plan
  <2>3. \E f : Plan(f, Append(<<>>, "play"), 0, 1)
    BY <2>2, PlanExtends DEF Task
  <2>4. Append(<<>>, "play") = <<"play">>
    OBVIOUS
  <2>5. QueueIsPlanned
    BY <2>2, <2>3, <2>4 DEF PlayerInit, QueueIsPlanned, Needed
  <2> QED
    BY <2>1, <2>5
<1>2. LoopInv /\ [PlayerNext]_playerVars => LoopInv'
  BY LoopStep
<1>3. LoopInv => LoopFollowsPlayback
  BY LoopInvSettles
<1> QED
  BY <1>1, <1>2, <1>3, PTL DEF PlayerSpec

\* For any video and any timelines, while the one loaded is not empty: when no
\* event is queued and neither playback nor load() moved the time, the boxes
\* are those of the time shown.  With an empty one the old boxes stay
\* (OverlayFollowsTimeline is false), because drawCurrentFrame returns early.
THEOREM SettledOverlayAlways == PlayerSpec => []SettledOverlay
<1>1. PlayerInit => OverlayInv
  BY PlayerInitTyped DEF PlayerInit, OverlayInv
<1>2. OverlayInv /\ PlayerTypeOK' /\ [PlayerNext]_playerVars => OverlayInv'
  BY OverlayStep
<1>3. OverlayInv => SettledOverlay
  BY DEF OverlayInv, SettledOverlay
<1> QED
  BY <1>1, <1>2, <1>3, PlayerTypeCorrect, PTL DEF PlayerSpec


-----------------------------------------------------------------------------
(***************************************************************************)
(* ScenarioLog: what is in the streams.                                    *)
(***************************************************************************)
Stopped == tool \in {"done", "crashed"}

Line == [frame : Frames, offset : Nat]

ScenarioTypeOK ==
    /\ tool \in {"starts", "records", "done", "failed", "crashed"}
    /\ recorded \in Seq(Frames) /\ index \in Seq(Line) /\ blob \in Seq(Nat)
    /\ offset \in Nat
    /\ lines \in 0 .. Len(index) /\ bytes \in 0 .. Len(blob)
    /\ tail \in {"none", "numbers", "flag", "session"}
    /\ full \in SUBSET {"index", "blob"}
    /\ replay \in {"none", "refused", "ready"}
    /\ next \in Nat \ {0}

\* The bytes of frame i lie in the blob from a place on.
LiesAt(place, i) ==
    /\ place + recorded[i].length =< Len(blob)
    /\ \A k \in 1 .. recorded[i].length : blob[place + k] = i

\* The index has a line for each frame recorded, and the line says where in the
\* blob its bytes are.
IndexIsRecording ==
    /\ Len(index) = Len(recorded)
    /\ offset = Len(blob)
    /\ \A i \in 1 .. Len(recorded) :
          index[i].frame = recorded[i] /\ LiesAt(index[i].offset, i)

\* What is left of a cut line is left of a line.
CutIsOfALine == tail # "none" => lines < Len(index)

\* A scenario is read when nobody writes it any more, and stays what it was.
PlaysWhatIsOnDisk ==
    /\ replay # "none" => Stopped
    /\ replay = "ready" => entries = Loaded /\ ~IsCorrupt

\* What was passed on are the entries up to the one the thread is at.
DeliveredInOrder ==
    /\ DOMAIN delivered = 1 .. next - 1
    /\ replay # "ready" => delivered = <<>> /\ thread = "none"
    /\ replay = "ready" =>
          /\ next - 1 =< Len(Loaded)
          /\ delivered = [i \in 1 .. next - 1 |-> FrameOf(Loaded[i])]

\* If the disk takes everything, closing the streams puts all of it there.
ClosedIsWhole ==
    tool = "done" /\ full = {} =>
        lines = Len(index) /\ tail = "none" /\ bytes = Len(blob)

\* A replay was refused for a reason that can still be seen.
RefusedIsCorrupt == replay = "refused" => IsCorrupt

ScenarioInv ==
    /\ ScenarioTypeOK /\ IndexIsRecording /\ CutIsOfALine
    /\ PlaysWhatIsOnDisk /\ DeliveredInOrder
    /\ ClosedIsWhole /\ RefusedIsCorrupt

\* What is read of a scenario is a matter of the index and the disk.
LEMMA LoadedIsOfTheDisk ==
    ASSUME UNCHANGED <<index, blob, onDisk>>
    PROVE  /\ Loaded' = Loaded
           /\ IsCorrupt' = IsCorrupt
           /\ \A e : FrameOf(e)' = FrameOf(e)
<1>1. WholeLines' = WholeLines /\ CutLine' = CutLine
  BY DEF WholeLines, CutLine, Entry, SessionRead, onDisk
<1>2. Loaded' = Loaded
  BY <1>1 DEF Loaded
<1>3. IsCorrupt' = IsCorrupt
  BY <1>2 DEF IsCorrupt, IsInsideBlob, onDisk
<1>4. \A e : FrameOf(e)' = FrameOf(e)
  BY DEF FrameOf, InMemory, onDisk
<1> QED
  BY <1>2, <1>3, <1>4

\* The entries read: one for each whole line and maybe one for the cut one, each
\* with the numbers of its line.
LEMMA LoadedLines ==
    ASSUME ScenarioTypeOK, IndexIsRecording, CutIsOfALine
    PROVE  /\ Len(Loaded) \in Nat /\ Len(Loaded) =< Len(recorded)
           /\ DOMAIN Loaded = 1 .. Len(Loaded)
           /\ \A i \in 1 .. Len(Loaded) :
                 /\ Loaded[i].ts = recorded[i].ts
                 /\ Loaded[i].key = recorded[i].key
                 /\ Loaded[i].length = recorded[i].length
                 /\ Loaded[i].offset = index[i].offset
                 /\ \/ Loaded[i].session = recorded[i].session
                    \/ SessionCut(i)
<1> DEFINE whole(i) == Entry(index[i], SessionRead(index[i].frame.session))
           cut == Entry(index[lines + 1], IF tail = "flag" THEN NoSession ELSE CutSession)
           E == {whole(i) : i \in 1 .. lines} \cup {cut}
<1>1. /\ Len(index) \in Nat /\ lines \in Nat /\ lines =< Len(index)
      /\ Len(index) = Len(recorded)
  BY LenProperties DEF ScenarioTypeOK, IndexIsRecording
<1> HIDE DEF whole, cut
<1>2. /\ WholeLines \in Seq(E) /\ Len(WholeLines) = lines
      /\ \A i \in 1 .. lines : WholeLines[i] = whole(i)
  <2>1. \A i \in 1 .. lines : whole(i) \in E
    OBVIOUS
  <2>2. WholeLines = [i \in 1 .. lines |-> whole(i)]
    BY DEF WholeLines, whole
  <2> HIDE DEF E
  <2>3. WholeLines \in Seq(E)
    BY <1>1, <2>1, <2>2, IsASeq
  <2> QED
    BY <1>1, <2>2, <2>3, LenProperties
<1>3. /\ CutLine \in Seq(E) /\ Len(CutLine) \in 0 .. 1
      /\ Len(CutLine) = 1 => lines + 1 =< Len(index) /\ CutLine[1] = cut
  <2>1. CASE tail \in {"flag", "session"}
    <3>1. CutLine = <<cut>> /\ cut \in E
      BY <2>1 DEF CutLine, cut
    <3>2. lines + 1 =< Len(index)
      BY <1>1, <2>1 DEF CutIsOfALine
    <3> HIDE DEF E
    <3>3. CutLine \in Seq(E) /\ Len(CutLine) = 1 /\ CutLine[1] = cut
      BY <3>1
    <3> QED
      BY <3>2, <3>3
  <2>2. CASE tail \notin {"flag", "session"}
    <3>1. CutLine = <<>>
      BY <2>2 DEF CutLine
    <3> HIDE DEF E
    <3> QED
      BY <3>1, EmptySeq
  <2> QED
    BY <2>1, <2>2
<1> HIDE DEF E
<1>4. /\ Loaded \in Seq(E)
      /\ Len(Loaded) = lines + Len(CutLine)
      /\ \A i \in 1 .. Len(Loaded) :
            Loaded[i] = IF i =< lines THEN WholeLines[i] ELSE CutLine[i - lines]
  <2>1. /\ WholeLines \in Seq(E) /\ CutLine \in Seq(E) /\ lines = Len(WholeLines)
    BY <1>2, <1>3
  <2> QED
    BY <2>1, ConcatProperties DEF Loaded
<1>5. Len(Loaded) \in Nat /\ Len(Loaded) =< Len(recorded) /\ DOMAIN Loaded = 1 .. Len(Loaded)
  <2>1. DOMAIN Loaded = 1 .. Len(Loaded)
    BY <1>4, LenProperties
  <2> QED
    BY <1>1, <1>3, <1>4, <2>1
<1>6. ASSUME NEW i \in 1 .. Len(Loaded)
      PROVE  \E s : /\ Loaded[i] = Entry(index[i], s)
                    /\ s = recorded[i].session \/ SessionCut(i)
  <2>1. i \in 1 .. Len(recorded) /\ index[i].frame = recorded[i]
    BY <1>1, <1>5 DEF IndexIsRecording
  <2>2. CASE i =< lines
    <3>1. Loaded[i] = Entry(index[i], SessionRead(index[i].frame.session))
      BY <1>1, <1>2, <1>4, <2>2 DEF whole
    <3>2. SessionRead(index[i].frame.session) = recorded[i].session \/ SessionCut(i)
      BY <2>1 DEF SessionRead, SessionCut
    <3> QED
      BY <3>1, <3>2
  <2>3. CASE i > lines
    <3>1. i = lines + 1 /\ Len(CutLine) = 1 /\ i - lines = 1
      BY <1>1, <1>3, <1>4, <2>3
    <3>2. Loaded[i] = CutLine[1]
      BY <1>1, <1>4, <2>3, <3>1
    <3>3. SessionCut(i)
      BY <3>1 DEF SessionCut
    <3> QED
      BY <1>3, <3>1, <3>2, <3>3 DEF cut
  <2> QED
    BY <1>1, <2>2, <2>3
<1>7. ASSUME NEW i \in 1 .. Len(Loaded)
      PROVE  /\ Loaded[i].ts = recorded[i].ts
             /\ Loaded[i].key = recorded[i].key
             /\ Loaded[i].length = recorded[i].length
             /\ Loaded[i].offset = index[i].offset
             /\ Loaded[i].session = recorded[i].session \/ SessionCut(i)
  <2>1. i \in 1 .. Len(recorded) /\ index[i].frame = recorded[i]
    BY <1>1, <1>5 DEF IndexIsRecording
  <2>2. PICK s : /\ Loaded[i] = Entry(index[i], s)
                 /\ s = recorded[i].session \/ SessionCut(i)
    BY <1>6
  <2>3. Loaded[i] = [ts |-> index[i].frame.ts, offset |-> index[i].offset,
                     length |-> index[i].frame.length, key |-> index[i].frame.key,
                     session |-> s]
    BY <2>2 DEF Entry
  <2> QED
    BY <2>1, <2>2, <2>3
<1> QED
  BY <1>5, <1>7

\* An entry that was not refused has in memory the bytes of its frame.
LEMMA LoadedBytes ==
    ASSUME ScenarioTypeOK, IndexIsRecording, CutIsOfALine, ~IsCorrupt,
           NEW i \in 1 .. Len(Loaded)
    PROVE  FrameOf(Loaded[i]).data = Repeat(recorded[i].length, i)
<1> DEFINE at == index[i].offset
           n == recorded[i].length
<1>1. /\ Loaded[i].offset = at /\ Loaded[i].length = n
      /\ i \in 1 .. Len(recorded) /\ i \in DOMAIN Loaded
  BY LoadedLines, LenProperties DEF ScenarioTypeOK
<1>2. at \in Nat /\ n \in Nat
  <2>1. index[i] \in Line /\ recorded[i] \in Frames
    BY <1>1, ElementOfSeq DEF ScenarioTypeOK, IndexIsRecording
  <2> QED
    BY <2>1, FramesAssumption DEF Line
<1>3. bytes \in Nat /\ bytes =< Len(blob) /\ at + n =< bytes
  <2>1. IsInsideBlob(Loaded[i])
    BY <1>1 DEF IsCorrupt
  <2>2. bytes \in Nat /\ bytes =< Len(blob)
    BY LenProperties DEF ScenarioTypeOK
  <2> HIDE DEF at, n
  <2> QED
    BY <1>1, <1>2, <2>1, <2>2 DEF IsInsideBlob
<1>4. \A k \in 1 .. n : blob[at + k] = i
  BY <1>1 DEF IndexIsRecording, LiesAt
<1> HIDE DEF at, n
<1>5. InMemory = [k \in 1 .. bytes |-> blob[k]]
  BY <1>3 DEF InMemory
<1>6. SubSeq(InMemory, at + 1, at + n) = [k \in 1 .. n |-> InMemory[at + k]]
  <2>1. (at + n) - (at + 1) + 1 = n /\ \A k \in 1 .. n : k + (at + 1) - 1 = at + k
    BY <1>2
  <2> QED
    BY <1>2, <2>1
<1>7. \A k \in 1 .. n : InMemory[at + k] = i
  <2>1. \A k \in 1 .. n : at + k \in 1 .. bytes
    BY <1>2, <1>3
  <2> QED
    BY <1>4, <1>5, <2>1
<1>8. SubSeq(InMemory, at + 1, at + n) = Repeat(n, i)
  BY <1>6, <1>7 DEF Repeat
<1>9. FrameOf(Loaded[i]).data = SubSeq(InMemory, at + 1, at + n)
  BY <1>1 DEF FrameOf
<1> QED
  BY <1>8, <1>9 DEF n

-----------------------------------------------------------------------------
(***************************************************************************)
(* ScenarioLog: the invariant is kept.                                     *)
(***************************************************************************)
LEMMA ScenarioInitInv == ScenarioInit => ScenarioInv
<1> SUFFICES ASSUME ScenarioInit PROVE ScenarioInv
  OBVIOUS
<1> USE DEF ScenarioInit
<1>1. ScenarioTypeOK
  BY EmptySeq DEF ScenarioTypeOK
<1>2. IndexIsRecording /\ CutIsOfALine
  BY DEF IndexIsRecording, CutIsOfALine
<1>3. PlaysWhatIsOnDisk /\ ClosedIsWhole /\ RefusedIsCorrupt
  BY DEF PlaysWhatIsOnDisk, ClosedIsWhole, RefusedIsCorrupt
<1>4. DeliveredInOrder
  BY DEF DeliveredInOrder
<1> QED
  BY <1>1, <1>2, <1>3, <1>4 DEF ScenarioInv

\* A frame more: its line says where its bytes are, and those before it stay
\* where they were.
LEMMA RecordKeepsIndex ==
    ASSUME ScenarioTypeOK, IndexIsRecording, NEW frame \in Frames, Record(frame)
    PROVE  /\ recorded' \in Seq(Frames) /\ index' \in Seq(Line) /\ blob' \in Seq(Nat)
           /\ offset' \in Nat
           /\ Len(index') = Len(index) + 1 /\ Len(blob') >= Len(blob)
           /\ IndexIsRecording'
<1> DEFINE n == Len(recorded)
           line == [frame |-> frame, offset |-> offset]
<1>1. /\ n \in Nat /\ Len(index) = n /\ Len(blob) \in Nat
      /\ offset = Len(blob) /\ frame.length \in Nat
  BY LenProperties, FramesAssumption DEF ScenarioTypeOK, IndexIsRecording
<1>2. /\ recorded' \in Seq(Frames) /\ Len(recorded') = n + 1
      /\ recorded'[n + 1] = frame
      /\ \A i \in 1 .. n : recorded'[i] = recorded[i]
  <2>1. recorded' = Append(recorded, frame) /\ recorded \in Seq(Frames)
    BY DEF Record, ScenarioTypeOK
  <2> QED
    BY <2>1, AppendProperties
<1>3. line \in Line
  BY <1>1 DEF Line
<1>4. /\ index' \in Seq(Line) /\ Len(index') = n + 1
      /\ index'[n + 1] = line
      /\ \A i \in 1 .. n : index'[i] = index[i]
  <2> HIDE DEF line
  <2>1. index' = Append(index, line) /\ index \in Seq(Line)
    BY DEF Record, ScenarioTypeOK, line
  <2> QED
    BY <1>1, <1>3, <2>1, AppendProperties
<1>5. /\ BytesOf(frame) \in Seq(Nat) /\ Len(BytesOf(frame)) = frame.length
      /\ \A k \in 1 .. frame.length : BytesOf(frame)[k] = n + 1
  <2>1. BytesOf(frame) = [k \in 1 .. frame.length |-> n + 1]
    BY DEF BytesOf, Repeat
  <2>2. BytesOf(frame) \in Seq(Nat)
    BY <1>1, <2>1, IsASeq
  <2> QED
    BY <1>1, <2>1, <2>2, LenProperties
<1>6. /\ blob' \in Seq(Nat) /\ Len(blob') = Len(blob) + frame.length
      /\ \A k \in 1 .. Len(blob) : blob'[k] = blob[k]
      /\ \A k \in 1 .. frame.length : blob'[Len(blob) + k] = n + 1
  <2>1. blob' = blob \o BytesOf(frame) /\ blob \in Seq(Nat)
    BY DEF Record, ScenarioTypeOK
  <2>2. /\ blob' \in Seq(Nat) /\ Len(blob') = Len(blob) + frame.length
        /\ \A i \in 1 .. Len(blob) + frame.length :
              blob'[i] = IF i =< Len(blob) THEN blob[i] ELSE BytesOf(frame)[i - Len(blob)]
    <3> DEFINE b == BytesOf(frame)
    <3>1. b \in Seq(Nat) /\ Len(b) = frame.length
      BY <1>5
    <3> HIDE DEF b
    <3>2. /\ blob \o b \in Seq(Nat) /\ Len(blob \o b) = Len(blob) + Len(b)
          /\ \A i \in 1 .. Len(blob) + Len(b) :
                (blob \o b)[i] = IF i =< Len(blob) THEN blob[i] ELSE b[i - Len(blob)]
      BY <2>1, <3>1, ConcatProperties
    <3>3. blob' = blob \o b
      BY <2>1 DEF b
    <3> QED
      BY <3>1, <3>2, <3>3 DEF b
  <2>3. ASSUME NEW k \in 1 .. frame.length PROVE blob'[Len(blob) + k] = n + 1
    <3>1. Len(blob) + k \in 1 .. Len(blob) + frame.length /\ ~(Len(blob) + k =< Len(blob))
          /\ (Len(blob) + k) - Len(blob) = k
      BY <1>1
    <3> QED
      BY <1>5, <2>2, <3>1
  <2>4. ASSUME NEW k \in 1 .. Len(blob) PROVE blob'[k] = blob[k]
    <3>1. k \in 1 .. Len(blob) + frame.length /\ k =< Len(blob)
      BY <1>1
    <3> QED
      BY <2>2, <3>1
  <2> QED
    BY <2>2, <2>3, <2>4
<1>7. offset' = Len(blob') /\ offset' \in Nat
  BY <1>1, <1>6 DEF Record
<1>8. ASSUME NEW i \in 1 .. n + 1
      PROVE  index'[i].frame = recorded'[i] /\ LiesAt(index[i].offset, i)'
  <2>1. CASE i = n + 1
    <3>1. index'[i].frame = frame /\ index'[i].offset = Len(blob) /\ recorded'[i] = frame
      BY <1>1, <1>2, <1>4, <2>1
    <3>2. index'[i].offset + recorded'[i].length =< Len(blob')
      <4>1. Len(blob) + frame.length =< Len(blob')
        BY <1>1, <1>6
      <4> QED
        BY <3>1, <4>1
    <3>3. ASSUME NEW k \in 1 .. recorded'[i].length PROVE blob'[index'[i].offset + k] = i
      <4>1. k \in 1 .. frame.length /\ index'[i].offset = Len(blob)
        BY <3>1
      <4>2. blob'[Len(blob) + k] = n + 1
        BY <1>6, <4>1
      <4> QED
        BY <2>1, <4>1, <4>2
    <3>4. LiesAt(index[i].offset, i)'
      BY <3>2, <3>3 DEF LiesAt
    <3> QED
      BY <3>1, <3>4
  <2>2. CASE i \in 1 .. n
    <3>1. index'[i] = index[i] /\ recorded'[i] = recorded[i]
          /\ index[i].frame = recorded[i] /\ LiesAt(index[i].offset, i)
      BY <1>1, <1>2, <1>4, <2>2 DEF IndexIsRecording
    <3>2. index[i].offset \in Nat /\ recorded[i].length \in Nat
      <4>1. index[i] \in Line /\ recorded[i] \in Frames
        BY <1>1, <2>2, ElementOfSeq DEF ScenarioTypeOK
      <4> QED
        BY <4>1, FramesAssumption DEF Line
    <3>3. \A k \in 1 .. recorded[i].length : index[i].offset + k \in 1 .. Len(blob)
      BY <1>1, <3>1, <3>2 DEF LiesAt
    <3>4. index[i].offset + recorded[i].length =< Len(blob')
      BY <1>1, <1>6, <3>1, <3>2 DEF LiesAt
    <3>5. \A k \in 1 .. recorded[i].length : blob'[index[i].offset + k] = i
      BY <1>6, <3>1, <3>3 DEF LiesAt
    <3>6. LiesAt(index[i].offset, i)'
      BY <3>1, <3>4, <3>5 DEF LiesAt
    <3> QED
      BY <3>1, <3>6
  <2> QED
    BY <1>1, <2>1, <2>2
<1>9. IndexIsRecording'
  BY <1>2, <1>4, <1>7, <1>8 DEF IndexIsRecording
<1> QED
  BY <1>1, <1>2, <1>4, <1>6, <1>7, <1>9

\* The steps of the recorder and of the disk come before any replay.
LEMMA NoReplayYet ==
    ASSUME ScenarioInv, tool \in {"starts", "records"},
           UNCHANGED <<replay, entries, playing>>, ScenarioTypeOK',
           IndexIsRecording', CutIsOfALine', ClosedIsWhole'
    PROVE  ScenarioInv'
<1>1. replay = "none" /\ replay' = "none"
  BY DEF ScenarioInv, PlaysWhatIsOnDisk, Stopped, ScenarioTypeOK
<1>2. PlaysWhatIsOnDisk' /\ RefusedIsCorrupt'
  BY <1>1 DEF PlaysWhatIsOnDisk, RefusedIsCorrupt
<1>3. DeliveredInOrder'
  BY <1>1 DEF ScenarioInv, DeliveredInOrder, playing
<1> QED
  BY <1>2, <1>3 DEF ScenarioInv

\* The steps of a replay leave the streams and the disk alone.
LEMMA ReplayKeepsDisk ==
    ASSUME ScenarioInv, UNCHANGED <<recording, onDisk>>,
           replay' \in {"none", "refused", "ready"}, next' \in Nat \ {0}
    PROVE  /\ ScenarioTypeOK' /\ IndexIsRecording' /\ CutIsOfALine' /\ ClosedIsWhole'
           /\ Stopped' = Stopped
           /\ Loaded' = Loaded /\ IsCorrupt' = IsCorrupt
           /\ \A e : FrameOf(e)' = FrameOf(e)
<1> USE DEF recording, onDisk
<1>1. ScenarioTypeOK'
  BY DEF ScenarioInv, ScenarioTypeOK
<1>2. IndexIsRecording' /\ CutIsOfALine' /\ ClosedIsWhole' /\ Stopped' = Stopped
  BY DEF ScenarioInv, IndexIsRecording, LiesAt, CutIsOfALine, ClosedIsWhole, Stopped
<1>3. UNCHANGED <<index, blob, onDisk>>
  OBVIOUS
<1> QED
  BY <1>1, <1>2, <1>3, LoadedIsOfTheDisk

\* Each step of the recorder, of the disk and of a replay keeps the invariant.
LEMMA ScenarioStepInv ==
    ASSUME ScenarioInv, [ScenarioNext]_scenarioVars
    PROVE  ScenarioInv'
<1> USE DEF ScenarioInv
<1>0. /\ Len(index) \in Nat /\ Len(blob) \in Nat /\ lines \in Nat /\ bytes \in Nat
      /\ lines =< Len(index) /\ bytes =< Len(blob)
  BY LenProperties DEF ScenarioTypeOK
<1>1. CASE Open
  <2>1. ScenarioTypeOK' /\ tool = "starts" /\ tool' \in {"records", "failed"}
    BY <1>1 DEF Open, ScenarioTypeOK, onDisk, playing
  <2>2. IndexIsRecording' /\ CutIsOfALine' /\ ClosedIsWhole'
    BY <1>1, <2>1 DEF Open, onDisk, IndexIsRecording, LiesAt, CutIsOfALine, ClosedIsWhole
  <2> QED
    BY <1>1, <2>1, <2>2, NoReplayYet DEF Open
<1>2. CASE Close
  <2>1. ScenarioTypeOK'
    BY <1>0, <1>2 DEF Close, ScenarioTypeOK, playing
  <2>2. IndexIsRecording' /\ CutIsOfALine' /\ ClosedIsWhole'
    BY <1>2 DEF Close, IndexIsRecording, LiesAt, CutIsOfALine, ClosedIsWhole
  <2> QED
    BY <1>2, <2>1, <2>2, NoReplayYet DEF Close
<1>3. CASE Crash
  <2>1. ScenarioTypeOK'
    BY <1>3 DEF Crash, ScenarioTypeOK, onDisk, playing
  <2>2. IndexIsRecording' /\ CutIsOfALine' /\ ClosedIsWhole'
    BY <1>3 DEF Crash, onDisk, IndexIsRecording, LiesAt, CutIsOfALine, ClosedIsWhole
  <2> QED
    BY <1>3, <2>1, <2>2, NoReplayYet DEF Crash
<1>4. CASE \E frame \in Frames : Record(frame)
  <2>1. PICK frame \in Frames : Record(frame)
    BY <1>4
  <2>2. /\ recorded' \in Seq(Frames) /\ index' \in Seq(Line) /\ blob' \in Seq(Nat)
        /\ offset' \in Nat
        /\ Len(index') = Len(index) + 1 /\ Len(blob') >= Len(blob)
        /\ IndexIsRecording'
    BY <2>1, RecordKeepsIndex
  <2>3. /\ tool = "records" /\ UNCHANGED <<tool, full, onDisk, replay, entries, playing>>
    BY <2>1 DEF Record
  <2>4. Len(blob') \in Nat
    BY <2>2, LenProperties
  <2>5. ScenarioTypeOK'
    BY <1>0, <2>2, <2>3, <2>4 DEF ScenarioTypeOK, onDisk, playing
  <2>6. CutIsOfALine' /\ ClosedIsWhole'
    BY <1>0, <2>2, <2>3 DEF CutIsOfALine, ClosedIsWhole, onDisk
  <2> QED
    BY <2>2, <2>3, <2>5, <2>6, NoReplayYet
<1>5. CASE IndexWritten
  <2>1. ScenarioTypeOK'
    BY <1>0, <1>5 DEF IndexWritten, ScenarioTypeOK, recording, playing
  <2>2. IndexIsRecording' /\ CutIsOfALine' /\ ClosedIsWhole'
    BY <1>0, <1>5 DEF IndexWritten, recording, IndexIsRecording, LiesAt,
       CutIsOfALine, ClosedIsWhole
  <2> QED
    BY <1>5, <2>1, <2>2, NoReplayYet DEF IndexWritten
<1>6. CASE BlobWritten
  <2>1. ScenarioTypeOK'
    BY <1>0, <1>6 DEF BlobWritten, ScenarioTypeOK, recording, playing
  <2>2. IndexIsRecording' /\ CutIsOfALine' /\ ClosedIsWhole'
    BY <1>0, <1>6 DEF BlobWritten, recording, IndexIsRecording, LiesAt,
       CutIsOfALine, ClosedIsWhole
  <2> QED
    BY <1>6, <2>1, <2>2, NoReplayYet DEF BlobWritten
<1>7. CASE DiskFull
  <2>1. ScenarioTypeOK' /\ tool = "records" /\ tool' = "records"
    BY <1>7 DEF DiskFull, ScenarioTypeOK, onDisk, playing
  <2>2. IndexIsRecording' /\ CutIsOfALine' /\ ClosedIsWhole'
    BY <1>7, <2>1 DEF DiskFull, onDisk, IndexIsRecording, LiesAt, CutIsOfALine,
       ClosedIsWhole
  <2> QED
    BY <1>7, <2>1, <2>2, NoReplayYet DEF DiskFull
<1>8. ASSUME UNCHANGED <<recording, onDisk>>, replay \in {"none", "ready"},
             UNCHANGED <<replay, entries>>, next' \in Nat \ {0}, DeliveredInOrder'
      PROVE  ScenarioInv'
  <2>1. replay' \in {"none", "refused", "ready"}
    BY <1>8 DEF ScenarioTypeOK
  <2>2. /\ ScenarioTypeOK' /\ IndexIsRecording' /\ CutIsOfALine' /\ ClosedIsWhole'
        /\ Stopped' = Stopped /\ Loaded' = Loaded /\ IsCorrupt' = IsCorrupt
    BY <1>8, <2>1, ReplayKeepsDisk
  <2>3. PlaysWhatIsOnDisk' /\ RefusedIsCorrupt'
    BY <1>8, <2>2 DEF PlaysWhatIsOnDisk, RefusedIsCorrupt
  <2> QED
    BY <1>8, <2>2, <2>3
<1>9. CASE Construct
  <2>1. replay' \in {"none", "refused", "ready"} /\ next' \in Nat \ {0}
    BY <1>9 DEF Construct, playing, ScenarioTypeOK
  <2>2. UNCHANGED <<recording, onDisk>> /\ UNCHANGED playing
    BY <1>9 DEF Construct
  <2>3. /\ ScenarioTypeOK' /\ IndexIsRecording' /\ CutIsOfALine' /\ ClosedIsWhole'
        /\ Stopped' = Stopped /\ Loaded' = Loaded /\ IsCorrupt' = IsCorrupt
    BY <2>1, <2>2, ReplayKeepsDisk
  <2>4. PlaysWhatIsOnDisk' /\ RefusedIsCorrupt'
    BY <1>9, <2>3 DEF Construct, PlaysWhatIsOnDisk, RefusedIsCorrupt, Stopped
  <2>5. DeliveredInOrder'
    <3>1. delivered = <<>> /\ thread = "none" /\ DOMAIN delivered = 1 .. next - 1
      BY <1>9 DEF Construct, DeliveredInOrder
    <3>2. next = 1
      <4>1. next \in Nat \ {0} /\ DOMAIN delivered = {}
        BY <3>1 DEF ScenarioTypeOK
      <4>2. 1 \notin 1 .. next - 1
        BY <3>1, <4>1
      <4> QED
        BY <4>1, <4>2
    <3>3. Len(Loaded) \in Nat
      BY LoadedLines
    <3>4. delivered' = [i \in 1 .. next' - 1 |-> FrameOf(Loaded[i])'] /\ next' - 1 =< Len(Loaded')
      BY <2>2, <2>3, <3>1, <3>2, <3>3 DEF playing
    <3> QED
      BY <2>2, <3>1, <3>2, <3>4 DEF DeliveredInOrder, playing
  <2> QED
    BY <2>3, <2>4, <2>5
<1>10. CASE Start
  <2>1. UNCHANGED <<recording, onDisk, replay, entries>> /\ replay = "ready" /\ next' = 1
        /\ delivered' = <<>>
    BY <1>10 DEF Start
  <2>2. Loaded' = Loaded /\ Len(Loaded) \in Nat
    BY <2>1, LoadedIsOfTheDisk, LoadedLines DEF recording
  <2>3. DeliveredInOrder'
    BY <2>1, <2>2 DEF DeliveredInOrder
  <2> QED
    BY <1>8, <2>1, <2>3
<1>11. CASE Deliver
  <2>1. /\ UNCHANGED <<recording, onDisk, replay, entries>>
        /\ next' = next + 1 /\ next \in DOMAIN entries
        /\ delivered' = Append(delivered, FrameOf(entries[next]))
        /\ replay = "ready" /\ entries = Loaded /\ next \in Nat \ {0}
    BY <1>11 DEF Deliver, DeliveredInOrder, PlaysWhatIsOnDisk, ScenarioTypeOK
  <2>2. /\ Loaded' = Loaded /\ \A e : FrameOf(e)' = FrameOf(e)
        /\ Len(Loaded) \in Nat /\ next =< Len(Loaded)
    <3>1. next \in 1 .. Len(Loaded)
      BY <2>1, LoadedLines
    <3> QED
      BY <2>1, <3>1, LoadedIsOfTheDisk, LoadedLines DEF recording
  <2>3. delivered = [i \in 1 .. next - 1 |-> FrameOf(Loaded[i])]
    BY <2>1 DEF DeliveredInOrder
  <2>4. delivered' = [i \in 1 .. next |-> FrameOf(Loaded[i])]
    <3> DEFINE S == {FrameOf(Loaded[i]) : i \in 1 .. next}
    <3>1. \A i \in 1 .. next : FrameOf(Loaded[i]) \in S
      OBVIOUS
    <3>2. next \in 1 .. next
      BY <2>1
    <3> HIDE DEF S
    <3>3. delivered \in Seq(S) /\ Len(delivered) = next - 1
      <4>1. next - 1 \in Nat /\ \A i \in 1 .. next - 1 : FrameOf(Loaded[i]) \in S
        BY <2>1, <3>1
      <4>2. delivered \in Seq(S)
        BY <2>3, <4>1, IsASeq
      <4> QED
        BY <2>3, <4>1, <4>2, LenProperties
    <3>4. FrameOf(Loaded[next]) \in S
      BY <3>1, <3>2
    <3>5. /\ delivered' \in Seq(S) /\ Len(delivered') = next
          /\ \A i \in 1 .. next - 1 : delivered'[i] = delivered[i]
          /\ delivered'[next] = FrameOf(Loaded[next])
      BY <2>1, <3>3, <3>4, AppendProperties
    <3>6. DOMAIN delivered' = 1 .. next /\ delivered' = [i \in DOMAIN delivered' |-> delivered'[i]]
      BY <3>5, LenProperties
    <3>7. \A i \in 1 .. next : delivered'[i] = FrameOf(Loaded[i])
      BY <2>1, <2>3, <3>5
    <3> QED
      BY <3>6, <3>7
  <2>5. DeliveredInOrder'
    <3>1. next' - 1 = next
      BY <2>1
    <3>2. \A i \in 1 .. next : FrameOf(Loaded[i])' = FrameOf(Loaded[i])
      BY <2>2
    <3>3. delivered' = [i \in 1 .. next' - 1 |-> FrameOf(Loaded[i])']
      BY <2>4, <3>1, <3>2
    <3>4. DOMAIN delivered' = 1 .. next' - 1 /\ next' - 1 =< Len(Loaded')
      BY <2>2, <3>1, <3>3
    <3> QED
      BY <2>1, <3>3, <3>4 DEF DeliveredInOrder
  <2> QED
    BY <1>8, <2>1, <2>5
<1>12. ASSUME UNCHANGED <<recording, onDisk, replay, entries, next, delivered>>,
              replay = "ready"
       PROVE  ScenarioInv'
  <2>1. Loaded' = Loaded /\ \A e : FrameOf(e)' = FrameOf(e)
    BY <1>12, LoadedIsOfTheDisk DEF recording
  <2>2. DeliveredInOrder'
    BY <1>12, <2>1 DEF DeliveredInOrder
  <2>3. next' \in Nat \ {0}
    BY <1>12 DEF ScenarioTypeOK
  <2> QED
    BY <1>8, <1>12, <2>2, <2>3
<1>13. CASE ReplayReturns \/ RequestStop \/ Joined
  <2>1. replay = "ready"
    BY <1>13 DEF ReplayReturns, RequestStop, Joined, DeliveredInOrder, ScenarioTypeOK
  <2> QED
    BY <1>12, <1>13, <2>1 DEF ReplayReturns, RequestStop, Joined
<1>14. CASE UNCHANGED scenarioVars
  <2>1. /\ UNCHANGED <<recording, onDisk>>
        /\ replay' \in {"none", "refused", "ready"} /\ next' \in Nat \ {0}
    BY <1>14 DEF scenarioVars, playing, ScenarioTypeOK
  <2>2. /\ ScenarioTypeOK' /\ IndexIsRecording' /\ CutIsOfALine' /\ ClosedIsWhole'
        /\ Stopped' = Stopped /\ Loaded' = Loaded /\ IsCorrupt' = IsCorrupt
        /\ \A e : FrameOf(e)' = FrameOf(e)
    BY <2>1, ReplayKeepsDisk
  <2>3. PlaysWhatIsOnDisk' /\ RefusedIsCorrupt' /\ DeliveredInOrder'
    BY <1>14, <2>2 DEF scenarioVars, playing, PlaysWhatIsOnDisk, RefusedIsCorrupt,
       DeliveredInOrder
  <2> QED
    BY <2>2, <2>3
<1> QED
  BY <1>1, <1>2, <1>3, <1>4, <1>5, <1>6, <1>7, <1>9, <1>10, <1>11, <1>13, <1>14
     DEF ScenarioNext

\* In every behaviour of recorder, disk and replay the streams, the disk and
\* what was passed on fit together.
THEOREM ScenarioInvAlways == ScenarioSpec => []ScenarioInv
<1>1. ScenarioInit => ScenarioInv
  BY ScenarioInitInv
<1>2. ScenarioInv /\ [ScenarioNext]_scenarioVars => ScenarioInv'
  BY ScenarioStepInv
<1> QED
  BY <1>1, <1>2, PTL DEF ScenarioSpec

\* Wherever a crash or a full disk cut the index and the blob, a replay that is
\* not refused passes on the frames recorded, in their order and byte by byte
\* (RecordedFrameSource::replay).
THEOREM ReplayIsRecordingAlways == ScenarioSpec => []ReplayIsRecording
<1>1. ASSUME ScenarioInv PROVE ReplayIsRecording
  <2> USE <1>1 DEF ScenarioInv
  <2>1. CASE replay # "ready"
    <3>1. delivered = <<>>
      BY <2>1 DEF DeliveredInOrder
    <3>2. Len(delivered) = 0 /\ DOMAIN delivered = {} /\ Len(recorded) \in Nat
      BY <3>1, LenProperties DEF ScenarioTypeOK
    <3> QED
      BY <3>2 DEF ReplayIsRecording
  <2>2. CASE replay = "ready"
    <3>1. /\ delivered = [i \in 1 .. next - 1 |-> FrameOf(Loaded[i])]
          /\ next - 1 =< Len(Loaded) /\ ~IsCorrupt /\ next - 1 \in Nat
      BY <2>2 DEF DeliveredInOrder, PlaysWhatIsOnDisk, ScenarioTypeOK
    <3>2. Len(Loaded) \in Nat /\ Len(Loaded) =< Len(recorded) /\ Len(recorded) \in Nat
      BY LoadedLines, LenProperties DEF ScenarioTypeOK
    <3>3. Len(delivered) = next - 1
      BY <3>1
    <3>4. ASSUME NEW i \in DOMAIN delivered
          PROVE  /\ delivered[i].ts = recorded[i].ts
                 /\ delivered[i].key = recorded[i].key
                 /\ delivered[i].data = Repeat(recorded[i].length, i)
                 /\ IF Override # NoSession THEN delivered[i].session = Override
                    ELSE delivered[i].session = recorded[i].session \/ SessionCut(i)
      <4>1. i \in 1 .. Len(Loaded) /\ delivered[i] = FrameOf(Loaded[i])
        BY <3>1, <3>2
      <4>2. delivered[i].data = Repeat(recorded[i].length, i)
        BY <3>1, <4>1, LoadedBytes
      <4>3. /\ Loaded[i].ts = recorded[i].ts /\ Loaded[i].key = recorded[i].key
            /\ Loaded[i].session = recorded[i].session \/ SessionCut(i)
        BY <4>1, LoadedLines
      <4>4. /\ delivered[i].ts = Loaded[i].ts /\ delivered[i].key = Loaded[i].key
            /\ delivered[i].session =
                  IF Override = NoSession THEN Loaded[i].session ELSE Override
        BY <4>1 DEF FrameOf
      <4> QED
        BY <4>2, <4>3, <4>4
    <3> QED
      BY <3>1, <3>2, <3>3, <3>4 DEF ReplayIsRecording
  <2> QED
    BY <2>1, <2>2
<1> QED
  BY <1>1, ScenarioInvAlways, PTL

\* Only a refused write or an empty frame makes a finished recording unusable:
\* without them the index the tool leaves is one loadIndex accepts.
THEOREM IntactIsReplayableAlways == ScenarioSpec => []IntactIsReplayable
<1>1. ASSUME ScenarioInv PROVE IntactIsReplayable
  <2> USE <1>1 DEF ScenarioInv
  <2> SUFFICES ASSUME tool = "done", full = {},
                      \A i \in DOMAIN recorded : recorded[i].length > 0,
                      replay = "refused"
               PROVE  FALSE
    BY DEF IntactIsReplayable
  <2>1. /\ tail = "none" /\ bytes = Len(blob) /\ IsCorrupt /\ Len(blob) \in Nat
    BY LenProperties DEF ClosedIsWhole, RefusedIsCorrupt, ScenarioTypeOK
  <2>2. PICK i \in DOMAIN Loaded : Loaded[i].length = 0 \/ ~IsInsideBlob(Loaded[i])
    BY <2>1 DEF IsCorrupt
  <2>3. /\ i \in 1 .. Len(recorded)
        /\ Loaded[i].length = recorded[i].length
        /\ Loaded[i].offset = index[i].offset
    BY LoadedLines, LenProperties DEF ScenarioTypeOK
  <2>4. recorded[i].length \in Nat /\ index[i].offset \in Nat /\ recorded[i].length > 0
    <3>1. index[i] \in Line /\ recorded[i] \in Frames /\ i \in DOMAIN recorded
      BY <2>3, ElementOfSeq, LenProperties DEF ScenarioTypeOK, IndexIsRecording
    <3> QED
      BY <3>1, FramesAssumption DEF Line
  <2>5. index[i].offset + recorded[i].length =< Len(blob)
    BY <2>3 DEF IndexIsRecording, LiesAt
  <2>6. IsInsideBlob(Loaded[i])
    BY <2>1, <2>3, <2>4, <2>5 DEF IsInsideBlob
  <2> QED
    BY <2>2, <2>3, <2>4, <2>6
<1> QED
  BY <1>1, ScenarioInvAlways, PTL

-----------------------------------------------------------------------------
(***************************************************************************)
(* EventRequest: what the body is made of.                                 *)
(***************************************************************************)

\* A set of naturals has a least element.
LEMMA LeastNatural ==
    ASSUME NEW T \in SUBSET Nat, T # {}
    PROVE  \E n \in T : \A m \in T : n =< m
<1>1. PICK n \in T : \A m \in T : <<m, n>> \notin OpToRel(<, Nat)
  BY NatLessThanWellFounded, WFMin, Zenon
<1>2. ASSUME NEW m \in T PROVE n =< m
  <2>1. <<m, n>> \notin OpToRel(<, Nat)
    BY <1>1
  <2>2. m \in Nat /\ n \in Nat
    OBVIOUS
  <2>3. ~(m < n)
    BY <2>1, <2>2 DEF OpToRel
  <2> QED
    BY <2>2, <2>3
<1> QED
  BY <1>2

\* One turn of the recursion of FlattenSeq, and its first n turns.
FlatTurn(seqs, f, i) == IF i = 1 THEN seqs[i] ELSE f[i - 1] \o seqs[i]
IsFlat(seqs, f, n) == f = [i \in 1 .. n |-> FlatTurn(seqs, f, i)]

\* The recursion comes to its end: n - 1 turns go on for one more.
LEMMA FlatRuns ==
    ASSUME NEW seqs, NEW n \in Nat
    PROVE  \E f : IsFlat(seqs, f, n)
<1> DEFINE stuck == {m \in 0 .. n : ~ \E f : IsFlat(seqs, f, m)}
<1>1. ASSUME stuck # {} PROVE FALSE
  <2>1. PICK m \in stuck : \A k \in stuck : m =< k
    <3>1. stuck \in SUBSET Nat
      OBVIOUS
    <3> HIDE DEF stuck
    <3> QED
      BY <1>1, <3>1, LeastNatural
  <2>2. m \in 0 .. n /\ m \in Nat /\ ~ \E f : IsFlat(seqs, f, m)
    OBVIOUS
  <2>3. CASE m = 0
    <3> DEFINE f == [i \in 1 .. 0 |-> FlatTurn(seqs, <<>>, i)]
    <3>1. f = [i \in 1 .. 0 |-> FlatTurn(seqs, f, i)]
      OBVIOUS
    <3> HIDE DEF f
    <3>2. IsFlat(seqs, f, 0)
      BY <3>1 DEF IsFlat
    <3> QED
      BY <2>2, <2>3, <3>2
  <2>4. CASE m # 0
    <3>1. m - 1 \in 0 .. n /\ ~(m =< m - 1)
      BY <2>2, <2>4
    <3>2. PICK g : IsFlat(seqs, g, m - 1)
      BY <2>1, <3>1
    <3> DEFINE h == [k \in 1 .. m |-> IF k < m THEN g[k] ELSE FlatTurn(seqs, g, m)]
    <3>3. ASSUME NEW k \in 1 .. m PROVE h[k] = FlatTurn(seqs, h, k)
      <4>1. k # 1 => k - 1 \in 1 .. m /\ k - 1 < m
        BY <2>2
      <4>2. k # 1 => h[k - 1] = g[k - 1]
        BY <4>1
      <4>3. FlatTurn(seqs, h, k) = FlatTurn(seqs, g, k)
        <5> HIDE DEF h
        <5> QED
          BY <4>2 DEF FlatTurn
      <4>4. CASE k < m
        <5>1. k \in 1 .. m - 1
          BY <2>2, <4>4
        <5>2. g[k] = FlatTurn(seqs, g, k)
          BY <3>2, <5>1 DEF IsFlat
        <5> QED
          BY <4>3, <4>4, <5>2
      <4>5. CASE k = m
        <5>1. h[k] = FlatTurn(seqs, g, m)
          BY <2>2, <4>5
        <5> QED
          BY <4>3, <4>5, <5>1
      <4> QED
        BY <2>2, <4>4, <4>5
    <3>4. DOMAIN h = 1 .. m /\ h = [k \in 1 .. m |-> h[k]]
      OBVIOUS
    <3> HIDE DEF h
    <3>5. IsFlat(seqs, h, m)
      BY <3>3, <3>4 DEF IsFlat
    <3> QED
      BY <2>2, <3>5
  <2> QED
    BY <2>3, <2>4
<1>2. n \in 0 .. n
  OBVIOUS
<1> QED
  BY <1>1, <1>2

\* Pieces of four tokens, one after another: token k of piece i is at place
\* 4 * (i - 1) + k.
LEMMA FlattenPieces ==
    ASSUME NEW T, NEW seqs \in Seq(Seq(T)),
           \A i \in 1 .. Len(seqs) : Len(seqs[i]) = 4
    PROVE  /\ FlattenSeq(seqs) \in Seq(T) \cup {seqs}
           /\ DOMAIN FlattenSeq(seqs) = 1 .. 4 * Len(seqs)
           /\ \A i \in 1 .. Len(seqs), k \in 1 .. 4 :
                 FlattenSeq(seqs)[4 * (i - 1) + k] = seqs[i][k]
<1> DEFINE n == Len(seqs)
           f == CHOOSE f : IsFlat(seqs, f, n)
<1>1. n \in Nat /\ DOMAIN seqs = 1 .. n /\ \A i \in 1 .. n : seqs[i] \in Seq(T)
  BY LenProperties, ElementOfSeq
<1>2. IsFlat(seqs, f, n)
  BY <1>1, FlatRuns
<1>3. FlattenSeq(seqs) = IF n = 0 THEN seqs ELSE f[n]
  BY DEF FlattenSeq, IsFlat, FlatTurn
<1> HIDE DEF f
<1>4. \A i \in 1 .. n : f[i] = FlatTurn(seqs, f, i)
  BY <1>2 DEF IsFlat
<1> DEFINE Good(m) ==
             /\ f[m] \in Seq(T) /\ Len(f[m]) = 4 * m
             /\ \A i \in 1 .. m, k \in 1 .. 4 : f[m][4 * (i - 1) + k] = seqs[i][k]
           bad == {m \in 1 .. n : ~Good(m)}
<1>5. ASSUME bad # {} PROVE FALSE
  <2>1. PICK m \in bad : \A k \in bad : m =< k
    <3>1. bad \in SUBSET Nat
      BY <1>1
    <3> HIDE DEF bad
    <3> QED
      BY <1>5, <3>1, LeastNatural
  <2>2. m \in 1 .. n /\ ~Good(m)
    OBVIOUS
  <2>3. seqs[m] \in Seq(T) /\ Len(seqs[m]) = 4 /\ f[m] = FlatTurn(seqs, f, m)
    BY <1>1, <1>4, <2>2
  <2>4. CASE m = 1
    <3>1. f[m] = seqs[1]
      BY <2>3, <2>4 DEF FlatTurn
    <3>2. ASSUME NEW i \in 1 .. m, NEW k \in 1 .. 4
          PROVE  f[m][4 * (i - 1) + k] = seqs[i][k]
      <4>1. i = 1 /\ 4 * (i - 1) + k = k
        BY <2>4
      <4> QED
        BY <3>1, <4>1
    <3> QED
      BY <2>2, <2>3, <2>4, <3>1, <3>2
  <2>5. CASE m # 1
    <3>1. m - 1 \in 1 .. n /\ ~(m =< m - 1) /\ m \in Nat
      BY <1>1, <2>2, <2>5
    <3>2. Good(m - 1)
      BY <2>1, <3>1
    <3>3. f[m] = f[m - 1] \o seqs[m]
      BY <2>3, <2>5 DEF FlatTurn
    <3> DEFINE s == f[m - 1]
    <3>4. s \in Seq(T) /\ Len(s) = 4 * (m - 1)
      BY <3>2
    <3>5. \A i \in 1 .. m - 1, k \in 1 .. 4 : s[4 * (i - 1) + k] = seqs[i][k]
      BY <3>2
    <3> HIDE DEF s
    <3>6. /\ s \o seqs[m] \in Seq(T) /\ Len(s \o seqs[m]) = Len(s) + Len(seqs[m])
          /\ \A i \in 1 .. Len(s) + Len(seqs[m]) :
                (s \o seqs[m])[i] = IF i =< Len(s) THEN s[i] ELSE seqs[m][i - Len(s)]
      BY <2>3, <3>4, ConcatProperties
    <3>7. /\ f[m] \in Seq(T) /\ Len(f[m]) = 4 * m
          /\ \A i \in 1 .. 4 * m :
                f[m][i] = IF i =< 4 * (m - 1) THEN s[i] ELSE seqs[m][i - 4 * (m - 1)]
      <4>1. f[m] = s \o seqs[m] /\ Len(s) + Len(seqs[m]) = 4 * m
        BY <2>3, <3>1, <3>3, <3>4 DEF s
      <4> QED
        BY <3>4, <3>6, <4>1
    <3>8. ASSUME NEW i \in 1 .. m, NEW k \in 1 .. 4
          PROVE  f[m][4 * (i - 1) + k] = seqs[i][k]
      <4>1. CASE i = m
        <5>1. /\ 4 * (i - 1) + k \in 1 .. 4 * m /\ ~(4 * (i - 1) + k =< 4 * (m - 1))
              /\ (4 * (i - 1) + k) - 4 * (m - 1) = k
          BY <3>1, <4>1
        <5> QED
          BY <3>7, <4>1, <5>1
      <4>2. CASE i # m
        <5>1. /\ 4 * (i - 1) + k \in 1 .. 4 * m /\ 4 * (i - 1) + k =< 4 * (m - 1)
              /\ i \in 1 .. m - 1
          BY <3>1, <4>2
        <5> QED
          BY <3>5, <3>7, <5>1
      <4> QED
        BY <4>1, <4>2
    <3> QED
      BY <2>2, <3>7, <3>8
  <2> QED
    BY <2>4, <2>5
<1>6. CASE n = 0
  <2>1. FlattenSeq(seqs) = seqs /\ 4 * n = 0
    BY <1>3, <1>6
  <2> QED
    BY <1>1, <1>6, <2>1
<1>7. CASE n # 0
  <2>1. n \in 1 .. n
    BY <1>1, <1>7
  <2>2. Good(n)
    BY <1>5, <2>1
  <2>3. FlattenSeq(seqs) = f[n]
    BY <1>3, <1>7
  <2>4. DOMAIN f[n] = 1 .. 4 * n
    BY <2>2, LenProperties
  <2> QED
    BY <2>2, <2>3, <2>4
<1> QED
  BY <1>6, <1>7

\* The least of some naturals.
LEMMA FirstIsLeast ==
    ASSUME NEW T \in SUBSET Nat, NEW n \in T, \A m \in T : n =< m
    PROVE  First(T) = n
<1>1. Min(T) \in T /\ \A m \in T : Min(T) =< m
  <2>1. Min(T) = CHOOSE x \in T : \A y \in T : x =< y
    BY DEF Min
  <2>2. \E x \in T : \A y \in T : x =< y
    OBVIOUS
  <2> QED
    BY <2>1, <2>2
<1>2. Min(T) \in Nat /\ n \in Nat /\ n =< Min(T) /\ Min(T) =< n
  BY <1>1
<1>3. Min(T) = n
  BY <1>2
<1> QED
  BY <1>3 DEF First

\* The place of token k of field i.
Place(i, k) == 4 * (i - 1) + k

\* A string is no mark, and two strings are the same if they say the same.
LEMMA StringsAndMarks ==
    /\ \A m, s : m # "string" => Mark(m) # String(s)
    /\ \A s, r : String(s) = String(r) => s = r
    /\ \A x, s : x = String(s) => x.t = "string" /\ x.v = s
<1>1. \A m : Mark(m).t = m
  BY DEF Mark
<1>2. \A s : String(s).t = "string" /\ String(s).v = s
  BY DEF String
<1>3. ASSUME NEW m, NEW s, m # "string" PROVE Mark(m) # String(s)
  <2>1. Mark(m).t = m /\ String(s).t = "string"
    BY <1>1, <1>2
  <2> QED
    BY <1>3, <2>1, Zenon
<1>4. ASSUME NEW s, NEW r, String(s) = String(r) PROVE s = r
  <2>1. String(s).v = s /\ String(r).v = r
    BY <1>2
  <2> QED
    BY <1>4, <2>1, Zenon
<1> QED
  BY <1>2, <1>3, <1>4, Zenon

LEMMA FourTokens ==
    ASSUME NEW T, NEW a \in T, NEW b \in T, NEW c \in T, NEW d \in T
    PROVE  /\ <<a, b, c, d>> \in Seq(T) /\ Len(<<a, b, c, d>>) = 4
           /\ <<a, b, c, d>>[1] = a /\ <<a, b, c, d>>[2] = b
           /\ <<a, b, c, d>>[3] = c /\ <<a, b, c, d>>[4] = d
  OBVIOUS

\* The body of a request: four tokens for each field, and no others.
LEMMA BodyTokens ==
    ASSUME sent \in Bodies
    PROVE  /\ sent \in Seq(Range(sent)) /\ Len(sent) \in Nat
           /\ DOMAIN sent = 1 .. Len(sent)
           /\ DOMAIN Body = 1 .. 4 * Len(sent)
           /\ \A i \in 1 .. Len(sent) :
                 /\ Body[Place(i, 1)] = String(sent[i].key)
                 /\ Body[Place(i, 2)] = Mark(":")
                 /\ Body[Place(i, 3)] = sent[i].value
                 /\ Body[Place(i, 4)] = Mark(",")
<1> DEFINE n == Len(sent)
           piece(i) == FieldTokens(sent[i])
           seqs == [i \in DOMAIN sent |-> piece(i)]
           T == {piece(i)[k] : i \in 1 .. n, k \in 1 .. 4}
<1>1. sent \in Seq(Range(sent)) /\ n \in Nat /\ DOMAIN sent = 1 .. n
  BY BodiesAssumption, LenProperties
<1>2. ASSUME NEW i \in 1 .. n
      PROVE  /\ Len(piece(i)) = 4
             /\ piece(i) \in Seq(T)
             /\ piece(i)[1] = String(sent[i].key) /\ piece(i)[2] = Mark(":")
             /\ piece(i)[3] = sent[i].value /\ piece(i)[4] = Mark(",")
  <2>1. piece(i) = <<String(sent[i].key), Mark(":"), sent[i].value, Mark(",")>>
    BY DEF FieldTokens
  <2>2. \A k \in 1 .. 4 : piece(i)[k] \in T
    OBVIOUS
  <2> DEFINE a == String(sent[i].key)
             b == Mark(":")
             c == sent[i].value
             d == Mark(",")
  <2> HIDE DEF T, piece, a, b, c, d
  <2>3. piece(i) = <<a, b, c, d>>
    BY <2>1 DEF a, b, c, d
  <2>4. a \in T /\ b \in T /\ c \in T /\ d \in T
    <3>1. <<a, b, c, d>>[1] = a /\ <<a, b, c, d>>[2] = b
          /\ <<a, b, c, d>>[3] = c /\ <<a, b, c, d>>[4] = d
      OBVIOUS
    <3> QED
      BY <2>2, <2>3, <3>1
  <2>5. /\ piece(i) \in Seq(T) /\ Len(piece(i)) = 4
        /\ piece(i)[1] = a /\ piece(i)[2] = b /\ piece(i)[3] = c /\ piece(i)[4] = d
    BY <2>3, <2>4, FourTokens
  <2> QED
    BY <2>5 DEF a, b, c, d
<1> HIDE DEF T, piece
<1>3. seqs \in Seq(Seq(T)) /\ Len(seqs) = n /\ \A i \in 1 .. n : seqs[i] = piece(i)
  <2>1. \A i \in 1 .. n : piece(i) \in Seq(T)
    BY <1>2
  <2>2. seqs \in Seq(Seq(T))
    BY <1>1, <2>1, IsASeq
  <2> QED
    BY <1>1, <2>2, LenProperties
<1>4. Body = FlattenSeq(seqs)
  BY DEF Body, piece
<1> HIDE DEF seqs
<1>5. /\ DOMAIN Body = 1 .. 4 * n
      /\ \A i \in 1 .. n, k \in 1 .. 4 : Body[Place(i, k)] = piece(i)[k]
  <2>1. \A i \in 1 .. Len(seqs) : Len(seqs[i]) = 4
    BY <1>2, <1>3
  <2>2. /\ DOMAIN FlattenSeq(seqs) = 1 .. 4 * Len(seqs)
        /\ \A i \in 1 .. Len(seqs), k \in 1 .. 4 :
              FlattenSeq(seqs)[4 * (i - 1) + k] = seqs[i][k]
    BY <1>3, <2>1, FlattenPieces
  <2> QED
    BY <1>3, <1>4, <2>2 DEF Place
<1>6. ASSUME NEW i \in 1 .. n
      PROVE  /\ Body[Place(i, 1)] = String(sent[i].key)
             /\ Body[Place(i, 2)] = Mark(":")
             /\ Body[Place(i, 3)] = sent[i].value
             /\ Body[Place(i, 4)] = Mark(",")
  <2>1. \A k \in 1 .. 4 : Body[Place(i, k)] = piece(i)[k]
    BY <1>5
  <2>2. 1 \in 1 .. 4 /\ 2 \in 1 .. 4 /\ 3 \in 1 .. 4 /\ 4 \in 1 .. 4
    OBVIOUS
  <2> QED
    BY <1>2, <2>1, <2>2
<1> QED
  BY <1>1, <1>5, <1>6

\* Every place of the body is that of a token of a field, and the other way
\* round.
LEMMA BodyPlaces ==
    ASSUME sent \in Bodies
    PROVE  /\ DOMAIN Body \subseteq Nat
           /\ \A i \in 1 .. Len(sent), k \in 1 .. 4 :
                 Place(i, k) \in DOMAIN Body /\ Place(i, k) \in Nat \ {0}
           /\ \A p \in DOMAIN Body :
                 \E i \in 1 .. Len(sent), k \in 1 .. 4 : p = Place(i, k)
<1> DEFINE n == Len(sent)
<1>1. n \in Nat /\ DOMAIN Body = 1 .. 4 * n
  BY BodyTokens
<1> HIDE DEF n
<1>2. ASSUME NEW i \in 1 .. n, NEW k \in 1 .. 4
      PROVE  Place(i, k) \in DOMAIN Body /\ Place(i, k) \in Nat \ {0}
  BY <1>1 DEF Place
<1>3. ASSUME NEW p \in DOMAIN Body
      PROVE  \E i \in 1 .. n, k \in 1 .. 4 : p = Place(i, k)
  <2> DEFINE i == (p - 1) \div 4 + 1
             k == ((p - 1) % 4) + 1
  <2>1. p \in 1 .. 4 * n
    BY <1>1
  <2>2. i \in 1 .. n /\ k \in 1 .. 4 /\ p = 4 * (i - 1) + k
    BY <1>1, <2>1
  <2> QED
    BY <2>2 DEF Place
<1>4. DOMAIN Body \subseteq Nat
  BY <1>1
<1> QED
  BY <1>2, <1>3, <1>4 DEF n

\* The four tokens of one field.
LEMMA TokensOf ==
    ASSUME sent \in Bodies, NEW i \in 1 .. Len(sent)
    PROVE  /\ Body[Place(i, 1)] = String(sent[i].key)
           /\ Body[Place(i, 2)] = Mark(":")
           /\ Body[Place(i, 3)] = sent[i].value
           /\ Body[Place(i, 4)] = Mark(",")
  BY BodyTokens

LEMMA PlacesOf ==
    ASSUME sent \in Bodies, NEW i \in 1 .. Len(sent), NEW k \in 1 .. 4
    PROVE  Place(i, k) \in DOMAIN Body /\ Place(i, k) \in Nat \ {0}
  BY BodyPlaces

\* In a plain body the quoted name of a field is at its place, or nowhere.
LEMMA NamePlaces ==
    ASSUME sent \in Bodies, Plain, NEW key \in FieldNames
    PROVE  {p \in DOMAIN Body : p > 0 /\ Body[p] \in {String(key)}}
              = {Place(i, 1) : i \in Fields(key)}
<1>1. ASSUME NEW p \in DOMAIN Body, Body[p] = String(key)
      PROVE  p \in {Place(i, 1) : i \in Fields(key)}
  <2>1. PICK i \in 1 .. Len(sent), k \in 1 .. 4 : p = Place(i, k)
    BY BodyPlaces
  <2>2. /\ Body[Place(i, 1)] = String(sent[i].key) /\ Body[Place(i, 2)] = Mark(":")
        /\ Body[Place(i, 3)] = sent[i].value /\ Body[Place(i, 4)] = Mark(",")
        /\ i \in DOMAIN sent
    BY BodyTokens
  <2>3. k \notin {2, 4}
    <3>1. Mark(":") # String(key) /\ Mark(",") # String(key)
      BY StringsAndMarks
    <3> QED
      BY <1>1, <2>1, <2>2, <3>1
  <2>4. k # 3
    <3>1. ASSUME k = 3 PROVE FALSE
      <4>1. sent[i].value.t = "string" /\ sent[i].value.v = key
        BY <1>1, <2>1, <2>2, <3>1, StringsAndMarks
      <4> QED
        BY <2>2, <4>1 DEF Plain
    <3> QED
      BY <3>1
  <2>5. k = 1
    BY <2>3, <2>4
  <2>6. sent[i].key = key
    BY <1>1, <2>1, <2>2, <2>5, StringsAndMarks
  <2> QED
    BY <2>1, <2>2, <2>5, <2>6 DEF Fields
<1>2. ASSUME NEW i \in Fields(key)
      PROVE  /\ Place(i, 1) \in DOMAIN Body /\ Place(i, 1) > 0
             /\ Body[Place(i, 1)] = String(key)
  <2>1. i \in 1 .. Len(sent) /\ sent[i].key = key /\ Len(sent) \in Nat
    BY BodyTokens DEF Fields
  <2>2. Place(i, 1) \in DOMAIN Body /\ Place(i, 1) \in Nat \ {0}
    BY <2>1, PlacesOf
  <2>3. Body[Place(i, 1)] = String(key)
    BY <2>1, TokensOf
  <2>4. Place(i, 1) > 0
    BY <2>2
  <2> QED
    BY <2>2, <2>3, <2>4
<1> QED
  BY <1>1, <1>2

\* A field that is not there is not found.
LEMMA AbsentField ==
    ASSUME sent \in Bodies, Plain, NEW key \in FieldNames, Fields(key) = {}
    PROVE  ColonAfter(key) = 0
<1>1. {p \in DOMAIN Body : p > 0 /\ Body[p] \in {String(key)}} = {}
  BY NamePlaces
<1>2. Find({String(key)}, 0) = 0
  BY <1>1 DEF Find, First
<1> QED
  BY <1>2 DEF ColonAfter

\* A field that is there once is found, with its colon and its value.
LEMMA PresentField ==
    ASSUME sent \in Bodies, Plain, NEW key \in FieldNames, NEW i \in Fields(key)
    PROVE  /\ Fields(key) = {i} /\ First(Fields(key)) = i
           /\ i \in DOMAIN sent /\ sent[i].key = key
           /\ ColonAfter(key) = Place(i, 2) /\ ColonAfter(key) # 0
           /\ ColonAfter(key) + 1 \in DOMAIN Body
           /\ Body[ColonAfter(key) + 1] = sent[i].value
<1>1. i \in 1 .. Len(sent) /\ i \in DOMAIN sent /\ sent[i].key = key /\ Len(sent) \in Nat
  BY BodyTokens DEF Fields
<1>2. Fields(key) = {i}
  <2>1. Fields(key) \subseteq 1 .. Len(sent)
    BY BodyTokens DEF Fields
  <2>2. IsFiniteSet(Fields(key))
    <3>1. IsFiniteSet(1 .. Len(sent))
      BY <1>1, FS_Interval
    <3> QED
      BY <2>1, <3>1, FS_Subset
  <2>3. Cardinality(Fields(key)) =< 1
    BY DEF Plain
  <2>4. ASSUME NEW j \in Fields(key), j # i PROVE FALSE
    <3>1. {i, j} \subseteq Fields(key) /\ {i, j} = {i} \cup {j} /\ j \notin {i}
      BY <2>4
    <3>2. Cardinality({i, j}) = 2
      <4>1. IsFiniteSet({i}) /\ Cardinality({i}) = 1
        BY FS_Singleton
      <4> QED
        BY <3>1, <4>1, FS_AddElement
    <3>3. Cardinality({i, j}) =< Cardinality(Fields(key))
      BY <2>2, <3>1, FS_Subset
    <3>4. Cardinality(Fields(key)) \in Nat
      BY <2>2, FS_CardinalityType
    <3> QED
      BY <2>3, <3>2, <3>3, <3>4
  <2> QED
    BY <2>4
<1>3. First(Fields(key)) = i
  <2>1. {i} \in SUBSET Nat
    BY <1>1
  <2> QED
    BY <1>2, <2>1, FirstIsLeast
<1> DEFINE p == Place(i, 1)
<1>4. /\ p \in Nat /\ p > 0 /\ Place(i, 2) = p + 1 /\ Place(i, 3) = p + 2
  BY <1>1 DEF Place
<1>5. DOMAIN Body \subseteq Nat
  BY BodyPlaces
<1>6. Find({String(key)}, 0) = p
  <2>1. {q \in DOMAIN Body : q > 0 /\ Body[q] \in {String(key)}} = {p}
    BY <1>2, NamePlaces
  <2>2. First({p}) = p
    <3> HIDE DEF p
    <3>1. {p} \in SUBSET Nat
      BY <1>4
    <3> QED
      BY <1>4, <3>1, FirstIsLeast
  <2> QED
    BY <2>1, <2>2 DEF Find
<1>7. Find({Mark(":")}, p) = p + 1
  <2> DEFINE C == {q \in DOMAIN Body : q > p /\ Body[q] \in {Mark(":")}}
  <2>1. p + 1 \in C
    <3>1. Body[Place(i, 2)] = Mark(":")
      BY <1>1, TokensOf
    <3>2. 2 \in 1 .. 4
      OBVIOUS
    <3>3. Place(i, 2) \in DOMAIN Body
      BY <1>1, <3>2, PlacesOf
    <3> QED
      BY <1>4, <3>1, <3>3
  <2>2. C \in SUBSET Nat /\ \A q \in C : p + 1 =< q
    <3> HIDE DEF p
    <3> QED
      BY <1>4, <1>5
  <2> HIDE DEF C
  <2>3. First(C) = p + 1
    BY <2>1, <2>2, FirstIsLeast
  <2> QED
    BY <2>3 DEF Find, C
<1>8. ColonAfter(key) = Place(i, 2)
  BY <1>4, <1>6, <1>7 DEF ColonAfter
<1>9. Place(i, 3) \in DOMAIN Body /\ Body[Place(i, 3)] = sent[i].value
  <2>1. Body[Place(i, 3)] = sent[i].value
    BY <1>1, TokensOf
  <2>2. 3 \in 1 .. 4
    OBVIOUS
  <2>3. Place(i, 3) \in DOMAIN Body
    BY <1>1, <2>2, PlacesOf
  <2> QED
    BY <2>1, <2>3
<1> HIDE DEF p
<1>10. Place(i, 2) # 0 /\ Place(i, 2) + 1 = Place(i, 3)
  BY <1>4
<1> QED
  BY <1>1, <1>2, <1>3, <1>8, <1>9, <1>10

\* What is extracted of a plain body is what it says.
LEMMA ExtractedIsMeant ==
    ASSUME sent \in Bodies, Plain
    PROVE  Extracted = Meant
<1> DEFINE ext(key) ==
             IF key = "event_id" THEN ExtractString(key)
             ELSE IF key \in Seconds THEN ExtractDouble(key) ELSE ExtractInt(key)
           meant(key) ==
             IF Fields(key) = {} THEN Nothing
             ELSE IF key = "event_id" THEN Value(key).v
             ELSE IF key \in Seconds THEN Value(key).v.value ELSE Value(key).v.digits
<1>1. ASSUME NEW key \in FieldNames PROVE ext(key) = meant(key)
  <2>1. CASE Fields(key) = {}
    <3>1. ColonAfter(key) = 0
      BY <2>1, AbsentField
    <3>2. NumberAfter(key) = Nothing
      BY <3>1 DEF NumberAfter
    <3>3. ExtractString(key) = Nothing /\ ExtractDouble(key) = Nothing
          /\ ExtractInt(key) = Nothing
      BY <3>1, <3>2 DEF ExtractString, ExtractDouble, ExtractInt
    <3> QED
      BY <2>1, <3>3
  <2>2. CASE Fields(key) # {}
    <3>1. PICK i \in Fields(key) : TRUE
      BY <2>2
    <3> DEFINE value == sent[i].value
               colon == ColonAfter(key)
    <3>2. /\ First(Fields(key)) = i /\ i \in DOMAIN sent /\ sent[i].key = key
          /\ colon # 0 /\ colon = Place(i, 2) /\ colon + 1 \in DOMAIN Body
          /\ Body[colon + 1] = value
      BY <3>1, PresentField
    <3>3. Value(key) = value
      BY <3>2 DEF Value
    <3>4. /\ key = "event_id" => value.t = "string"
          /\ key \in Seconds => value.t = "number"
          /\ key \in {"capture_ts_ns", "start_ms", "end_ms"} => IsInteger(value)
      BY <3>2 DEF Plain
    <3>5. value.t = "number" => value.v # Nothing
      <4>1. sent[i] \in Range(sent)
        BY <3>2 DEF Range
      <4> QED
        BY <4>1, BodiesAssumption
    <3> HIDE DEF value
    <3>6. value.t = "number" => NumberAfter(key) = value.v
      BY <3>2 DEF NumberAfter
    <3>7. CASE key = "event_id"
      <4> DEFINE Q == {q \in DOMAIN Body : q > colon /\ Body[q].t = "string"}
      <4>1. colon \in Nat /\ DOMAIN Body \subseteq Nat
        <5>1. i \in 1 .. Len(sent)
          BY <3>2, BodyTokens
        <5>2. Place(i, 2) \in Nat
          BY <5>1, PlacesOf
        <5> QED
          BY <3>2, <5>2, BodyPlaces
      <4> HIDE DEF colon
      <4>2. colon + 1 \in Q /\ Q \in SUBSET Nat /\ \A q \in Q : colon + 1 =< q
        BY <3>2, <3>4, <3>7, <4>1
      <4> HIDE DEF Q
      <4>3. First(Q) = colon + 1
        BY <4>2, FirstIsLeast
      <4>4. ExtractString(key) = value.v
        BY <3>2, <4>2, <4>3 DEF ExtractString, Q, colon
      <4> QED
        BY <2>2, <3>3, <3>7, <4>4
    <3>8. CASE key \in Seconds
      <4>1. ExtractDouble(key) = value.v.value
        BY <3>4, <3>5, <3>6, <3>8 DEF ExtractDouble
      <4> QED
        BY <2>2, <3>3, <3>8, <4>1 DEF Seconds
    <3>9. CASE key \in {"capture_ts_ns", "start_ms", "end_ms"}
      <4>1. value.t = "number" /\ value.v.digits # TooLong
        BY <3>4, <3>9 DEF IsInteger
      <4>2. ExtractInt(key) = value.v.digits
        BY <3>5, <3>6, <4>1 DEF ExtractInt
      <4> QED
        BY <2>2, <3>3, <3>9, <4>2 DEF Seconds
    <3> QED
      BY <3>7, <3>8, <3>9 DEF FieldNames
  <2> QED
    BY <2>1, <2>2
<1>2. Extracted = [key \in FieldNames |-> ext(key)]
  BY DEF Extracted
<1>3. Meant = [key \in FieldNames |-> meant(key)]
  BY DEF Meant
<1> HIDE DEF ext, meant
<1> QED
  BY <1>1, <1>2, <1>3

-----------------------------------------------------------------------------
(***************************************************************************)
(* EventRequest: where the handler goes.                                   *)
(***************************************************************************)

\* A body stays what it is while the handler reads it, and the answer follows
\* from what was extracted of it.
RequestInv ==
    /\ sent \in Bodies
    /\ parsed # Nothing => parsed = EventRequestOf(Extracted)
    /\ answer # Nothing => answer = Outcome(EventRequestOf(Extracted))

LEMMA ReadingKeepsBody ==
    ASSUME UNCHANGED <<sent, windowed, newest>>
    PROVE  /\ Extracted' = Extracted
           /\ \A request : Outcome(request)' = Outcome(request)
<1>1. Body' = Body
  BY DEF Body
<1>2. \A key : ColonAfter(key)' = ColonAfter(key)
  BY <1>1 DEF ColonAfter, Find
<1>3. \A key : /\ ExtractString(key)' = ExtractString(key)
               /\ NumberAfter(key)' = NumberAfter(key)
  BY <1>1, <1>2 DEF ExtractString, NumberAfter
<1>4. \A key : /\ ExtractInt(key)' = ExtractInt(key)
               /\ ExtractDouble(key)' = ExtractDouble(key)
  BY <1>3 DEF ExtractInt, ExtractDouble
<1>5. Extracted' = Extracted
  BY <1>3, <1>4 DEF Extracted
<1>6. \A request : Outcome(request)' = Outcome(request)
  BY DEF Outcome
<1> QED
  BY <1>5, <1>6

\* The two steps of the handler keep it.  What it is good for is the theorem
\* below: of itself it only says where the parsed request comes from.
LEMMA RequestInvAlways == RequestSpec => []RequestInv
<1>1. RequestInit => RequestInv
  BY DEF RequestInit, RequestInv
<1>2. ASSUME RequestInv, [RequestNext]_requestVars PROVE RequestInv'
  <2>1. UNCHANGED <<sent, windowed, newest>>
    BY <1>2 DEF RequestNext, ParseEventRequest, Handle, requestVars
  <2>2. Extracted' = Extracted /\ \A request : Outcome(request)' = Outcome(request)
    BY <2>1, ReadingKeepsBody
  <2>3. EventRequestOf(Extracted)' = EventRequestOf(Extracted)
    BY <2>2 DEF EventRequestOf
  <2>4. Outcome(EventRequestOf(Extracted))' = Outcome(EventRequestOf(Extracted))
    BY <2>2, <2>3
  <2>5. CASE ParseEventRequest
    BY <1>2, <2>1, <2>3, <2>4, <2>5 DEF ParseEventRequest, RequestInv
  <2>6. CASE Handle
    BY <1>2, <2>1, <2>3, <2>4, <2>6 DEF Handle, RequestInv
  <2>7. CASE UNCHANGED requestVars
    BY <1>2, <2>1, <2>3, <2>4, <2>7 DEF requestVars, RequestInv
  <2> QED
    BY <1>2, <2>5, <2>6, <2>7 DEF RequestNext
<1> QED
  BY <1>1, <1>2, PTL DEF RequestSpec

\* A plain body, with its fields in any order and any other fields beside them,
\* is answered as a JSON parser would have it (extract_json_string and the two
\* like it).
THEOREM BodyIsReadAsMeantAlways == RequestSpec => []BodyIsReadAsMeant
<1>1. RequestInv => BodyIsReadAsMeant
  BY ExtractedIsMeant DEF RequestInv, BodyIsReadAsMeant
<1> QED
  BY <1>1, RequestInvAlways, PTL

=============================================================================
