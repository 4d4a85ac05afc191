----------------------------- MODULE ZoneEditor -----------------------------
(***************************************************************************)
(* The polygon editor of b6_zone_editor.ts: zones already closed, the zone *)
(* under construction, and the vertex the mouse is dragging.  A vertex is  *)
(* named by its position in the arrays, so a name can outlive the array it *)
(* was taken from.  Every event handler is one action; a handler that hits *)
(* a JavaScript TypeError ends where it is raised and keeps what it had    *)
(* assigned by then.                                                       *)
(*                                                                         *)
(* Positions are those of a coarse grid whose points are further apart     *)
(* than a handle's radius: a press hits a vertex iff it is at its place.   *)
(* Cursor, hover highlight and drawing are left out; they change nothing   *)
(* here, and render() is always a handler's last step.                     *)
(***************************************************************************)
EXTENDS Integers, Sequences, FiniteSets

CONSTANTS
    Grid,       \* positions <<x, y>> of the canvas the mouse visits
    MaxPoints,  \* bound: the arrays grow to this many elements in all
    Hole,       \* an array element never written: undefined
    Empty,      \* the object {} a rejected drag puts back for undefined
    NoTarget    \* no vertex is being dragged

ASSUME GridAssumption == Grid \subseteq Int \X Int
ASSUME MaxPointsAssumption == MaxPoints \in Nat
ASSUME VertexAssumption == /\ Hole # Empty
                           /\ Hole \notin Grid
                           /\ Empty \notin Grid
ASSUME NoTargetAssumption == NoTarget \notin [zone : Nat, point : Nat]

VARIABLES
    completedZones,  \* sequence of zones, each a sequence of vertices
    currentZone,     \* the zone under construction
    isDrawingMode,
    dragTarget,      \* NoTarget or [zone, point]; zone 0 is currentZone
    menuAt,          \* the platform raises contextmenu at "press" or "release"
    menuDue,         \* the contextmenu event follows at once
    interrupted      \* history: an array was replaced while a drag was on

editorVars == <<completedZones, currentZone, isDrawingMode, dragTarget, menuAt,
                menuDue, interrupted>>

Button == {"left", "right"}
Vertex == Grid \cup {Hole, Empty}

-----------------------------------------------------------------------------
(***************************************************************************)
(* PolygonValidator.  A coordinate of {} is undefined and every comparison *)
(* with the NaN it leads to is false, which orientation() reports as 2.    *)
(***************************************************************************)
Side(p, q, r) ==
    (q[2] - p[2]) * (r[1] - q[1]) - (q[1] - p[1]) * (r[2] - q[2])

Orientation(p, q, r) ==
    IF Empty \in {p, q, r} THEN 2
    ELSE IF Side(p, q, r) = 0 THEN 0
    ELSE IF Side(p, q, r) > 0 THEN 1 ELSE 2

DoIntersect(p1, q1, p2, q2) ==
    /\ Orientation(p1, q1, p2) # Orientation(p1, q1, q2)
    /\ Orientation(p2, q2, p1) # Orientation(p2, q2, q1)

\* The vertex after vertex i of a closed polygon.
After(zone, i) == IF i = Len(zone) THEN 1 ELSE i + 1

\* The pairs of edges compared, edge i being the one that leaves vertex i.
EdgePairs(zone) ==
    {e \in (DOMAIN zone) \X (DOMAIN zone) :
        /\ e[1] + 2 =< e[2]
        /\ ~(e[1] = 1 /\ e[2] = Len(zone))}

Ends(zone, e) ==
    <<zone[e[1]], zone[After(zone, e[1])], zone[e[2]], zone[After(zone, e[2])]>>

\* Reading a coordinate of undefined raises a TypeError.
PairThrows(zone, e) == \E k \in 1 .. 4 : Ends(zone, e)[k] = Hole
PairCrosses(zone, e) ==
    LET v == Ends(zone, e) IN DoIntersect(v[1], v[2], v[3], v[4])

Earlier(e, f) == e[1] < f[1] \/ (e[1] = f[1] /\ e[2] < f[2])

\* The pairs are visited in order up to the first that throws or crosses.
Throws(zone) ==
    /\ Len(zone) >= 4
    /\ \E e \in EdgePairs(zone) :
          /\ PairThrows(zone, e)
          /\ \A f \in EdgePairs(zone) : Earlier(f, e) => ~PairCrosses(zone, f)

IsValidPolygon(zone) ==
    \/ Len(zone) < 4
    \/ \A e \in EdgePairs(zone) : ~PairThrows(zone, e) /\ ~PairCrosses(zone, e)

-----------------------------------------------------------------------------
(***************************************************************************)
(* The arrays.                                                             *)
(***************************************************************************)
ZoneCount == Len(completedZones)
ZoneAt(z) == IF z = 0 THEN currentZone ELSE completedZones[z]

\* Writing past the end of an array lengthens it with undefined.
WriteAt(zone, i, v) ==
    [k \in 1 .. (IF i > Len(zone) THEN i ELSE Len(zone)) |->
        IF k = i THEN v ELSE IF k =< Len(zone) THEN zone[k] ELSE Hole]

\* Slip: the point put back is a copy of its neighbour.
OriginalNeighbour(zone, i) ==
    IF i + 1 \in DOMAIN zone /\ zone[i + 1] # Hole THEN zone[i + 1] ELSE Empty

\* What { ...targetPolygon[pointIndex] } copies.
OriginalPoint(zone, i) ==
    IF i \in DOMAIN zone /\ zone[i] # Hole THEN zone[i] ELSE Empty

References ==
    UNION {[zone : {z}, point : DOMAIN ZoneAt(z)] : z \in 0 .. ZoneCount}

SearchedBefore(r, s) == Earlier(<<r.zone, r.point>>, <<s.zone, s.point>>)

VertexAt(r) == ZoneAt(r.zone)[r.point]

\* getHitTarget(p) ends at the first vertex that is there, the hit, or that is
\* undefined, where it throws: one reference at most.
FirstStop(p) ==
    LET stops == {r \in References : VertexAt(r) \in {p, Hole}}
    IN  {r \in stops : \A s \in stops \ {r} : SearchedBefore(r, s)}

PointCount == Cardinality(References)

-----------------------------------------------------------------------------
EditorInit ==
    /\ completedZones = <<>>
    /\ currentZone = <<>>
    /\ isDrawingMode = FALSE
    /\ dragTarget = NoTarget
    /\ menuAt \in {"press", "release"}
    /\ menuDue = FALSE
    /\ interrupted = FALSE

\* Arrays leave the editor while a drag is on.
NoteInterruption == interrupted' = (interrupted \/ dragTarget # NoTarget)

MenuFollows(button, moment) == button = "right" /\ menuAt = moment

\* onMouseDown on a vertex, whichever the button.
Grab(button, p) ==
    /\ \E r \in FirstStop(p) : VertexAt(r) = p /\ dragTarget' = r
    /\ UNCHANGED currentZone

\* onMouseDown away from every vertex, in drawing mode.
AddPoint(button, p) ==
    /\ FirstStop(p) = {}
    /\ isDrawingMode
    /\ PointCount < MaxPoints
    /\ currentZone' = Append(currentZone, p)
    /\ UNCHANGED dragTarget

\* onMouseDown that hits nothing outside drawing mode, or throws on a hole.
PressInVain(button, p) ==
    /\ \A r \in FirstStop(p) : VertexAt(r) = Hole
    /\ isDrawingMode => FirstStop(p) # {}
    /\ UNCHANGED <<currentZone, dragTarget>>

OnMouseDown(button, p) ==
    /\ ~menuDue
    /\ \/ Grab(button, p)
       \/ AddPoint(button, p)
       \/ PressInVain(button, p)
    /\ menuDue' = MenuFollows(button, "press")
    /\ UNCHANGED <<completedZones, isDrawingMode, menuAt, interrupted>>

\* Slip: the rejected point is not taken back.
DraggedUnchecked(zone, i, p) == WriteAt(zone, i, p)

\* The polygon after onMouseMove moved its vertex i to p: the new point is
\* assigned first, and taken back only if isValidPolygon returned false.
Dragged(zone, i, p) ==
    LET moved == WriteAt(zone, i, p)
    IN  IF Throws(moved) \/ IsValidPolygon(moved)
        THEN moved
        ELSE WriteAt(moved, i, OriginalPoint(zone, i))

WithinBound(zone, i) ==
    i \notin DOMAIN zone => PointCount - Len(zone) + i =< MaxPoints

\* onMouseMove with a drag on.  Without one it only looks for a hover target;
\* a target in a zone that is gone raises a TypeError before the assignment.
OnMouseMove(p) ==
    /\ ~menuDue
    /\ dragTarget # NoTarget
    /\ \/ /\ dragTarget.zone = 0
          /\ WithinBound(currentZone, dragTarget.point)
          /\ currentZone' = Dragged(currentZone, dragTarget.point, p)
          /\ UNCHANGED completedZones
       \/ /\ dragTarget.zone \in 1 .. ZoneCount
          /\ WithinBound(completedZones[dragTarget.zone], dragTarget.point)
          /\ completedZones' =
                [completedZones EXCEPT ![dragTarget.zone] =
                    Dragged(@, dragTarget.point, p)]
          /\ UNCHANGED currentZone
    /\ UNCHANGED <<isDrawingMode, dragTarget, menuAt, menuDue, interrupted>>

\* onMouseUp, over the canvas; a button released elsewhere is not heard of.
OnMouseUp(button) ==
    /\ ~menuDue
    /\ dragTarget' = NoTarget
    /\ menuDue' = MenuFollows(button, "release")
    /\ UNCHANGED <<completedZones, currentZone, isDrawingMode, menuAt,
                   interrupted>>

MayClose == Len(currentZone) >= 3 /\ IsValidPolygon(currentZone)

\* The contextmenu handler: closeCurrentZone() in drawing mode.
CloseCurrentZone ==
    /\ menuDue
    /\ isDrawingMode
    /\ MayClose
    /\ completedZones' = Append(completedZones, currentZone)
    /\ currentZone' = <<>>
    /\ menuDue' = FALSE
    /\ NoteInterruption
    /\ UNCHANGED <<isDrawingMode, dragTarget, menuAt>>

\* Its early returns, its alerts, and isValidPolygon throwing on a hole.
RefuseToClose ==
    /\ menuDue
    /\ isDrawingMode => ~MayClose
    /\ menuDue' = FALSE
    /\ UNCHANGED <<completedZones, currentZone, isDrawingMode, dragTarget,
                   menuAt, interrupted>>

StartDrawingMode ==
    /\ ~menuDue
    /\ ~isDrawingMode
    /\ isDrawingMode' = TRUE
    /\ UNCHANGED <<completedZones, currentZone, dragTarget, menuAt, menuDue,
                   interrupted>>

StopDrawingMode ==
    /\ ~menuDue
    /\ isDrawingMode' = FALSE
    /\ currentZone' = <<>>
    /\ NoteInterruption
    /\ UNCHANGED <<completedZones, dragTarget, menuAt, menuDue>>

ClearAll ==
    /\ ~menuDue
    /\ completedZones' = <<>>
    /\ currentZone' = <<>>
    /\ NoteInterruption
    /\ UNCHANGED <<isDrawingMode, dragTarget, menuAt, menuDue>>

EditorNext ==
    \/ \E button \in Button, p \in Grid : OnMouseDown(button, p)
    \/ \E p \in Grid : OnMouseMove(p)
    \/ \E button \in Button : OnMouseUp(button)
    \/ CloseCurrentZone
    \/ RefuseToClose
    \/ StartDrawingMode
    \/ StopDrawingMode
    \/ ClearAll

EditorSpec == EditorInit /\ [][EditorNext]_editorVars

-----------------------------------------------------------------------------
(***************************************************************************)
(* Properties.                                                             *)
(***************************************************************************)
Zone == Seq(Vertex)

EditorTypeOK ==
    /\ completedZones \in Seq(Zone)
    /\ currentZone \in Zone
    /\ isDrawingMode \in BOOLEAN
    /\ dragTarget \in [zone : Nat, point : Nat \ {0}] \cup {NoTarget}
    /\ menuAt \in {"press", "release"}
    /\ menuDue \in BOOLEAN
    /\ interrupted \in BOOLEAN

Whole(zone) == \A i \in DOMAIN zone : zone[i] \in Grid

\* Segments with the ends of each strictly on either side of the other.
OppositeSides(p, q, a, b) ==
    \/ Side(p, q, a) > 0 /\ Side(p, q, b) < 0
    \/ Side(p, q, a) < 0 /\ Side(p, q, b) > 0

Crossed(zone) ==
    \E i, j \in DOMAIN zone :
        /\ i < j
        /\ j # After(zone, i)
        /\ i # After(zone, j)
        /\ OppositeSides(zone[i], zone[After(zone, i)],
                         zone[j], zone[After(zone, j)])
        /\ OppositeSides(zone[j], zone[After(zone, j)],
                         zone[i], zone[After(zone, i)])

\* A zone the editor would export has three vertices or more, and no two of its
\* edges cross, whatever was dragged since it was closed, in and out of drawing
\* mode, through rejected moves and through handlers that threw half-way.
\* Like the code it is about edges that cross: a zone whose vertices lie on
\* one line, or on one another, passes.
ZonesAreSimple ==
    \A z \in 1 .. ZoneCount :
        /\ Len(completedZones[z]) >= 3
        /\ Whole(completedZones[z]) => ~Crossed(completedZones[z])

\* As long as no zone was closed, abandoned or cleared under a drag, the drag
\* refers to a vertex that exists and no array has an undefined element, so
\* no handler throws.
IntactUnlessInterrupted ==
    ~interrupted =>
        /\ dragTarget \in References \cup {NoTarget}
        /\ \A z \in 0 .. ZoneCount : Whole(ZoneAt(z))

=============================================================================
