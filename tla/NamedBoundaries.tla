---------------------------- MODULE NamedBoundaries ----------------------------
(***************************************************************************)
(* The revisions of a geometry whose boundaries have names: what the       *)
(* schema accepts of an edit (geometry.py, called by Workspace.patch) and  *)
(* what the names then select (boundaries.py).                             *)
(*                                                                         *)
(* Coordinates are integers and tolerances below one are zero.  An all_of, *)
(* however nested, is the set of the selectors it comes to, all of which   *)
(* must hold; any other selector is a set of one.                          *)
(***************************************************************************)
EXTENDS Plane, FiniteSetsExt, SequencesExt

CONSTANTS
    Sketches,   \* the geometries as they are created
    Places,     \* where a client may put a point
    NewId,      \* the id a client gives to a point it inserts
    NoId,       \* it gives none
    Unknown,    \* a name no geometry declares
    MaxRevised  \* revisions after the first (a bound)

-----------------------------------------------------------------------------
(* What a geometry is *)

Point == Int \X Int
Rectangle == Int \X Int \X Int \X Int

Selector ==
    [type : {"part"}, of : STRING] \cup [type : {"points"}, ids : SUBSET STRING]
    \cup [type : {"near"}, axis : {1, 2}, value : Int, tol : Nat]
    \cup [type : {"box"}, bounds : Rectangle]

\* The one hole of a domain2d is its obstacle; any other name is that of a region.  A
\* selector of a region says "region:<name>", which no other part is called: here the
\* prefix is left out, and no region has another part's name.
Geometry ==
    {g \in [type : {"domain2d", "regions2d", "axisymmetric2d"}, bounds : Rectangle,
            polygons : Seq([name : STRING, points : Seq(Point), ids : Seq(STRING)]),
            boundaries : Seq([name : STRING, select : SUBSET Selector])] :
        IF g.type = "domain2d"
        THEN Len(g.polygons) = 1 /\ g.polygons[1].name = "obstacle"
        ELSE \A i \in DOMAIN g.polygons : g.polygons[i].name \notin {"obstacle", "outer"}}

ASSUME BoundariesAssumption ==
    /\ Sketches \subseteq Geometry /\ Places \subseteq Point
    /\ NewId \in STRING /\ NewId # NoId
    /\ MaxRevised \in Nat

VARIABLES
    drawn,      \* the geometry at its head revision
    former,     \* at the revision before
    revised,    \* how many patches were accepted
    asked       \* the name a solver resolved last, and where its predicate holds

boundaryVars == <<drawn, former, revised, asked>>

-----------------------------------------------------------------------------
(* What a client sends *)

PartSelector(of) == [type |-> "part", of |-> of]
PointsSelector(ids) == [type |-> "points", ids |-> ids]
NearSelector(axis, value, tol) == [type |-> "near", axis |-> axis, value |-> value, tol |-> tol]
BoxSelector(bounds) == [type |-> "box", bounds |-> bounds]
BoundarySpec(name, select) == [name |-> name, select |-> select]
Region2D(name, points, ids) == [name |-> name, points |-> points, ids |-> ids]

-----------------------------------------------------------------------------
(* What the schema accepts *)

\* _properly_intersect.  An end on the other segment counts as its right-hand side.
Crossing(p1, p2, p3, p4) ==
    /\ (Orient(p3, p4, p1) > 0) # (Orient(p3, p4, p2) > 0)
    /\ (Orient(p1, p2, p3) > 0) # (Orient(p1, p2, p4) > 0)

Edges(points) == {<<i, After(i, Len(points))>> : i \in DOMAIN points}

OutlinesCross(a, b) ==
    \E e \in Edges(a), f \in Edges(b) : Crossing(a[e[1]], a[e[2]], b[f[1]], b[f[2]])

\* Polygon2D.
SimpleOutline(points) ==
    /\ Len(points) >= 3
    /\ \A e \in Edges(points) : points[e[1]] # points[e[2]]
    /\ \A e, f \in Edges(points) :
          Cardinality(Range(e) \cup Range(f)) = 4 =>
              ~Crossing(points[e[1]], points[e[2]], points[f[1]], points[f[2]])

IdsFit(polygon) ==
    polygon.ids # <<>> => Len(polygon.ids) = Len(polygon.points) /\ IsInjective(polygon.ids)

\* SpannedEdges without the edge that closes the outline.
SpannedEdgesOpen(polygon, ids) ==
    LET chosen == {i \in DOMAIN polygon.ids : polygon.ids[i] \in ids} IN
    {<<i, i + 1>> : i \in {i \in chosen : i + 1 \in chosen}}

\* spanned_edges: the positions of the named points in order, each with the next one,
\* and the edge that closes the outline.
SpannedEdges(polygon, ids) ==
    LET chosen == {i \in DOMAIN polygon.ids : polygon.ids[i] \in ids} IN
    {<<i, i + 1>> : i \in {i \in chosen : i + 1 \in chosen}}
        \cup IF {Len(polygon.points), 1} \subseteq chosen THEN {<<Len(polygon.points), 1>>} ELSE {}

PointSelectors(select) == {s \in select : s.type = "points"}

BoundsFit(b) == b[1] < b[3] /\ b[2] < b[4]

SelectorFits(s) ==
    /\ s.type = "points" => Cardinality(s.ids) >= 2
    /\ s.type = "box" => BoundsFit(s.bounds)

BoundariesFit(g) ==
    LET known == UNION {Range(p.ids) : p \in Range(g.polygons)} IN
    /\ \A i, j \in DOMAIN g.boundaries : i # j => g.boundaries[i].name # g.boundaries[j].name
    /\ \A entry \in Range(g.boundaries) : \A s \in PointSelectors(entry.select) :
          /\ s.ids \subseteq known
          /\ \E p \in Range(g.polygons) : SpannedEdges(p, s.ids) # {}

ReachesAxis(g) == g.type = "axisymmetric2d" /\ g.bounds[1] = 0

\* Strictly inside, but for the left edge of a section that reaches the axis.
InsideBounds(g, at) ==
    LET b == g.bounds IN
    /\ at[2] \in (b[2] + 1)..(b[4] - 1)
    /\ at[1] \in (b[1] + 1)..(b[3] - 1) \/ (ReachesAxis(g) /\ at[1] = b[1])

\* Domain2D, Regions2D and Axisymmetric2D, the polygons' own validators first.
Accepted(g) ==
    /\ \A p \in Range(g.polygons) : IdsFit(p) /\ SimpleOutline(p.points)
    /\ \A entry \in Range(g.boundaries) : \A s \in entry.select : SelectorFits(s)
    /\ g.type = "axisymmetric2d" => g.bounds[1] >= 0
    /\ BoundsFit(g.bounds)
    /\ \A i, j \in DOMAIN g.polygons : i # j => g.polygons[i].name # g.polygons[j].name
    /\ \A p \in Range(g.polygons) : \A at \in Range(p.points) : InsideBounds(g, at)
    /\ \A i, j \in DOMAIN g.polygons :
          i < j => ~OutlinesCross(g.polygons[i].points, g.polygons[j].points)
    /\ BoundariesFit(g)

-----------------------------------------------------------------------------
(* What a name selects *)

\* On the segment between two points of an outline.
OnEdge(points, e, at) ==
    LET a == points[e[1]]
        b == points[e[2]] IN
    /\ Orient(a, b, at) = 0
    /\ (at[1] - a[1]) * (at[1] - b[1]) + (at[2] - a[2]) * (at[2] - b[2]) <= 0

OnOutline(points, at) == \E e \in Edges(points) : OnEdge(points, e, at)

\* The KeyErrors: a part that the geometry does not have.
Unresolvable(g, s) ==
    /\ s.type = "part" /\ s.of # "outer"
    /\ IF s.of = "obstacle" THEN g.type # "domain2d"
       ELSE g.type = "domain2d" \/ ~\E p \in Range(g.polygons) : p.name = s.of

\* _resolve, of one selector.
Selects(g, s, at) ==
    LET b == g.bounds IN
    CASE s.type = "near"   -> at[s.axis] - s.value \in (-s.tol)..s.tol
      [] s.type = "box"    -> at[1] \in s.bounds[1]..s.bounds[3] /\ at[2] \in s.bounds[2]..s.bounds[4]
      [] s.type = "points" -> \E p \in Range(g.polygons) : \E e \in SpannedEdges(p, s.ids) :
                                  OnEdge(p.points, e, at)
      [] s.type = "part" /\ s.of = "outer" -> at[1] \in {b[1], b[3]} \/ at[2] \in {b[2], b[4]}
      [] OTHER -> \E p \in Range(g.polygons) :
                      (s.of = "obstacle" \/ p.name = s.of) /\ OnOutline(p.points, at)

Window(g) == (g.bounds[1]..g.bounds[3]) \X (g.bounds[2]..g.bounds[4])

\* predicate: <<where it holds>>, or <<>> for the KeyError of a name that is not
\* declared or does not resolve.
Predicate(g, name) ==
    LET named == {entry \in Range(g.boundaries) : entry.name = name} IN
    IF \E entry \in named : ~\E s \in entry.select : Unresolvable(g, s)
    THEN <<{at \in Window(g) : \A entry \in named : \A s \in entry.select : Selects(g, s, at)}>>
    ELSE <<>>

-----------------------------------------------------------------------------
(* Revisions *)

PutIn(seq, i, x) == SubSeq(seq, 1, i) \o <<x>> \o SubSeq(seq, i + 1, Len(seq))

\* External: what a client makes of a polygon.  It moves a point, drops one, or inserts
\* one, which it may forget to give an id.
MovedPoint(p, i, at) == [p EXCEPT !.points[i] = at]
DroppedPoint(p, i) ==
    [p EXCEPT !.points = RemoveAt(@, i), !.ids = IF @ = <<>> THEN @ ELSE RemoveAt(@, i)]
InsertedPoint(p, i, at, id) ==
    [p EXCEPT !.points = PutIn(@, i, at),
              !.ids = IF @ = <<>> \/ id = NoId THEN @ ELSE PutIn(@, i, id)]

Edited(p) ==
    {MovedPoint(p, i, at) : i \in DOMAIN p.points, at \in Places}
    \cup {DroppedPoint(p, i) : i \in DOMAIN p.points}
    \cup {InsertedPoint(p, i, at, id) : i \in DOMAIN p.points, at \in Places, id \in {NewId, NoId}}

NotAsked == [name |-> Unknown, holds |-> <<>>]

\* Workspace.patch: what changes nothing and what does not validate is refused.
Patch(g) ==
    /\ g # drawn /\ Accepted(g)
    /\ drawn' = g /\ former' = drawn
    /\ revised' = revised + 1
    /\ asked' = NotAsked

EditOutline ==
    /\ revised < MaxRevised
    /\ \E k \in DOMAIN drawn.polygons : \E p \in Edited(drawn.polygons[k]) :
          Patch([drawn EXCEPT !.polygons[k] = p])

\* The window is moved instead.
EditBounds ==
    /\ revised < MaxRevised
    /\ \E i \in 1..4, by \in {-1, 1} : Patch([drawn EXCEPT !.bounds[i] = @ + by])

BoundariesInit ==
    /\ drawn \in {g \in Sketches : Accepted(g)}
    /\ former = drawn /\ revised = 0 /\ asked = NotAsked

\* A solver that is given the head looks up the boundaries its load case names.
Resolve ==
    /\ \E name \in {entry.name : entry \in Range(drawn.boundaries)} \cup {Unknown} :
          asked' = [name |-> name, holds |-> Predicate(drawn, name)]
    /\ UNCHANGED <<drawn, former, revised>>

BoundariesNext == EditOutline \/ EditBounds \/ Resolve

BoundariesSpec == BoundariesInit /\ [][BoundariesNext]_boundaryVars

-----------------------------------------------------------------------------
(* Properties *)

\* The ends of the edges whose two ends are both named.
NamedPairs(g, s) ==
    UNION {{{p.ids[e[1]], p.ids[e[2]]} : e \in {e \in Edges(p.points) :
                p.ids[e[1]] \in s.ids /\ p.ids[e[2]] \in s.ids}} :
           p \in {p \in Range(g.polygons) : p.ids # <<>>}}

\* A `points` selector that was accepted holds on the edges whose two ends are named,
\* of which there is one at least, from end to end, and nowhere else.
SelectionIsExact ==
    \A entry \in Range(drawn.boundaries) : \A s \in PointSelectors(entry.select) :
        /\ NamedPairs(drawn, s) # {}
        /\ \A at \in Window(drawn) :
              Selects(drawn, s, at) <=>
                  \E p \in Range(drawn.polygons) : \E i \in DOMAIN p.ids :
                      LET j == After(i, Len(p.ids)) IN
                      /\ {p.ids[i], p.ids[j]} \subseteq s.ids
                      /\ OnEdge(p.points, <<i, j>>, at)

\* The edges between points with ids.
EdgesOf(g) ==
    UNION {{[ids |-> {p.ids[e[1]], p.ids[e[2]]}, ends |-> <<p.points[e[1]], p.points[e[2]]>>] :
               e \in Edges(p.points)} : p \in {p \in Range(g.polygons) : p.ids # <<>>}}

\* The geometry drawn twice as large: the sum of an edge's ends is its middle.
DoubledOutline(p) == [p EXCEPT !.points = [i \in DOMAIN @ |-> <<2 * @[i][1], 2 * @[i][2]>>]]
Doubled(g) == [g EXCEPT !.polygons = [k \in DOMAIN @ |-> DoubledOutline(@[k])]]
Middle(ends) == <<ends[1][1] + ends[2][1], ends[1][2] + ends[2][2]>>

\* No other edge of the geometry lies on the edge.
Bare(g, ends) ==
    \A p, q \in Range(Doubled(g).polygons) : \A e \in Edges(p.points), f \in Edges(q.points) :
        OnEdge(p.points, e, Middle(ends)) /\ OnEdge(q.points, f, Middle(ends)) =>
            p = q /\ e = f

\* Whatever was inserted, moved or dropped elsewhere, an edge that is still there
\* between the same two ends is selected after an edit if it was before it.
SelectionSurvives ==
    \A entry \in Range(drawn.boundaries) : \A s \in PointSelectors(entry.select) :
        \A edge \in EdgesOf(former) \cap EdgesOf(drawn) :
            Bare(former, edge.ends) /\ Bare(drawn, edge.ends) =>
                (Selects(Doubled(former), s, Middle(edge.ends))
                     <=> Selects(Doubled(drawn), s, Middle(edge.ends)))

Scaled(points) == [i \in DOMAIN points |-> <<4 * points[i][1], 4 * points[i][2]>>]
\* Points between those of the lattice, on no line through two near ones.
Samples(g) ==
    {<<4 * x + 1, 4 * y + 2>> : x \in g.bounds[1]..g.bounds[3], y \in g.bounds[2]..g.bounds[4]}
    \cup {<<4 * x + 3, 4 * y + 1>> : x \in g.bounds[1]..g.bounds[3], y \in g.bounds[2]..g.bounds[4]}
Within(g, p) == {at \in Samples(g) : InPolygon(at, Scaled(p.points))}

\* Twice the area, positive when the outline runs counterclockwise.
Winding(points) ==
    MapThenSumSet(LAMBDA e : Cross(points[e[1]], points[e[2]]), Edges(points))

\* Two regions of one map are apart or one lies in the other, if their outlines run
\* counterclockwise.  (Clockwise ones may overlap along an edge: see the README.)
RegionsAreClear ==
    \A i, j \in DOMAIN drawn.polygons :
        i < j /\ Winding(drawn.polygons[i].points) > 0 /\ Winding(drawn.polygons[j].points) > 0 =>
            LET a == Within(drawn, drawn.polygons[i])
                b == Within(drawn, drawn.polygons[j]) IN
            a \cap b = {} \/ a \subseteq b \/ b \subseteq a

\* A radius is never negative, and whoever looks for the axis finds it: on a section
\* that reaches it, the points of the outline at r = 0 are those `near` r = 0.
RadiiAreRadii ==
    drawn.type = "axisymmetric2d" =>
        /\ \A p \in Range(drawn.polygons) : \A at \in Range(p.points) : at[1] >= 0
        /\ (\E p \in Range(drawn.polygons) : \E at \in Range(p.points) : at[1] = 0)
               => ReachesAxis(drawn)

\* A name fails aloud if it is not declared or asks for a part that is not there; a
\* selection by ids or by part is never empty, and that of a part has all its points.
NamesResolve ==
    LET entries == {entry \in Range(drawn.boundaries) : entry.name = asked.name}
        missing(s) == s.type = "part" /\ s.of # "outer"
                          /\ s.of \notin {p.name : p \in Range(drawn.polygons)} IN
    IF asked.holds = <<>>
    THEN asked.name = Unknown \/ \E entry \in entries : \E s \in entry.select : missing(s)
    ELSE \A entry \in entries :
        /\ \A s \in entry.select : ~missing(s)
        /\ \A s \in entry.select :
              /\ entry.select = {s} /\ s.type \in {"points", "part"} => asked.holds[1] # {}
              /\ entry.select = {s} /\ s.type = "part" /\ s.of # "outer" =>
                    \E p \in Range(drawn.polygons) :
                        p.name = s.of /\ Range(p.points) \subseteq asked.holds[1]

\* However a geometry is edited, a name resolves to what was declared, keeps the edges
\* it had, and radii stay radii (boundaries.py, geometry.py).
BoundariesFollow == NamesResolve /\ SelectionIsExact /\ SelectionSurvives /\ RadiiAreRadii
=============================================================================
