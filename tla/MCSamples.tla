------------------------------ MODULE MCSamples ------------------------------
(* Results, questions about them and geometries, for MCEdges. *)
EXTENDS FieldQueries, NamedBoundaries

\* Temperatures on a small grid, whole and with part of it masked, on one that is
\* masked all over, on one a row high whose mask does not fit, on a long one with
\* several peaks, and on two meshes.
Grid(shape, size, scalars, mask, supplied) ==
    [kind |-> "grid2d", shape |-> shape, size |-> size, scalars |-> scalars,
     vectors |-> {"velocity"}, mask |-> mask, points |-> <<>>, triangles |-> <<>>,
     supplied |-> supplied, supplies |-> <<9, 1>>]
Mesh(points, triangles, scalars) ==
    [kind |-> "mesh2d", shape |-> <<0, 0>>, size |-> <<4, 4>>, scalars |-> scalars,
     vectors |-> {}, mask |-> <<>>, points |-> points, triangles |-> triangles,
     supplied |-> {}, supplies |-> <<9, 1>>]
Metric(field, reduction, boundary, over) ==
    [field |-> field, reduction |-> reduction, boundary |-> boundary, over |-> over]
Metrics ==
    {Metric("T", "max", Unnamed, "payload"), Metric("T", "mean", Unnamed, "payload"),
     Metric("gone", "max", Unnamed, "payload"), Metric(Unnamed, Unnamed, Unnamed, "run"),
     Metric(Unnamed, Unnamed, "body", "payload"), Metric("T", "max", Unnamed, "run"),
     Metric("T", "integral", "body", "payload"), Metric("T", Unnamed, Unnamed, "payload")}
Supplied == {Metric("T", "mean", Unnamed, "payload"), Metric(Unnamed, Unnamed, Unnamed, "run")}
Sloped == <<1, 5, 9, 3, 7, 11, 5, 9, 13>>
Rough == <<4, 0, 2, 6, 1, 6, 0, 3, 5>>
Hilly == <<5, 5, 4, 3, 2, 2, 3, 3, 2, 1, 4, 6, 1, 1, 1, 0, 7, 7, 7, 5, 0, 2, 2, 6>>
Corners == <<<<0, 0>>, <<4, 0>>, <<4, 4>>, <<0, 4>>, <<2, 2>>>>
Temperatures ==
    {Grid(<<3, 3>>, <<4, 4>>, [T |-> Sloped, q |-> Rough], <<>>, {}),
     Grid(<<3, 3>>, <<4, 4>>, [T |-> Rough, q |-> Sloped], <<0, 0, 0, 1, 1, 0, 1, 1, 0>>, Supplied),
     Grid(<<3, 3>>, <<4, 4>>, [T |-> Rough, q |-> <<1, 2>>], [i \in 1..9 |-> 1], {}),
     Grid(<<1, 3>>, <<4, 4>>, [T |-> <<2, 4, 1>>], <<0, 1>>, {}),
     Grid(<<2, 12>>, <<11, 1>>, [T |-> Hilly],
          [i \in 1..24 |-> IF i \in {17, 5} THEN 1 ELSE 0], {}),
     Mesh(Corners, <<<<1, 2, 5>>, <<2, 3, 5>>, <<3, 4, 5>>, <<4, 5, 1>>>>,
          [T |-> <<1, 5, 9, 5, 5>>, q |-> <<3, 1, 0, 7, 2>>]),
     Mesh(SubSeq(Corners, 1, 4), <<<<1, 2, 3>>>>, [T |-> <<1, 6, 9, 5>>])}

\* Every operation, with budgets on either side of the ceilings and points on and off
\* the domain, and a region that is there, is empty, or is not there.
CoreAndRim == <<[name |-> "core", points |-> <<<<1, 0>>, <<5, 1>>, <<3, 3>>, <<1, 3>>>>],
                [name |-> "rim", points |-> <<<<9, 9>>, <<10, 9>>, <<10, 10>>>>]>>
Questionnaire ==
    {FieldQuery(op, f) :
        op \in {"max", "min", "mean", "integral", "sample"}, f \in {"T", "q", "gone", "velocity"}}
    \cup {[FieldQuery("at_point", f) EXCEPT !.from = <<x, y>>] :
              x, y \in {0, 1, 3, 4, 7, 8, 9}, f \in {"T", "q"}}
    \cup {[FieldQuery("section", "T") EXCEPT !.from = a, !.to = b, !.samples = n] :
              a \in {<<0, 0>>, <<1, 3>>}, b \in {<<4, 4>>, <<5, 1>>, <<>>},
              n \in {Unsaid, 0, 1, 3, 9}}
    \cup {[FieldQuery("sample", "T") EXCEPT !.samples = n] : n \in {0, 1, 2, 3, 9}}
    \cup {[FieldQuery("hotspots", "T") EXCEPT !.count = n, !.minimum = m] :
              n \in {Unsaid, 0, 1, 2}, m \in BOOLEAN}
    \cup {[FieldQuery("over_region", f) EXCEPT !.region = r, !.recorded = g # "inline",
                        !.geometry = IF g = "regions" THEN CoreAndRim ELSE <<>>] :
              f \in {"T", "gone"}, r \in {Unnamed, "core", "rim", "hub"},
              g \in {"inline", "obstacle", "regions"}}

\* A body with a hole, two regions side by side, one within another, and a section that
\* touches the axis; ids on some of the outlines, one of them in two.
Lower == BoxSelector(<<0, 0, 4, 2>>)
Square(x, y, w, h) == <<<<x, y>>, <<x + w, y>>, <<x + w, y + h>>, <<x, y + h>>>>
Drawing(type, polygons, boundaries) ==
    [type |-> type, bounds |-> <<0, 0, 5, 5>>, polygons |-> polygons, boundaries |-> boundaries]
Letters == <<"a", "b", "c", "d">>
Blank == Drawing("domain2d", <<Region2D("obstacle", Square(1, 1, 2, 2), <<>>)>>, <<>>)
Drawings ==
    {Blank,
     Drawing("domain2d", <<Region2D("obstacle", Square(1, 1, 2, 2), Letters)>>,
        <<BoundarySpec("root", {PointsSelector({"a", "b", "d"})}),
          BoundarySpec("tip",  {PointsSelector({"a", "c", "d"}), Lower}),
          BoundarySpec("hole", {PartSelector("obstacle")}),
          BoundarySpec("rim",  {PartSelector("outer"), NearSelector(1, 0, 0)}),
          BoundarySpec("core", {PartSelector("core")})>>),
     Drawing("regions2d",
        <<Region2D("core", Square(1, 1, 2, 2), Letters), Region2D("coil", Square(3, 1, 1, 2), <<>>)>>,
        <<>>),
     Drawing("regions2d",
        <<Region2D("coil", Square(1, 1, 3, 3), Letters),
          Region2D("core", <<<<2, 2>>, <<3, 2>>, <<3, 3>>>>, <<"p", "b", "a">>)>>,
        <<BoundarySpec("joint", {PointsSelector({"a", "b"})}),
          BoundarySpec("core",  {PartSelector("core")})>>),
     Drawing("axisymmetric2d",
        <<Region2D("shaft", Square(0, 1, 1, 2), Letters), Region2D("plate", Square(2, 1, 1, 2), <<>>)>>,
        <<BoundarySpec("axis", {NearSelector(1, 0, 0), PointsSelector({"a", "d"})}),
          BoundarySpec("top",  {PointsSelector({"c", "d"})})>>)}
SomePlaces == {<<0, 2>>, <<2, 1>>, <<2, 3>>, <<3, 2>>, <<4, 3>>}

\* What is known of points, outlines and triangles: what lies in an outline, when two
\* are apart, and that quadrature is exact where it should be.
PlaneIsRight == RegionsAreRight /\ RegionsAreClear /\ IntegrationIsExact
=============================================================================
