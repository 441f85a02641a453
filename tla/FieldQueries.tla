----------------------------- MODULE FieldQueries -----------------------------
(***************************************************************************)
(* Bounded questions about one field of a result: fields.py, the region it *)
(* is asked over (core/results.py, FenixSpoonCore._region_mask) and the    *)
(* metrics a capability declares as reductions (solvers/base.py).          *)
(*                                                                         *)
(* A result is a grid whose mask marks the points that were not solved and *)
(* carry a filler, or a mesh of triangles.  Coordinates are integers from  *)
(* the lower left corner; a number in an answer is a fraction <<n, d>>,    *)
(* d > 0.  Formatting, and the rounding of floats, are left out.           *)
(***************************************************************************)
EXTENDS Plane, FiniteSetsExt, SequencesExt

CONSTANTS
    Payloads,                                 \* the results asked about
    Questions,                                \* FieldQuery, with the job's geometry
    Declared,                                 \* the metrics a capability would declare
    MaxSamples, DefaultSamples, MaxHotspots,  \* the ceilings
    Coefficients                              \* of the linear fields that are looked for

VARIABLES solved, question, reply, picks

fieldVars == <<solved, question, reply, picks>>

Unsaid == -1
Nothing == <<>>
Unnamed == ""

Refused(why) == [refused |-> why]
Is(a) == a # Nothing /\ "refused" \notin DOMAIN a

FieldQuery(op, field) ==
    [op |-> op, field |-> field,
     from |-> <<0, 0>>, to |-> <<>>,   \* `at` or `start`, and `end`
     samples |-> Unsaid, count |-> Unsaid, minimum |-> FALSE, region |-> Unnamed,
     recorded |-> FALSE, geometry |-> <<>>]   \* the job's own: its geometry's regions

-----------------------------------------------------------------------------
(* What is asked, and of what *)

Query ==
    [op : {"max", "min", "mean", "integral", "at_point", "section", "sample", "hotspots",
           "over_region"},
     field : STRING, from : Seq(Int), to : Seq(Int), samples : Int, count : Int,
     minimum : BOOLEAN, region : STRING, recorded : BOOLEAN,
     geometry : Seq([name : STRING, points : Seq(Int \X Int)])]

MetricSpec ==
    [field : STRING, reduction : {"max", "min", "mean", "integral", Unnamed},
     boundary : STRING, over : {"payload", "run"}]

Payload(names) ==
    [kind : {"grid2d", "mesh2d"}, shape : Nat \X Nat, size : Nat \X Nat,
     scalars : [names -> Seq(Int)], vectors : SUBSET STRING, mask : Seq({0, 1}),
     points : Seq(Int \X Int), triangles : Seq(Seq(Nat)),
     supplied : SUBSET MetricSpec, supplies : Int \X Nat]

-----------------------------------------------------------------------------
(* A field *)

Columns(p) == p.shape[2]
Rows(p) == p.shape[1]
Step(extent, n) == IF n > 1 THEN extent \div (n - 1) ELSE 1
StepX(p) == Step(p.size[1], Columns(p))
StepY(p) == Step(p.size[2], Rows(p))

\* The lattice has a point at least, its steps are whole and it fills the rectangle.
GridFits(p) ==
    /\ Columns(p) > 0 /\ StepX(p) > 0 /\ Rows(p) > 0 /\ StepY(p) > 0
    /\ Columns(p) > 1 => StepX(p) * (Columns(p) - 1) = p.size[1]
    /\ Rows(p) > 1 => StepY(p) * (Rows(p) - 1) = p.size[2]

Points(p) ==
    IF p.kind = "mesh2d" THEN p.points
    ELSE [i \in 1..(Columns(p) * Rows(p)) |->
             <<((i - 1) % Columns(p)) * StepX(p), ((i - 1) \div Columns(p)) * StepY(p)>>]

\* load: the reasons it raises FieldError for, then what it returns.
Unloadable(p, name) ==
    IF name \notin DOMAIN p.scalars THEN IF name \in p.vectors THEN "is a vector" ELSE "no field"
    ELSE IF Len(p.scalars[name]) # Len(Points(p)) THEN "malformed"
    ELSE "no"

Values(p, name) == p.scalars[name]

\* A mask of another size than the field counts for nothing.
Valid(p, name) ==
    {i \in DOMAIN Values(p, name) :
        p.kind = "grid2d" /\ Len(p.mask) = Len(Values(p, name)) => p.mask[i] = 0}

-----------------------------------------------------------------------------
(* Reductions *)

\* flatnonzero: the members of a set of numbers in order.
Ascending(S) ==
    [k \in 1..Cardinality(S) |-> CHOOSE i \in S : Cardinality({j \in S : j <= i}) = k]

\* argmax and argmin take the first of several.
First(p, name, S, sign) ==
    LET v == Values(p, name) IN
    Min({i \in S : \A k \in S : sign * v[k] <= sign * v[i]})

Extremum(p, name, sign) ==
    IF Valid(p, name) = {} THEN Refused("nothing solved")
    ELSE LET i == First(p, name, Valid(p, name), sign) IN
         [value |-> <<Values(p, name)[i], 1>>, at |-> i]

Abs(k) == IF k < 0 THEN -k ELSE k
\* Twice the area of triangle t.
Area2(p, t) ==
    LET c == [k \in 1..3 |-> p.points[p.triangles[t][k]]] IN
    Abs(Cross(From(c[1], c[2]), From(c[1], c[3])))

\* Six times the third of the area of its triangles that belongs to a node.
DualArea(p, i) ==
    SumFunction([t \in {t \in DOMAIN p.triangles : \E k \in 1..3 : p.triangles[t][k] = i} |->
                     Area2(p, t)])

\* A mesh is of triangles with an area; each has three of the points for corners.
MeshFits(p) ==
    \A t \in DOMAIN p.triangles :
        /\ Len(p.triangles[t]) = 3 /\ \A k \in 1..3 : p.triangles[t][k] \in DOMAIN p.points
        /\ Area2(p, t) > 0

ASSUME FieldsAssumption ==
    /\ MaxSamples \in Nat \ {0} /\ DefaultSamples \in Nat \ {0} /\ MaxHotspots \in Nat \ {0}
    /\ Declared \subseteq MetricSpec
    /\ \A p \in Payloads : /\ p \in Payload(DOMAIN p.scalars)
                          /\ IF p.kind = "grid2d" THEN GridFits(p) ELSE MeshFits(p)
    /\ Questions \subseteq Query /\ Coefficients \subseteq Int

Mean(p, name) ==
    LET v == Values(p, name)
        live == Valid(p, name)
        total == SumFunction([i \in live |-> DualArea(p, i)]) IN
    IF p.kind = "grid2d"
    THEN IF live = {} THEN Refused("nothing solved")
         ELSE [value |-> <<SumFunctionOnSet(v, live), Cardinality(live)>>]
    ELSE IF total <= 0 THEN Refused("no area")
         ELSE [value |-> <<SumFunction([i \in live |-> v[i] * DualArea(p, i)]), total>>]

\* Quadrature without the halves at the rim.
QuadraturePlain(p, i) == 4

\* Four times the trapezoidal weight of a grid point, in cells.
Quadrature(p, i) ==
    LET half(k, n) == IF n > 1 /\ k \in {0, n - 1} THEN 1 ELSE 2 IN
    half((i - 1) % Columns(p), Columns(p)) * half((i - 1) \div Columns(p), Rows(p))

Integral(p, name) ==
    LET v == Values(p, name)
        live == Valid(p, name)
        cell == StepX(p) * StepY(p)
        sum(t) == v[p.triangles[t][1]] + v[p.triangles[t][2]] + v[p.triangles[t][3]] IN
    IF p.kind = "grid2d"
    THEN IF Columns(p) < 2 \/ Rows(p) < 2 THEN Refused("degenerate grid")
         ELSE [value |-> <<cell * SumFunction([i \in live |-> v[i] * Quadrature(p, i)]), 4>>,
               area  |-> <<cell * SumFunction([i \in live |-> Quadrature(p, i)]), 4>>]
    ELSE [value |-> <<SumFunction([t \in DOMAIN p.triangles |-> sum(t) * Area2(p, t)]), 6>>,
          area  |-> <<SumFunction([t \in DOMAIN p.triangles |-> Area2(p, t)]), 2>>]

-----------------------------------------------------------------------------
(* Interpolation at (X/D, Y/D) *)

Below(q, n) == IF n > 1 THEN Min({q, n - 2}) ELSE 0

\* The four corners of the cell and their bilinear weights.
Stencil(p, X, Y, D) ==
    LET w == StepX(p) * D
        h == StepY(p) * D
        ix == Below(X \div w, Columns(p))
        iy == Below(Y \div h, Rows(p))
        part(extent, t, d) == IF d = 0 THEN extent - t ELSE t
        corner(dx, dy) ==
            [at |-> Min({iy + dy, Rows(p) - 1}) * Columns(p) + Min({ix + dx, Columns(p) - 1}) + 1,
             weight |-> part(w, X - ix * w, dx) * part(h, Y - iy * h, dy)] IN
    <<corner(0, 0), corner(1, 0), corner(0, 1), corner(1, 1)>>

Four(f) == f[1] + f[2] + f[3] + f[4]

OnGrid(p, X, Y, D) == X \in 0..(p.size[1] * D) /\ Y \in 0..(p.size[2] * D)

\* GridAtPoint blending in what the corners that were not solved hold.
GridAtPointBlended(p, name, X, Y, D) ==
    LET corners == Stencil(p, X, Y, D)
        live(k) == corners[k].at \in Valid(p, name)
        total == Four([k \in 1..4 |-> IF live(k) THEN corners[k].weight ELSE 0])
        all == Four([k \in 1..4 |-> corners[k].weight]) IN
    IF ~OnGrid(p, X, Y, D) THEN Refused("outside")
    ELSE IF total <= 0 THEN Refused("masked")
    ELSE [value |-> <<Four([k \in 1..4 |-> corners[k].weight * Values(p, name)[corners[k].at]]), all>>]

\* Corners that were not solved are left out and the weights of the rest made up to one.
GridAtPoint(p, name, X, Y, D) ==
    LET corners == Stencil(p, X, Y, D)
        live(k) == corners[k].at \in Valid(p, name)
        total == Four([k \in 1..4 |-> IF live(k) THEN corners[k].weight ELSE 0])
        sum == Four([k \in 1..4 |->
                  IF live(k) THEN corners[k].weight * Values(p, name)[corners[k].at] ELSE 0]) IN
    IF ~OnGrid(p, X, Y, D) THEN Refused("outside")
    ELSE IF total <= 0 THEN Refused("masked")
    ELSE [value |-> <<sum, total>>]

\* The barycentric weights of a point in triangle t, times the denominator, which is
\* not zero: the meshers make no triangle without area.
Barycentric(p, t, X, Y, D) ==
    LET c == [k \in 1..3 |-> p.points[p.triangles[t][k]]]
        v0 == From(c[1], c[2])
        v1 == From(c[1], c[3])
        v2 == <<X - c[1][1] * D, Y - c[1][2] * D>>
        sign == IF Cross(v0, v1) < 0 THEN -1 ELSE 1
        a == sign * Cross(v2, v1)
        b == sign * Cross(v0, v2) IN
    [whole |-> Abs(Cross(v0, v1)) * D, a |-> a, b |-> b]

MeshAtPoint(p, name, X, Y, D) ==
    LET v == Values(p, name)
        holds(w) == w.a >= 0 /\ w.b >= 0 /\ w.whole - w.a - w.b >= 0
        inside == {t \in DOMAIN p.triangles : holds(Barycentric(p, t, X, Y, D))}
        t == Min(inside)
        w == Barycentric(p, t, X, Y, D)
        n == p.triangles[t] IN
    IF inside = {} THEN Refused("outside")
    ELSE [value |-> <<v[n[1]] * (w.whole - w.a - w.b) + v[n[2]] * w.a + v[n[3]] * w.b, w.whole>>]

AtPoint(p, name, X, Y, D) ==
    IF p.kind = "grid2d" THEN GridAtPoint(p, name, X, Y, D) ELSE MeshAtPoint(p, name, X, Y, D)

-----------------------------------------------------------------------------
(* Many points *)

Budget(requested, ceiling) ==
    Min({IF requested = Unsaid THEN DefaultSamples ELSE requested, ceiling})

\* Point k of a section, over the common denominator.
SectionAt(p, name, q, count, k) ==
    LET D == IF count > 1 THEN count - 1 ELSE 1 IN
    AtPoint(p, name, q.from[1] * D + k * (q.to[1] - q.from[1]),
                     q.from[2] * D + k * (q.to[2] - q.from[2]), D)

Section(p, name, q) ==
    LET count == Budget(q.samples, MaxSamples)
        kept == Ascending({k \in 0..(count - 1) : Is(SectionAt(p, name, q, count, k))}) IN
    IF q.samples # Unsaid /\ q.samples < 1 THEN Refused("budget")
    ELSE IF kept = <<>> THEN Refused("nothing solved")
    ELSE [values |-> [i \in DOMAIN kept |-> SectionAt(p, name, q, count, kept[i]).value],
          at |-> kept, requested |-> count, skipped |-> count - Len(kept)]

Sample(p, name, q) ==
    LET count == Budget(q.samples, MaxSamples)
        live == Ascending(Valid(p, name))
        n == Len(live)
        even(k) == IF count = 1 THEN 1 ELSE ((k - 1) * (n - 1)) \div (count - 1) + 1
        kept == IF n > count THEN [k \in 1..count |-> live[even(k)]] ELSE live IN
    IF q.samples # Unsaid /\ q.samples < 1 THEN Refused("budget")
    ELSE IF live = <<>> THEN Refused("nothing solved")
    ELSE [values |-> [k \in DOMAIN kept |-> <<Values(p, name)[kept[k]], 1>>],
          at |-> kept, of |-> n]

\* Whether two points are no nearer than a tenth of the diagonal.
Apart(p, i, k) ==
    100 * Distance2(Points(p)[i], Points(p)[k])
        >= p.size[1] * p.size[1] + p.size[2] * p.size[2]

\* Where the next hotspot may be: equal values are sorted in any order.
Candidates(p, q, chosen) ==
    LET v == Values(p, q.field)
        sign == IF q.minimum THEN -1 ELSE 1
        left == {i \in Valid(p, q.field) : \A k \in DOMAIN chosen :
                    i # chosen[k] /\ Apart(p, i, chosen[k])} IN
    IF Len(chosen) >= Budget(q.count, MaxHotspots) THEN {}
    ELSE {i \in left : \A k \in left : sign * v[k] <= sign * v[i]}

-----------------------------------------------------------------------------
(* Regions *)

\* _region_mask and region_selection.  The field is loaded outside the try block
\* that turns a FieldError into an answer.
Unresolved(p, q) ==
    IF q.region = Unnamed THEN "no region asked for"
    ELSE IF ~q.recorded THEN "inline geometry"
    ELSE IF Unloadable(p, q.field) # "no" THEN "crash"
    ELSE IF q.geometry = <<>> THEN "no named regions"
    ELSE IF ~\E r \in DOMAIN q.geometry : q.geometry[r].name = q.region THEN "no such region"
    ELSE "no"

InRegion(p, q) ==
    LET r == Min({r \in DOMAIN q.geometry : q.geometry[r].name = q.region}) IN
    {i \in DOMAIN Points(p) : InPolygon(Points(p)[i], q.geometry[r].points)}

OverRegion(p, q) ==
    LET v == Values(p, q.field)
        selected == InRegion(p, q) \cap Valid(p, q.field) IN
    IF selected = {} THEN Refused("nothing solved")
    ELSE [count |-> Cardinality(selected),
          min |-> v[First(p, q.field, selected, -1)], max |-> v[First(p, q.field, selected, 1)],
          value |-> <<SumFunctionOnSet(v, selected), Cardinality(selected)>>,
          at |-> First(p, q.field, selected, 1)]

-----------------------------------------------------------------------------
(* Asking *)

Reduce(p, name, reduction) ==
    IF Unloadable(p, name) # "no" THEN Refused(Unloadable(p, name))
    ELSE CASE reduction = "max" -> Extremum(p, name, 1)
           [] reduction = "min" -> Extremum(p, name, -1)
           [] reduction = "mean" -> Mean(p, name)
           [] reduction = "integral" -> Integral(p, name)

\* Every operation but hotspots, which takes a step for each pick.
Answer(p, q) ==
    IF q.op = "over_region" /\ Unresolved(p, q) # "no" THEN Refused(Unresolved(p, q))
    ELSE IF Unloadable(p, q.field) # "no" THEN Refused(Unloadable(p, q.field))
    ELSE CASE q.op \in {"max", "min", "mean", "integral"} -> Reduce(p, q.field, q.op)
           [] q.op = "at_point" -> IF Len(q.from) # 2 THEN Refused("no point")
                                   ELSE AtPoint(p, q.field, q.from[1], q.from[2], 2)
           [] q.op = "section" -> IF Len(q.from) # 2 \/ Len(q.to) # 2 THEN Refused("no line")
                                  ELSE Section(p, q.field, q)
           [] q.op = "sample" -> Sample(p, q.field, q)
           [] q.op = "over_region" -> OverRegion(p, q)

FieldsInit ==
    /\ solved \in Payloads
    /\ question = Nothing /\ reply = Nothing /\ picks = <<>>

Spreads(p, q) ==
    /\ q.op = "hotspots" /\ Unloadable(p, q.field) = "no"
    /\ Valid(p, q.field) # {} /\ (q.count # Unsaid => q.count >= 1)

Ask ==
    /\ question = Nothing
    /\ \E q \in Questions :
         /\ question' = q
         /\ reply' = IF Spreads(solved, q) THEN Nothing
                      ELSE IF q.op = "hotspots"
                           THEN Refused(IF Unloadable(solved, q.field) # "no"
                                        THEN Unloadable(solved, q.field)
                                        ELSE IF q.count # Unsaid /\ q.count < 1 THEN "budget"
                                        ELSE "nothing solved")
                           ELSE Answer(solved, q)
    /\ UNCHANGED <<solved, picks>>

\* One turn of the loop over the sorted points.
PickHotspot ==
    /\ question # Nothing /\ question.op = "hotspots" /\ reply = Nothing
    /\ LET next == Candidates(solved, question, picks) IN
       \/ /\ next # {}
          /\ \E i \in next : picks' = Append(picks, i)
          /\ UNCHANGED reply
       \/ /\ next = {}
          /\ reply' = [values |-> [k \in DOMAIN picks |->
                                       <<Values(solved, question.field)[picks[k]], 1>>],
                        at |-> picks]
          /\ UNCHANGED picks
    /\ UNCHANGED <<solved, question>>

\* MetricSpec: a recipe is a field and its reduction, both or neither, and only of
\* what is in the payload.
HasRecipe(m) ==
    /\ m.field = Unnamed <=> m.reduction = Unnamed
    /\ m.field # Unnamed => m.boundary = Unnamed /\ m.over = "payload"

\* fill_declared_metrics: a metric the adapter supplied stays; of the others, those
\* with a recipe are reduced; what cannot be reduced is left out.
FilledMetrics(p) ==
    LET reducible == {m \in Declared : HasRecipe(m) /\ m.field # Unnamed
                                       /\ Is(Reduce(p, m.field, m.reduction))}
        value(m) == IF m \in p.supplied THEN p.supplies ELSE Reduce(p, m.field, m.reduction).value IN
    [m \in p.supplied \cup reducible |-> value(m)]

FillMetrics ==
    /\ question = Nothing
    /\ question' = [op |-> "metrics"]
    /\ reply' = [metrics |-> FilledMetrics(solved)]
    /\ UNCHANGED <<solved, picks>>

FieldsNext == Ask \/ PickHotspot \/ FillMetrics

FieldsSpec == FieldsInit /\ [][FieldsNext]_fieldVars

-----------------------------------------------------------------------------
(* Properties *)

AnswerTo(op) == question # Nothing /\ question.op \in op /\ Is(reply)

\* The same result with another filler under its mask.
Refilled ==
    [solved EXCEPT !.scalars = [n \in DOMAIN @ |->
        [i \in DOMAIN @[n] |-> IF i \in Valid(solved, n) THEN @[n][i] ELSE @[n][i] + 7]]]

\* What the mask hides reaches no answer and no metric (fields.py:113).
FillerNeverCounts ==
    reply # Nothing =>
        CASE question.op = "hotspots" -> Is(reply) =>
                 Range(reply.at) \subseteq Valid(solved, question.field)
          [] question.op = "metrics" -> reply.metrics = FilledMetrics(Refilled)
          [] OTHER -> reply = Answer(Refilled, question)

Between(x, name) ==
    \E lo, hi \in Valid(solved, name) :
        Values(solved, name)[lo] * x[2] <= x[1] /\ x[1] <= Values(solved, name)[hi] * x[2]

\* A value that is read lies between two that were solved, no answer is longer than its
\* ceiling, and what is said of a region is said of solved points in it.
AnswersAreBounded ==
    /\ AnswerTo({"max", "min", "mean", "at_point", "over_region"}) =>
           Between(reply.value, question.field)
    /\ AnswerTo({"section", "sample", "hotspots"}) =>
         /\ \A k \in DOMAIN reply.values : Between(reply.values[k], question.field)
         /\ Len(reply.values) = Len(reply.at)
         /\ Len(reply.at) \in 1..(IF question.op = "hotspots" THEN MaxHotspots ELSE MaxSamples)
    /\ AnswerTo({"over_region"}) =>
         /\ reply.at \in InRegion(solved, question) \cap Valid(solved, question.field)
         /\ reply.min * reply.value[2] <= reply.value[1]
         /\ reply.value[1] <= reply.max * reply.value[2]

\* Whether nothing of the field is masked and it is a + bx + cy.
Linear(name, a, b, c) ==
    /\ Valid(solved, name) = DOMAIN Points(solved)
    /\ \A i \in Valid(solved, name) :
          Values(solved, name)[i] = a + b * Points(solved)[i][1] + c * Points(solved)[i][2]

\* Interpolating a linear field is exact wherever there is an answer, at one point and
\* at each of a section, in any cell and any triangle.  One line of points has no slope
\* across it.
InterpolationIsExact ==
    \A a, b, c \in Coefficients :
        LET q == question
            sloped == solved.kind = "grid2d" => (Columns(solved) > 1 \/ b = 0) /\ (Rows(solved) > 1 \/ c = 0)
            exact(x, X, Y, D) == D * x[1] = x[2] * (a * D + b * X + c * Y) IN
        /\ AnswerTo({"at_point"}) /\ Linear(q.field, a, b, c) /\ sloped =>
               exact(reply.value, q.from[1], q.from[2], 2)
        /\ AnswerTo({"section"}) /\ Linear(q.field, a, b, c) /\ sloped =>
               LET D == IF reply.requested > 1 THEN reply.requested - 1 ELSE 1
                   along(s, k) == q.from[s] * D + k * (q.to[s] - q.from[s]) IN
               \A i \in DOMAIN reply.at :
                   exact(reply.values[i], along(1, reply.at[i]), along(2, reply.at[i]), D)

\* Quadrature of a linear field is exact on a grid, and on a mesh that covers the
\* rectangle.
IntegrationIsExact ==
    AnswerTo({"integral"}) =>
        \A a, b, c \in Coefficients :
            LET w == solved.size[1]
                h == solved.size[2] IN
            Linear(question.field, a, b, c) =>
                2 * reply.value[1] = reply.value[2] * w * h * (2 * a + b * w + c * h)

\* Hotspots are apart, none is passed over for a lesser one, and the search ends
\* with its budget or when every solved point is near a pick.
HotspotsAreSpread ==
    AnswerTo({"hotspots"}) =>
        LET v == Values(solved, question.field)
            sign == IF question.minimum THEN -1 ELSE 1
            far == {i \in Valid(solved, question.field) : \A k \in DOMAIN picks :
                        i # picks[k] /\ Apart(solved, i, picks[k])} IN
        /\ \A i, k \in DOMAIN picks : i # k => Apart(solved, picks[i], picks[k])
        /\ \A i \in far, k \in DOMAIN picks : sign * v[i] <= sign * v[picks[k]]
        /\ far # {} => Len(picks) = Budget(question.count, MaxHotspots)
        /\ <<sign * v[picks[1]], 1>> =
               <<sign * Extremum(solved, question.field, sign).value[1], 1>>

\* A section accounts for every point it asked for and keeps their order; a sample
\* takes each point once and reaches from the first solved one to the last.
ReadingsAreSpread ==
    /\ AnswerTo({"section", "sample"}) =>
           \A i, k \in DOMAIN reply.at : i < k => reply.at[i] < reply.at[k]
    /\ AnswerTo({"section"}) => reply.skipped + Len(reply.at) = reply.requested
    /\ AnswerTo({"sample"}) /\ Len(reply.at) > 1 =>
           /\ reply.at[1] = Min(Valid(solved, question.field))
           /\ reply.at[Len(reply.at)] = Max(Valid(solved, question.field))

\* A point left of every edge of a convex outline is in the region and one right of
\* some edge is not.
RegionsAreRight ==
    AnswerTo({"over_region"}) =>
        LET r == CHOOSE r \in DOMAIN question.geometry :
                     question.geometry[r].name = question.region
            outline == question.geometry[r].points
            turn(a, b, c) == Cross(From(a, b), From(a, c))
            side(i, at) == turn(outline[i], outline[(i % Len(outline)) + 1], at)
            inside == InRegion(solved, question) IN
        \A i \in DOMAIN Points(solved) :
            /\ (\A e \in DOMAIN outline : side(e, Points(solved)[i]) > 0) => i \in inside
            /\ (\E e \in DOMAIN outline : side(e, Points(solved)[i]) < 0) => i \notin inside

\* A metric is missing only if there is nothing to reduce, what the adapter supplied
\* is what is reported, and what is said of the run or of a boundary is the adapter's.
MetricsAreHonest ==
    AnswerTo({"metrics"}) =>
        \A m \in {m \in Declared : HasRecipe(m)} :
            /\ m \in DOMAIN reply.metrics /\ (m.over = "run" \/ m.boundary # Unnamed) =>
                   m \in solved.supplied
            /\ m \in solved.supplied => reply.metrics[m] = solved.supplies
            /\ m \notin DOMAIN reply.metrics /\ m.field # Unnamed =>
                   "refused" \in DOMAIN Reduce(solved, m.field, m.reduction)
            /\ m \in DOMAIN reply.metrics \ solved.supplied /\ m.reduction # "integral" =>
                   Between(reply.metrics[m], m.field)

\* Every answer is about what was solved, in bounds, in order, spread and exact where it
\* can be (fields.py).
FieldsAreRight ==
    /\ FillerNeverCounts /\ AnswersAreBounded /\ HotspotsAreSpread
    /\ ReadingsAreSpread /\ MetricsAreHonest /\ InterpolationIsExact
=============================================================================
