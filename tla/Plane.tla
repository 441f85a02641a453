--------------------------------- MODULE Plane ---------------------------------
(***************************************************************************)
(* Points and outlines with integer coordinates, in integer arithmetic.    *)
(***************************************************************************)
EXTENDS Integers, Sequences, FiniteSets

Cross(a, b) == a[1] * b[2] - b[1] * a[2]
From(a, b) == <<b[1] - a[1], b[2] - a[2]>>
Orient(a, b, c) == Cross(From(a, b), From(a, c))
Distance2(a, b) == (a[1] - b[1]) * (a[1] - b[1]) + (a[2] - b[2]) * (a[2] - b[2])

After(i, n) == IF i = n THEN 1 ELSE i + 1

\* PNPOLY: whether a ray to the right of the point crosses an odd number of edges.
InPolygon(at, polygon) ==
    LET n == Len(polygon)
        crosses(j) ==
            LET a == polygon[After(j, n)]
                b == polygon[j]
                rise == b[2] - a[2]
                run == (b[1] - a[1]) * (at[2] - a[2]) IN
            /\ (a[2] > at[2]) # (b[2] > at[2])
            /\ IF rise > 0 THEN (at[1] - a[1]) * rise < run ELSE (at[1] - a[1]) * rise > run IN
    Cardinality({j \in 1..n : crosses(j)}) % 2 = 1
=============================================================================
