--------------------------- MODULE GoldenSection ---------------------------
(***************************************************************************)
(* The method of an optimization (core/optimize.py: _replay, next_point,    *)
(* bracket_of) over a unimodal objective.  A position in the bracket is a   *)
(* pair <<m, n>>, the number m + n*r with r = 1/phi: r*r = 1 - r, so every  *)
(* point the method computes is such a pair, exactly.  Positions compare by *)
(* their value in whole units, of which the bracket has Span and r InvPhi.  *)
(***************************************************************************)
EXTENDS Integers, Sequences, FiniteSets

CONSTANTS
    Span, InvPhi, \* the units in the bracket, and in 1/phi of it
    Minima,       \* where the objective may be least, in these units
    Slopes,       \* how steeply it may rise on either side
    Tolerances,   \* bracket widths that are narrow enough, in these units
    MaxTold       \* answers told (a bound)

VARIABLES
    objective,    \* [least, left, right, tolerance]: the question asked
    told          \* the minimised objective at the points asked for, in order

goldenVars == <<objective, told>>

Minus(p, q) == <<p[1] - q[1], p[2] - q[2]>>
Plus(p, q)  == <<p[1] + q[1], p[2] + q[2]>>
Shrunk(p)   == <<p[2], p[1] - p[2]>>                  \* r*(m + n*r) = n + (m - n)*r
Value(p)    == Span * p[1] + InvPhi * p[2]

\* The powers of r.
Power[n \in Nat] == IF n = 0 THEN <<1, 0>> ELSE Shrunk(Power[n - 1])

\* The units are fine enough that no power rounds to nothing.
ASSUME GoldenAssumption ==
    /\ Span \in Nat /\ InvPhi \in Nat /\ MaxTold \in Nat
    /\ Minima \subseteq 0..Span /\ Slopes \subseteq Nat \ {0} /\ Tolerances \subseteq Nat
    /\ \A n \in 0..(MaxTold + 1) : Value(Power[n]) > 0

Lower(a, b) == Minus(b, Shrunk(Minus(b, a)))          \* b - r*(b - a)
Upper(a, b) == Plus(a, Shrunk(Minus(b, a)))           \* a + r*(b - a)

Ends == [a |-> <<0, 0>>, b |-> <<1, 0>>]

\* Two answers are in: the state in which the loop begins.
Opened(fc, fd) ==
    [a |-> Ends.a, b |-> Ends.b, c |-> Lower(Ends.a, Ends.b), d |-> Upper(Ends.a, Ends.b),
     fc |-> fc, fd |-> fd, open |-> "none"]

\* Narrowed that keeps the wrong side.
NarrowedWrongly(s) ==
    IF s.fc > s.fd
    THEN [s EXCEPT !.b = s.d, !.d = s.c, !.fd = s.fc, !.c = Lower(s.a, s.d), !.open = "c"]
    ELSE [s EXCEPT !.a = s.c, !.c = s.d, !.fc = s.fd, !.d = Upper(s.c, s.b), !.open = "d"]

\* One turn of the loop: drop a side, reuse the point that stays inside, and
\* leave the other open for the next answer.
Narrowed(s) ==
    IF s.fc < s.fd
    THEN [s EXCEPT !.b = s.d, !.d = s.c, !.fd = s.fc, !.c = Lower(s.a, s.d), !.open = "c"]
    ELSE [s EXCEPT !.a = s.c, !.c = s.d, !.fc = s.fd, !.d = Upper(s.c, s.b), !.open = "d"]

Closed(s, answer) == IF s.open = "c" THEN [s EXCEPT !.fc = answer] ELSE [s EXCEPT !.fd = answer]

\* _replay with no tolerance: the state after n of the answers, n >= 2.
Walked(answers) ==
    LET walk[n \in 2..Len(answers)] ==
          IF n = 2 THEN Narrowed(Opened(answers[1], answers[2]))
          ELSE Narrowed(Closed(walk[n - 1], answers[n]))
    IN walk[Len(answers)]

\* bracket_of.
BracketOf(answers) ==
    IF Len(answers) < 2 THEN Ends ELSE [a |-> Walked(answers).a, b |-> Walked(answers).b]

Width(bracket) == Value(bracket.b) - Value(bracket.a)

\* The loop stops before it narrows further: the bracket the last answer but one
\* left already meets the tolerance.
Located(answers) ==
    /\ Len(answers) >= 2
    /\ Width(BracketOf(SubSeq(answers, 1, Len(answers) - 1))) <= objective.tolerance

\* next_point, where there is one.
NextPoint(answers) ==
    IF answers = <<>> THEN Lower(Ends.a, Ends.b)
    ELSE IF Len(answers) = 1 THEN Upper(Ends.a, Ends.b)
    ELSE LET s == Walked(answers) IN IF s.open = "c" THEN s.c ELSE s.d

\* The points asked for so far.
AskedAt(k) == NextPoint(SubSeq(told, 1, k - 1))

\* A unimodal objective.
Measured(p) ==
    LET x == Value(p) IN
    IF x < objective.least THEN objective.left * (objective.least - x)
    ELSE objective.right * (x - objective.least)

Objectives == [least : Minima, left : Slopes, right : Slopes, tolerance : Tolerances]

GoldenInit ==
    /\ objective \in Objectives
    /\ told = <<>>

Tell ==
    /\ Len(told) < MaxTold /\ ~Located(told)
    /\ told' = Append(told, Measured(NextPoint(told)))
    /\ UNCHANGED objective

GoldenNext == Tell

GoldenSpec == GoldenInit /\ [][GoldenNext]_goldenVars

-----------------------------------------------------------------------------
(* Properties *)

\* The minimum and the best point seen lie in the bracket reported
\* (core/optimize.py:290, docs/08-json-rpc.md:225).
BracketHoldsTheMinimum ==
    LET k == BracketOf(told) IN
    /\ Value(k.a) <= objective.least /\ objective.least <= Value(k.b)
    /\ \A i \in 1..Len(told) :
         (\A j \in 1..Len(told) : told[i] <= told[j])
         => Value(k.a) <= Value(AskedAt(i)) /\ Value(AskedAt(i)) <= Value(k.b)

\* No point is asked for twice, which is why a point can stand for the answers
\* that led to it, and each answer after the second shrinks the bracket.
NoPointTwice ==
    /\ \A i, j \in 1..Len(told) : i # j => AskedAt(i) # AskedAt(j)
    /\ \A i \in 3..Len(told) :
         Width(BracketOf(SubSeq(told, 1, i))) < Width(BracketOf(SubSeq(told, 1, i - 1)))

\* A search that stops has met its tolerance, and not one evaluation late.
StopsInTime ==
    Located(told) => /\ Width(BracketOf(told)) <= objective.tolerance
                     /\ ~Located(SubSeq(told, 1, Len(told) - 1))

MethodIsSound == BracketHoldsTheMinimum /\ NoPointTwice /\ StopsInTime
=============================================================================
