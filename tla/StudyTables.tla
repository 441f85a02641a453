---------------------------- MODULE StudyTables ----------------------------
(***************************************************************************)
(* What a study body means (core/studies.py): which bodies are legal, the   *)
(* variations a body implies, and what a report reads off the answers: where *)
(* a ladder settles, the curves of a sweep.  Answers arrive one by one and   *)
(* in any order.  A body has one metric; a value is an integer, and printing *)
(* it with six digits is dropping its last one (%g).                         *)
(***************************************************************************)
EXTENDS Integers, SequencesExt, FiniteSetsExt

CONSTANTS
    Parameters,       \* what a capability lets a study vary
    Values,           \* what a study may set a parameter to
    Longest,          \* the longest list of values or points (a bound)
    MaxAxes,          \* the most axes of a sweep (a bound)
    MaxSweepPoints,   \* MAX_SWEEP_POINTS
    Measures,         \* what a metric may be
    Tolerance,        \* in thousandths
    NoAnswer

ASSUME StudyTablesAssumption ==
    /\ Values \subseteq Nat /\ NoAnswer \notin Int
    /\ Longest \in Nat /\ MaxAxes \in Nat /\ MaxSweepPoints \in Nat

VARIABLES
    body,       \* the study revision
    answers     \* the metric of each variation, NoAnswer until there is one

tableVars == <<body, answers>>

Lists == BoundedSeq(Values, Longest)
Axis == [parameter : Parameters, values : Lists]
Explicit == UNION {[K -> Values] : K \in SUBSET Parameters}

Ladders == [kind : {"mesh_convergence"}, values : Lists]
Sweeps == [kind : {"sweep"}, axes : BoundedSeq(Axis, MaxAxes), points : {<<>>}]
          \cup [kind : {"sweep"}, axes : {<<>>}, points : BoundedSeq(Explicit, Longest)]

Ascending(s) == \A i, j \in DOMAIN s : i < j => s[i] < s[j]

\* The members of a set of numbers in order.
InOrder(S) ==
    [k \in 1..Cardinality(S) |-> CHOOSE i \in S : Cardinality({j \in S : j <= i}) = k]

MaxSeriesTraces == MaxSweepPoints \div 2      \* series.MAX_SERIES_TRACES

-----------------------------------------------------------------------------
(* The validators *)

\* The n-th axis from the last.
FromLast(axes, n) == axes[Len(axes) - n + 1]

Total(axes) ==
    LET last[n \in 0..Len(axes)] ==
          IF n = 0 THEN 1 ELSE Len(FromLast(axes, n).values) * last[n - 1]
    IN last[Len(axes)]

\* A grid or a list of points, one axis per parameter, the first axis a curve
\* can be drawn along, the points alike and distinct, and not too many.
LegalSweep(b) ==
    /\ (b.axes = <<>>) # (b.points = <<>>)
    /\ \A i \in DOMAIN b.axes : b.axes[i].values # <<>> /\ Ascending(b.axes[i].values)
    /\ \A i, j \in DOMAIN b.axes : b.axes[i].parameter = b.axes[j].parameter => i = j
    /\ b.axes # <<>> => Len(b.axes[1].values) >= 2
    /\ b.points # <<>> => /\ Len(b.points) >= 2 /\ IsInjective(b.points)
                          /\ \A i \in DOMAIN b.points :
                               /\ DOMAIN b.points[i] = DOMAIN b.points[1]
                               /\ DOMAIN b.points[i] # {}
    /\ (IF b.axes # <<>> THEN Total(b.axes) ELSE Len(b.points)) <= MaxSweepPoints

LegalLadder(b) == Len(b.values) >= 2 /\ Ascending(b.values)

LegalBody(b) == IF b.kind = "sweep" THEN LegalSweep(b) ELSE LegalLadder(b)

-----------------------------------------------------------------------------
(* variations *)

\* Each value before each of some combinations.
Before(values, some) ==
    [k \in 1..(Len(values) * Len(some)) |->
        <<values[((k - 1) \div Len(some)) + 1]>> \o some[((k - 1) % Len(some)) + 1]]

\* The combinations of some axes, the last varying fastest.
Combinations(axes) ==
    LET last[n \in 0..Len(axes)] ==
          IF n = 0 THEN << <<>> >> ELSE Before(FromLast(axes, n).values, last[n - 1])
    IN last[Len(axes)]

Named(axes, combination) ==
    [p \in {axes[i].parameter : i \in DOMAIN axes} |->
       combination[CHOOSE i \in DOMAIN axes : axes[i].parameter = p]]

\* SweepBody.variations: the parameters each solve overrides, in report order.
SweepPoints(b) ==
    IF b.axes = <<>> THEN b.points
    ELSE LET all == Combinations(b.axes) IN [k \in DOMAIN all |-> Named(b.axes, all[k])]

HowMany(b) == IF b.kind = "sweep" THEN Len(SweepPoints(b)) ELSE Len(b.values)

-----------------------------------------------------------------------------
(* The reports *)

\* Whether |change| / |previous| is at most the tolerance, where there is one.
Small(i) ==
    LET p == answers[i]
        q == answers[i + 1] IN
    /\ p # NoAnswer /\ q # NoAnswer /\ p # 0
    /\ 1000 * (IF q > p THEN q - p ELSE p - q) <= Tolerance * (IF p > 0 THEN p ELSE -p)

\* SettledAt that takes the first small change ...
SettledAtDip ==
    LET S == {i \in 1..(Len(answers) - 1) : Small(i)}
    IN IF S = {} THEN NoAnswer ELSE body.values[Min(S) + 1]

\* settled_value: the rung after the first change from which all are small.
SettledAt ==
    LET S == {i \in 1..(Len(answers) - 1) : \A j \in i..(Len(answers) - 1) : Small(j)}
    IN IF S = {} THEN NoAnswer ELSE body.values[Min(S) + 1]

\* "%g" of a value in the name of a trace.
Printed(v) == v \div 10

\* The answers on the line of the grid where the other axes have their c-th combination.
OnLine(c) ==
    LET rest == Tail(body.axes)
        held == Named(rest, Combinations(rest)[c])
        all == SweepPoints(body) IN
    {k \in DOMAIN all : answers[k] # NoAnswer /\ \A p \in DOMAIN held : all[k][p] = held[p]}

Trace(c) ==
    LET rest == Tail(body.axes)
        held == Named(rest, Combinations(rest)[c])
        all == SweepPoints(body)
        order == InOrder(OnLine(c)) IN
    [name |-> [p \in DOMAIN held |-> Printed(held[p])],
     x |-> [i \in DOMAIN order |-> all[order[i]][body.axes[1].parameter]],
     values |-> [i \in DOMAIN order |-> answers[order[i]]]]

\* response_curves: one trace per combination of the other axes that has answers.
Curves ==
    LET lines == {c \in DOMAIN Combinations(Tail(body.axes)) : OnLine(c) # {}}
        order == InOrder(lines) IN
    IF body.axes = <<>> THEN <<>> ELSE [i \in DOMAIN order |-> Trace(order[i])]

\* Series1DData's validator: what it refuses, study.get cannot answer with.
Drawable(traces) ==
    /\ Len(traces) <= MaxSeriesTraces
    /\ \A i, j \in DOMAIN traces : traces[i].name = traces[j].name => i = j

-----------------------------------------------------------------------------
StudyBodies == Ladders \cup Sweeps

Unanswered == IF LegalBody(body) THEN [k \in 1..HowMany(body) |-> NoAnswer] ELSE <<>>

TableInit == body \in StudyBodies /\ answers = Unanswered

\* A variation's job is done.
VariationAnswers ==
    /\ \E k \in DOMAIN answers, m \in Measures :
         answers[k] = NoAnswer /\ answers' = [answers EXCEPT ![k] = m]
    /\ UNCHANGED body

TableSpec == TableInit /\ [][VariationAnswers]_tableVars

-----------------------------------------------------------------------------
(* Properties *)

\* "Settled at v" means: v was reached by a small change and no later pair of
\* rungs differs by more, all of them being answered; and nothing lower would do.
LadderIsRight ==
    LET within(lo) == \A i \in DOMAIN body.values :
          i < Len(body.values) /\ body.values[i + 1] >= lo => Small(i)
        candidates == {v \in Range(Tail(body.values)) : within(v)}
    IN /\ SettledAt = NoAnswer => candidates = {}
       /\ SettledAt # NoAnswer => SettledAt \in candidates
                                  /\ \A v \in candidates : SettledAt <= v

\* A grid has every combination once.
GridIsWhole ==
    body.axes # <<>> =>
      LET all == SweepPoints(body) IN
      /\ IsInjective(all) /\ Len(all) = Total(body.axes)
      /\ \A k \in DOMAIN all, i \in DOMAIN body.axes :
           all[k][body.axes[i].parameter] \in Range(body.axes[i].values)

\* Two values of an axis that a trace is named by print alike.
PrintAlike ==
    \E i \in 2..Len(body.axes) : \E v, w \in Range(body.axes[i].values) :
        v # w /\ Printed(v) = Printed(w)

\* Every answer of a grid is drawn once, at its place, on curves that run from
\* left to right; and the curves can be sent, unless two of them print the same
\* name (core/studies.py:697).
SweepIsDrawn ==
    body.axes # <<>> =>
      LET all == SweepPoints(body)
          drawn == {d \in (1..Len(Curves)) \X (1..Len(all)) : d[2] \in DOMAIN Curves[d[1]].x}
      IN /\ Cardinality(drawn) = Cardinality({k \in DOMAIN all : answers[k] # NoAnswer})
         /\ \A k \in DOMAIN all : answers[k] # NoAnswer =>
              \E d \in drawn : /\ Curves[d[1]].x[d[2]] = all[k][body.axes[1].parameter]
                               /\ Curves[d[1]].values[d[2]] = answers[k]
         /\ \A i \in DOMAIN Curves : Ascending(Curves[i].x)
         /\ Drawable(Curves) \/ PrintAlike

\* What study.get reads off the answers is what they say (core/studies.py:560).
ReadoutIsRight ==
    LegalBody(body) =>
      IF body.kind = "sweep" THEN GridIsWhole /\ SweepIsDrawn ELSE LadderIsRight
=============================================================================
