----------------------------- MODULE SolverProofs -----------------------------
(***************************************************************************)
(* Proofs about a solve and what is said of it.                            *)
(*                                                                         *)
(* SolverLoops, for every cap, cadence and rate of frames: SolveIsHonest   *)
(* and ProgressGoesOn.  What is specific to an adapter is proved of its    *)
(* program alone (AdaptersBehave).  A program carries two numberings of    *)
(* its instructions: how many pieces of work may lie behind each since the *)
(* cancel was last looked for (Leeway), and how far the progress reported  *)
(* before each has come at most (Mark).  The invariant (LoopsInv) says of  *)
(* a solve that it keeps within them wherever it is, that what fell short  *)
(* shows in what the adapter will look at, and how mock.laplace2d's        *)
(* relaxations share their clock.                                          *)
(*                                                                         *)
(* NamedBoundaries, for every geometry and every edit: BoundariesFollow.   *)
(* The invariant (BoundsInv) is that what is drawn is a geometry the       *)
(* validators would take and that the last answer was worked out from it;  *)
(* the rest is about one edge at a time (Doubled, EdgesOf, Selects).       *)
(*                                                                         *)
(* FieldQueries, for every result and every question: FieldsAreRight.  A   *)
(* sum over a finite set is a fold, which is followed through the set's    *)
(* subsets (SumsAre); the invariant (FieldsInv) is that an answer is what  *)
(* the result says and that a search for hotspots has passed nothing over  *)
(* (Searching).                                                            *)
(***************************************************************************)
EXTENDS SolverLoops, NamedBoundaries, FieldQueries, FiniteSetTheorems, FunctionTheorems,
        SequenceTheorems, WellFoundedInduction, TLAPS

-----------------------------------------------------------------------------
(* The solvers' programs *)

Loops == {"sweeps", "steps", "clocked"}

Instructions ==
    {Check, Work} \cup [do : {"report"}, at : Nat, of : Nat]
    \cup [do : Loops, cap : Nat \ {0}, every : Nat \ {0}, of : Nat]

\* How many pieces of work may lie behind each instruction since the cancel was last
\* looked for; a loop looks for it before each sweep.
Leeway(P, s) ==
    /\ s \in [1..(Len(P) + 1) -> 0..2]
    /\ \A i \in DOMAIN P :
         /\ P[i].do = "work"   => s[i] + 1 <= s[i + 1]
         /\ P[i].do = "report" => s[i] <= s[i + 1]
         /\ P[i].do \in Loops  => 1 <= s[i + 1]

\* How far the progress reported before each instruction has come at most.
Mark(P, t) ==
    /\ t \in [1..(Len(P) + 1) -> Nat]
    /\ \A i \in DOMAIN P :
         /\ P[i].do \in {"check", "work"} => t[i] <= t[i + 1]
         /\ P[i].do = "report" => t[i] <= P[i].at /\ P[i].at <= t[i + 1]
         /\ P[i].do \in Loops => t[i] = 0 /\ P[i].cap <= t[i + 1]

\* No report is past its total, and all are of the same.
Fits(P) ==
    \A i \in DOMAIN P :
        /\ P[i].do = "report" => P[i].at <= P[i].of
        /\ P[i].do \in Loops  => P[i].cap <= P[i].of

OneTotal(P) ==
    \E total \in Nat : \A i \in DOMAIN P : P[i].do \in {"report"} \cup Loops => P[i].of = total

OneLoop(P) ==
    \A i, k \in DOMAIN P :
        P[i].do \in Loops /\ P[k].do \in Loops => i = k /\ P[i].do = "sweeps"

Stepping(P) == \A i \in DOMAIN P : P[i].do \in Loops => P[i].do = "steps"

WellBuilt(P) ==
    /\ P \in Seq(Instructions)
    /\ \E s : Leeway(P, s)
    /\ Fits(P)

\* Progress through the program does not go back.
Onward(P) == OneTotal(P) /\ \E t : Mark(P, t)

LEMMA InstructionKinds ==
    ASSUME NEW x \in Instructions
    PROVE  /\ x.do \in {"check", "work", "report"} \cup Loops
           /\ x.do = "report" => x.at \in Nat /\ x.of \in Nat
           /\ x.do \in Loops => x.cap \in Nat \ {0} /\ x.every \in Nat \ {0} /\ x.of \in Nat
BY DEF Instructions, Check, Work, Report, Loops

\* The reports, the work and the checks of a program that has no loop.
LEMMA PlainInstructions ==
    /\ Check \in Instructions /\ Check.do = "check"
    /\ Work \in Instructions /\ Work.do = "work"
    /\ \A n, of \in Nat : /\ Report(n, of) \in Instructions /\ Report(n, of).do = "report"
                          /\ Report(n, of).at = n /\ Report(n, of).of = of
<1>1. Check \in Instructions /\ Check.do = "check"
  BY DEF Instructions, Check
<1>2. Work \in Instructions /\ Work.do = "work"
  BY DEF Instructions, Work
<1>3. \A n, of \in Nat : Report(n, of) \in Instructions
  BY DEF Instructions, Report
<1>4. \A n, of : Report(n, of).do = "report" /\ Report(n, of).at = n /\ Report(n, of).of = of
  BY DEF Report
<1> QED
  BY <1>1, <1>2, <1>3, <1>4, Zenon

\* Work, a loop, work: the programs of most mock solvers.
LEMMA LoopBetweenWorks ==
    ASSUME NEW x \in Instructions, x.do \in {"sweeps", "steps"}, x.cap <= x.of
    PROVE  /\ WellBuilt(<<Work, x, Work>>)
           /\ Onward(<<Work, x, Work>>)
           /\ x.do = "sweeps" => OneLoop(<<Work, x, Work>>)
           /\ x.do = "steps" => Stepping(<<Work, x, Work>>)
<1> DEFINE P == <<Work, x, Work>>
<1>1. P \in Seq(Instructions) /\ Len(P) = 3 /\ DOMAIN P = 1..3
  BY PlainInstructions
<1>2. P[1].do = "work" /\ P[2] = x /\ P[3].do = "work"
  BY PlainInstructions
<1>3. \A i \in DOMAIN P : i = 1 \/ i = 2 \/ i = 3
  BY <1>1
<1>4. x.cap \in Nat /\ x.of \in Nat
  BY InstructionKinds DEF Loops
<1> HIDE DEF P
<1>5. Leeway(P, <<0, 1, 1, 2>>)
  BY <1>1, <1>2, <1>3 DEF Leeway, Loops
<1>6. Mark(P, <<0, 0, x.cap, x.cap>>)
  BY <1>1, <1>2, <1>3, <1>4 DEF Mark, Loops
<1>7. Fits(P)
  BY <1>1, <1>2, <1>3, <1>4 DEF Fits, Loops
<1>8. OneTotal(P)
  BY <1>1, <1>2, <1>3, <1>4, x.of \in Nat DEF OneTotal, Loops
<1>9. /\ x.do = "sweeps" => OneLoop(P)
      /\ x.do = "steps" => Stepping(P)
  BY <1>2, <1>3 DEF OneLoop, Stepping, Loops
<1> QED
  BY <1>1, <1>4, <1>5, <1>6, <1>7, <1>8, <1>9 DEF WellBuilt, Onward, P

\* The stages of a direct solve.
LEMMA StagedBuilt ==
    WellBuilt(Staged) /\ Onward(Staged) /\ Stepping(Staged)
<1> DEFINE P == Staged
<1>1. P \in Seq(Instructions) /\ Len(P) = 12 /\ DOMAIN P = 1..12
  BY PlainInstructions, 0 \in Nat, 1 \in Nat, 2 \in Nat, 3 \in Nat, 4 \in Nat DEF Staged
<1> DEFINE W == {2, 5, 8, 11}
           C == {3, 6, 9}
           R == {1, 4, 7, 10, 12}
           s == <<0, 0, 1, 0, 0, 1, 0, 0, 1, 0, 0, 1, 1>>
           t == <<0, 0, 0, 0, 1, 1, 1, 2, 2, 2, 3, 3, 4>>
<1>2. /\ \A i \in W : P[i].do = "work"
      /\ \A i \in C : P[i].do = "check"
      /\ P[1] = Report(0, 4) /\ P[4] = Report(1, 4) /\ P[7] = Report(2, 4)
      /\ P[10] = Report(3, 4) /\ P[12] = Report(4, 4)
  BY PlainInstructions DEF Staged
<1>3. \A i \in DOMAIN P : i \in W \/ i \in C \/ i \in R
  BY <1>1
<1>4. /\ s \in [1..13 -> 0..2] /\ t \in [1..13 -> Nat]
      /\ \A i \in W : s[i] + 1 <= s[i + 1] /\ t[i] <= t[i + 1]
      /\ \A i \in C : t[i] <= t[i + 1]
      /\ \A i \in R : s[i] <= s[i + 1]
  OBVIOUS
<1> HIDE DEF P
<1>5. \A i \in R : /\ P[i].do = "report" /\ P[i].of = 4 /\ P[i].at <= 4
                  /\ t[i] <= P[i].at /\ P[i].at <= t[i + 1]
  BY <1>2 DEF Report
<1> HIDE DEF W, C, R, s, t
<1>0. 1..(Len(P) + 1) = 1..13
  BY <1>1
<1>6. Leeway(P, s)
  BY <1>0, <1>1, <1>2, <1>3, <1>4, <1>5 DEF Leeway, Loops
<1>7. Mark(P, t)
  BY <1>0, <1>1, <1>2, <1>3, <1>4, <1>5 DEF Mark, Loops
<1>8. Fits(P)
  BY <1>2, <1>3, <1>5 DEF Fits, Loops
<1>9. OneTotal(P)
  <2>1. \A i \in DOMAIN P : P[i].do \in {"report"} \cup Loops => P[i].of = 4
    BY <1>2, <1>3, <1>5 DEF Loops
  <2> QED
    BY <2>1, 4 \in Nat DEF OneTotal
<1>10. Stepping(P)
  BY <1>2, <1>3, <1>5 DEF Stepping, Loops
<1> QED
  BY <1>1, <1>6, <1>7, <1>8, <1>9, <1>10 DEF WellBuilt, Onward, P

\* The stages of mock.modal2d.
LEMMA ModalBuilt ==
    ASSUME NEW p
    PROVE  /\ WellBuilt(MockModal(p).program) /\ Onward(MockModal(p).program)
           /\ Stepping(MockModal(p).program)
<1> DEFINE P == MockModal(p).program
<1>1. P \in Seq(Instructions) /\ Len(P) = 10 /\ DOMAIN P = 1..10
  BY PlainInstructions, 0 \in Nat, 1 \in Nat, 2 \in Nat, 3 \in Nat DEF MockModal, Adapter
<1> DEFINE W == {1, 3, 6, 9}
           C == {4, 7}
           R == {2, 5, 8, 10}
           s == <<0, 1, 1, 2, 0, 0, 1, 0, 0, 1, 1>>
           t == <<0, 0, 0, 0, 0, 1, 1, 1, 2, 2, 3>>
<1>2. /\ \A i \in W : P[i].do = "work"
      /\ \A i \in C : P[i].do = "check"
      /\ P[2] = Report(0, 3) /\ P[5] = Report(1, 3) /\ P[8] = Report(2, 3)
      /\ P[10] = Report(3, 3)
  BY PlainInstructions DEF MockModal, Adapter
<1>3. \A i \in DOMAIN P : i \in W \/ i \in C \/ i \in R
  BY <1>1
<1>4. /\ s \in [1..11 -> 0..2] /\ t \in [1..11 -> Nat]
      /\ \A i \in W : s[i] + 1 <= s[i + 1] /\ t[i] <= t[i + 1]
      /\ \A i \in C : t[i] <= t[i + 1]
      /\ \A i \in R : s[i] <= s[i + 1]
  OBVIOUS
<1> HIDE DEF P
<1>5. \A i \in R : /\ P[i].do = "report" /\ P[i].of = 3 /\ P[i].at <= 3
                  /\ t[i] <= P[i].at /\ P[i].at <= t[i + 1]
  BY <1>2 DEF Report
<1> HIDE DEF W, C, R, s, t
<1>0. 1..(Len(P) + 1) = 1..11
  BY <1>1
<1>6. Leeway(P, s)
  BY <1>0, <1>1, <1>2, <1>3, <1>4, <1>5 DEF Leeway, Loops
<1>7. Mark(P, t)
  BY <1>0, <1>1, <1>2, <1>3, <1>4, <1>5 DEF Mark, Loops
<1>8. Fits(P)
  BY <1>2, <1>3, <1>5 DEF Fits, Loops
<1>9. OneTotal(P)
  <2>1. \A i \in DOMAIN P : P[i].do \in {"report"} \cup Loops => P[i].of = 3
    BY <1>2, <1>3, <1>5 DEF Loops
  <2> QED
    BY <2>1, 3 \in Nat DEF OneTotal
<1>10. Stepping(P)
  BY <1>2, <1>3, <1>5 DEF Stepping, Loops
<1> QED
  BY <1>1, <1>6, <1>7, <1>8, <1>9, <1>10 DEF WellBuilt, Onward, P

\* The stages of dolfinx.potential_flow2d, with the Kutta condition and without.
LEMMA CirculationBuilt ==
    ASSUME NEW p, p.kutta
    PROVE  /\ WellBuilt(DolfinxPotentialFlow(p).program) /\ Onward(DolfinxPotentialFlow(p).program)
           /\ Stepping(DolfinxPotentialFlow(p).program)
<1> DEFINE P == DolfinxPotentialFlow(p).program
<1>1. P \in Seq(Instructions) /\ Len(P) = 17 /\ DOMAIN P = 1..17
  BY PlainInstructions, 0 \in Nat, 1 \in Nat, 2 \in Nat, 3 \in Nat, 4 \in Nat, 5 \in Nat, 6 \in Nat DEF DolfinxPotentialFlow, Adapter
<1> DEFINE W == {2, 5, 7, 10, 13, 16}
           C == {3, 8, 11, 14}
           R == {1, 4, 6, 9, 12, 15, 17}
           s == <<0, 0, 1, 0, 0, 1, 1, 2, 0, 0, 1, 0, 0, 1, 0, 0, 1, 1>>
           t == <<0, 1, 1, 1, 2, 2, 3, 3, 3, 4, 4, 4, 5, 5, 5, 6, 6, 6>>
<1>2. /\ \A i \in W : P[i].do = "work"
      /\ \A i \in C : P[i].do = "check"
      /\ P[1] = Report(1, 6) /\ P[4] = Report(2, 6) /\ P[6] = Report(3, 6)
      /\ P[9] = Report(4, 6) /\ P[12] = Report(5, 6) /\ P[15] = Report(6, 6)
      /\ P[17] = Report(6, 6)
  BY PlainInstructions DEF DolfinxPotentialFlow, Adapter
<1>3. \A i \in DOMAIN P : i \in W \/ i \in C \/ i \in R
  BY <1>1
<1>4. /\ s \in [1..18 -> 0..2] /\ t \in [1..18 -> Nat]
      /\ \A i \in W : s[i] + 1 <= s[i + 1] /\ t[i] <= t[i + 1]
      /\ \A i \in C : t[i] <= t[i + 1]
      /\ \A i \in R : s[i] <= s[i + 1]
  OBVIOUS
<1> HIDE DEF P
<1>5. \A i \in R : /\ P[i].do = "report" /\ P[i].of = 6 /\ P[i].at <= 6
                  /\ t[i] <= P[i].at /\ P[i].at <= t[i + 1]
  BY <1>2 DEF Report
<1> HIDE DEF W, C, R, s, t
<1>0. 1..(Len(P) + 1) = 1..18
  BY <1>1
<1>6. Leeway(P, s)
  BY <1>0, <1>1, <1>2, <1>3, <1>4, <1>5 DEF Leeway, Loops
<1>7. Mark(P, t)
  BY <1>0, <1>1, <1>2, <1>3, <1>4, <1>5 DEF Mark, Loops
<1>8. Fits(P)
  BY <1>2, <1>3, <1>5 DEF Fits, Loops
<1>9. OneTotal(P)
  <2>1. \A i \in DOMAIN P : P[i].do \in {"report"} \cup Loops => P[i].of = 6
    BY <1>2, <1>3, <1>5 DEF Loops
  <2> QED
    BY <2>1, 6 \in Nat DEF OneTotal
<1>10. Stepping(P)
  BY <1>2, <1>3, <1>5 DEF Stepping, Loops
<1> QED
  BY <1>1, <1>6, <1>7, <1>8, <1>9, <1>10 DEF WellBuilt, Onward, P

LEMMA FlowBuilt ==
    ASSUME NEW p, ~p.kutta
    PROVE  /\ WellBuilt(DolfinxPotentialFlow(p).program) /\ Onward(DolfinxPotentialFlow(p).program)
           /\ Stepping(DolfinxPotentialFlow(p).program)
<1> DEFINE P == DolfinxPotentialFlow(p).program
<1>1. P \in Seq(Instructions) /\ Len(P) = 11 /\ DOMAIN P = 1..11
  BY PlainInstructions, 0 \in Nat, 1 \in Nat, 2 \in Nat, 3 \in Nat, 4 \in Nat DEF DolfinxPotentialFlow, Adapter
<1> DEFINE W == {2, 5, 7, 10}
           C == {3, 8}
           R == {1, 4, 6, 9, 11}
           s == <<0, 0, 1, 0, 0, 1, 1, 2, 0, 0, 1, 1>>
           t == <<0, 1, 1, 1, 2, 2, 3, 3, 3, 4, 4, 4>>
<1>2. /\ \A i \in W : P[i].do = "work"
      /\ \A i \in C : P[i].do = "check"
      /\ P[1] = Report(1, 4) /\ P[4] = Report(2, 4) /\ P[6] = Report(3, 4)
      /\ P[9] = Report(4, 4) /\ P[11] = Report(4, 4)
  BY PlainInstructions DEF DolfinxPotentialFlow, Adapter
<1>3. \A i \in DOMAIN P : i \in W \/ i \in C \/ i \in R
  BY <1>1
<1>4. /\ s \in [1..12 -> 0..2] /\ t \in [1..12 -> Nat]
      /\ \A i \in W : s[i] + 1 <= s[i + 1] /\ t[i] <= t[i + 1]
      /\ \A i \in C : t[i] <= t[i + 1]
      /\ \A i \in R : s[i] <= s[i + 1]
  OBVIOUS
<1> HIDE DEF P
<1>5. \A i \in R : /\ P[i].do = "report" /\ P[i].of = 4 /\ P[i].at <= 4
                  /\ t[i] <= P[i].at /\ P[i].at <= t[i + 1]
  BY <1>2 DEF Report
<1> HIDE DEF W, C, R, s, t
<1>0. 1..(Len(P) + 1) = 1..12
  BY <1>1
<1>6. Leeway(P, s)
  BY <1>0, <1>1, <1>2, <1>3, <1>4, <1>5 DEF Leeway, Loops
<1>7. Mark(P, t)
  BY <1>0, <1>1, <1>2, <1>3, <1>4, <1>5 DEF Mark, Loops
<1>8. Fits(P)
  BY <1>2, <1>3, <1>5 DEF Fits, Loops
<1>9. OneTotal(P)
  <2>1. \A i \in DOMAIN P : P[i].do \in {"report"} \cup Loops => P[i].of = 4
    BY <1>2, <1>3, <1>5 DEF Loops
  <2> QED
    BY <2>1, 4 \in Nat DEF OneTotal
<1>10. Stepping(P)
  BY <1>2, <1>3, <1>5 DEF Stepping, Loops
<1> QED
  BY <1>1, <1>6, <1>7, <1>8, <1>9, <1>10 DEF WellBuilt, Onward, P

\* The loops a program may have are instructions.
LEMMA LoopInstructions ==
    ASSUME NEW p \in Params
    PROVE  /\ p.cap \in Nat \ {0} /\ p.every \in Nat \ {0}
           /\ RedBlack(p) \in Instructions /\ RedBlack(p).do = "sweeps"
           /\ RedBlack(p).cap = p.cap /\ RedBlack(p).of = p.cap
           /\ Iterations(p) \in Instructions /\ Iterations(p).do = "sweeps"
           /\ Iterations(p).cap = p.cap /\ Iterations(p).of = p.cap
           /\ Steps(p) \in Instructions /\ Steps(p).do = "steps"
           /\ Steps(p).cap = p.cap /\ Steps(p).of = p.cap
           /\ \A of \in Nat :
                /\ Relaxation(p, of) \in Instructions /\ Relaxation(p, of).do = "clocked"
                /\ Relaxation(p, of).cap = p.cap /\ Relaxation(p, of).of = of
<1>1. p.cap \in Nat \ {0} /\ p.every \in Nat \ {0}
  BY SolverLoopsAssumption DEF Params
<1>2. \A d \in Loops, e, of \in Nat : e # 0 =>
          [do |-> d, cap |-> p.cap, every |-> e, of |-> of] \in Instructions
  BY <1>1 DEF Instructions
<1> QED
  BY <1>1, <1>2 DEF RedBlack, Iterations, Steps, Relaxation, Loops

\* Newton's loop in the third stage of dolfinx.heat_nonlinear2d.
LEMMA NonlinearBuilt ==
    ASSUME NEW p \in Params
    PROVE  WellBuilt(DolfinxNonlinearHeat(p).program) /\ OneLoop(DolfinxNonlinearHeat(p).program)
<1> DEFINE P == DolfinxNonlinearHeat(p).program
           W == {2, 5, 9}
           C == {3, 6}
           R == {1, 4, 7, 10}
           s == <<0, 0, 1, 0, 0, 1, 0, 0, 1, 2, 2>>
<1>1. P \in Seq(Instructions) /\ Len(P) = 10 /\ DOMAIN P = 1..10
  BY PlainInstructions, LoopInstructions, 0 \in Nat, 1 \in Nat, 2 \in Nat, 3 \in Nat
     DEF DolfinxNonlinearHeat, Adapter
<1>2. /\ \A i \in W : P[i].do = "work"
      /\ \A i \in C : P[i].do = "check"
      /\ P[1] = Report(0, 3) /\ P[4] = Report(1, 3) /\ P[7] = Report(2, 3) /\ P[10] = Report(3, 3)
      /\ P[8] = Iterations(p)
  BY PlainInstructions DEF DolfinxNonlinearHeat, Adapter
<1>3. \A i \in DOMAIN P : i \in W \/ i \in C \/ i \in R \/ i = 8
  BY <1>1
<1>4. /\ s \in [1..11 -> 0..2] /\ 1 <= s[8 + 1]
      /\ \A i \in W : s[i] + 1 <= s[i + 1]
      /\ \A i \in R : s[i] <= s[i + 1]
  OBVIOUS
<1> HIDE DEF P
<1>5. \A i \in R : P[i].do = "report" /\ P[i].at <= P[i].of
  BY <1>2 DEF Report
<1> HIDE DEF W, C, R, s
<1>6. P[8].do = "sweeps" /\ P[8].cap <= P[8].of
  BY <1>2, LoopInstructions
<1>7. 1..(Len(P) + 1) = 1..11
  BY <1>1
<1>8. Leeway(P, s)
  <2>1. \A i \in DOMAIN P : P[i].do \in Loops => 1 <= s[i + 1]
    BY <1>2, <1>3, <1>4, <1>5 DEF Loops
  <2> QED
    BY <1>1, <1>2, <1>3, <1>4, <1>5, <1>6, <1>7, <2>1 DEF Leeway
<1>9. Fits(P)
  BY <1>2, <1>3, <1>5, <1>6 DEF Fits, Loops
<1>10. OneLoop(P)
  <2>1. \A i \in DOMAIN P : P[i].do \in Loops => i = 8
    BY <1>2, <1>3, <1>5 DEF Loops
  <2> QED
    BY <2>1, <1>6 DEF OneLoop
<1> QED
  BY <1>1, <1>8, <1>9, <1>10 DEF WellBuilt, P

\* The time steps of dolfinx.transient_heat2d behind its two stages.
LEMMA SteppedBuilt ==
    ASSUME NEW p \in Params
    PROVE  /\ WellBuilt(DolfinxTransientHeat(p).program) /\ Onward(DolfinxTransientHeat(p).program)
           /\ Stepping(DolfinxTransientHeat(p).program)
<1> DEFINE P == DolfinxTransientHeat(p).program
           s == <<0, 0, 1, 0, 1, 1, 2>>
           t == <<0, 0, 0, 0, 0, p.cap, p.cap>>
<1>1. P \in Seq(Instructions) /\ Len(P) = 6 /\ DOMAIN P = 1..6
  BY PlainInstructions, LoopInstructions, 0 \in Nat DEF DolfinxTransientHeat, Adapter
<1>2. /\ \A i \in {2, 4, 6} : P[i].do = "work"
      /\ P[3].do = "check" /\ P[5] = Steps(p) /\ P[1] = Report(0, p.cap)
  BY PlainInstructions DEF DolfinxTransientHeat, Adapter
<1>3. \A i \in DOMAIN P : i \in {2, 4, 6} \/ i = 1 \/ i = 3 \/ i = 5
  BY <1>1
<1> HIDE DEF P
<1>4. /\ P[1].do = "report" /\ P[1].at = 0 /\ P[1].of = p.cap
      /\ P[5].do = "steps" /\ P[5].cap = p.cap /\ P[5].of = p.cap /\ p.cap \in Nat
  BY <1>2, LoopInstructions DEF Report
<1>5. 1..(Len(P) + 1) = 1..7
  BY <1>1
<1>6. Leeway(P, s)
  BY <1>1, <1>2, <1>3, <1>4, <1>5 DEF Leeway, Loops
<1>7. Mark(P, t)
  BY <1>1, <1>2, <1>3, <1>4, <1>5 DEF Mark, Loops
<1>8. Fits(P)
  BY <1>2, <1>3, <1>4 DEF Fits, Loops
<1>9. OneTotal(P)
  <2>1. \A i \in DOMAIN P : P[i].do \in {"report"} \cup Loops => P[i].of = p.cap
    BY <1>2, <1>3, <1>4 DEF Loops
  <2> QED
    BY <2>1, <1>4 DEF OneTotal
<1>10. Stepping(P)
  BY <1>2, <1>3, <1>4 DEF Stepping, Loops
<1> QED
  BY <1>1, <1>6, <1>7, <1>8, <1>9, <1>10 DEF WellBuilt, Onward, P

\* The one relaxation of mock.laplace2d, and its two with the Kutta condition.
RelaxedBy(p, P) ==
    /\ P \in Seq(Instructions) /\ P[1].do = "work" /\ P[Len(P)].do = "work"
    /\ Len(P) = IF p.kutta THEN 4 ELSE 3
    /\ \A i \in 2..(Len(P) - 1) :
         /\ P[i].do = "clocked" /\ P[i].cap = p.cap
         /\ P[i].of = IF p.kutta THEN 2 * p.cap ELSE p.cap

LEMMA RelaxedBuilt ==
    ASSUME NEW p \in Params
    PROVE  WellBuilt(MockLaplace(p).program) /\ RelaxedBy(p, MockLaplace(p).program)
<1> DEFINE P == MockLaplace(p).program
<1>1. p.cap \in Nat \ {0} /\ 2 * p.cap \in Nat
  BY LoopInstructions
<1>2. CASE p.kutta
  <2>1. P = <<Work, Relaxation(p, 2 * p.cap), Relaxation(p, 2 * p.cap), Work>>
    BY <1>2 DEF MockLaplace, Adapter
  <2> HIDE DEF P
  <2>2. P \in Seq(Instructions) /\ Len(P) = 4 /\ DOMAIN P = 1..4
    BY <2>1, <1>1, PlainInstructions, LoopInstructions
  <2>3. /\ P[1].do = "work" /\ P[4].do = "work"
        /\ \A i \in {2, 3} : P[i].do = "clocked" /\ P[i].cap = p.cap /\ P[i].of = 2 * p.cap
    BY <2>1, <1>1, PlainInstructions, LoopInstructions
  <2>4. \A i \in DOMAIN P : i = 1 \/ i = 4 \/ i \in {2, 3}
    BY <2>2
  <2>5. 1..(Len(P) + 1) = 1..5
    BY <2>2
  <2>6. Leeway(P, <<0, 1, 1, 1, 2>>)
    BY <2>2, <2>3, <2>4, <2>5 DEF Leeway, Loops
  <2>7. Fits(P)
    BY <2>3, <2>4, <1>1 DEF Fits, Loops
  <2>8. RelaxedBy(p, P)
    BY <2>2, <2>3, <1>2 DEF RelaxedBy
  <2> QED
    BY <2>2, <2>6, <2>7, <2>8 DEF WellBuilt, P
<1>3. CASE ~p.kutta
  <2>1. P = <<Work, Relaxation(p, p.cap), Work>>
    BY <1>3 DEF MockLaplace, Adapter
  <2> HIDE DEF P
  <2>2. P \in Seq(Instructions) /\ Len(P) = 3 /\ DOMAIN P = 1..3
    BY <2>1, <1>1, PlainInstructions, LoopInstructions
  <2>3. /\ P[1].do = "work" /\ P[3].do = "work"
        /\ P[2].do = "clocked" /\ P[2].cap = p.cap /\ P[2].of = p.cap
    BY <2>1, <1>1, PlainInstructions, LoopInstructions
  <2>4. \A i \in DOMAIN P : i = 1 \/ i = 2 \/ i = 3
    BY <2>2
  <2>5. 1..(Len(P) + 1) = 1..4
    BY <2>2
  <2>6. Leeway(P, <<0, 1, 1, 2>>)
    BY <2>2, <2>3, <2>4, <2>5 DEF Leeway, Loops
  <2>7. Fits(P)
    BY <2>3, <2>4, <1>1 DEF Fits, Loops
  <2>8. RelaxedBy(p, P)
    BY <2>2, <2>3, <1>3 DEF RelaxedBy
  <2> QED
    BY <2>2, <2>6, <2>7, <2>8 DEF WellBuilt, P
<1> QED
  BY <1>2, <1>3

Clocked == "mock.laplace2d"
Newton == "dolfinx.heat_nonlinear2d"

\* What the proofs below use of an adapter.
Behaved(n, p, R) ==
    /\ WellBuilt(R.program) /\ R.folds \in BOOLEAN
    /\ R.says \in {"last", "steps", "stages", "direct"}
    /\ R.says = "last"   => OneLoop(R.program)
    /\ R.says = "steps"  => Stepping(R.program) /\ R.folds
    /\ R.says = "direct" => Stepping(R.program) /\ ~R.folds
    /\ R.says = "stages" <=> n = Clocked
    /\ n = Clocked       => RelaxedBy(p, R.program) /\ ~R.folds
    /\ n = "mock.elasticity2d" => R.says = "last" /\ ~R.folds
    /\ R.declares = "fail" => R.says = "last" /\ ~R.folds
    /\ n \notin {Clocked, Newton} => Onward(R.program)

LEMMA AdaptersBehave ==
    ASSUME NEW n \in SolverNames, NEW p \in Params
    PROVE  Behaved(n, p, Registered(n, p))
<1> DEFINE R == Registered(n, p)
<1> USE DEF Clocked, Newton
<1>1. \A x \in {RedBlack(p), Iterations(p), Steps(p)} :
          /\ WellBuilt(<<Work, x, Work>>) /\ Onward(<<Work, x, Work>>)
          /\ x.do = "sweeps" => OneLoop(<<Work, x, Work>>)
          /\ x.do = "steps" => Stepping(<<Work, x, Work>>)
  BY LoopInstructions, LoopBetweenWorks
<1>2. RedBlack(p).do = "sweeps" /\ Iterations(p).do = "sweeps" /\ Steps(p).do = "steps"
  BY LoopInstructions
<1>3. ASSUME n = "mock.heat2d" PROVE Behaved(n, p, R)
  BY <1>3, <1>1, <1>2 DEF Registered, MockHeat, Adapter, Behaved
<1>4. ASSUME n = "mock.magnetostatics2d" PROVE Behaved(n, p, R)
  BY <1>4, <1>1, <1>2 DEF Registered, MockMagnetostatics, Adapter, Behaved
<1>5. ASSUME n = "mock.electrostatics_axi2d" PROVE Behaved(n, p, R)
  BY <1>5, <1>1, <1>2 DEF Registered, MockElectrostatics, Adapter, Behaved
<1>6. ASSUME n = "mock.elasticity2d" PROVE Behaved(n, p, R)
  BY <1>6, <1>1, <1>2 DEF Registered, MockElasticity, Adapter, Behaved
<1>7. ASSUME n = "mock.heat_nonlinear2d" PROVE Behaved(n, p, R)
  BY <1>7, <1>1, <1>2 DEF Registered, MockNonlinearHeat, Adapter, Behaved
<1>8. ASSUME n = "mock.transient_heat2d" PROVE Behaved(n, p, R)
  BY <1>8, <1>1, <1>2 DEF Registered, MockTransientHeat, Adapter, Behaved
<1>9. ASSUME n = "mock.laplace2d" PROVE Behaved(n, p, R)
  <2>1. R = MockLaplace(p)
    BY <1>9 DEF Registered
  <2>2. MockLaplace(p).folds = FALSE /\ MockLaplace(p).says = "stages" /\ MockLaplace(p).declares = "return"
    BY DEF MockLaplace, Adapter
  <2> QED
    BY <1>9, <2>1, <2>2, RelaxedBuilt DEF Behaved
<1>10. ASSUME n = "mock.modal2d" PROVE Behaved(n, p, R)
  <2>1. R = MockModal(p)
    BY <1>10 DEF Registered
  <2>2. MockModal(p).folds = FALSE /\ MockModal(p).says = "direct" /\ MockModal(p).declares = "none"
    BY DEF MockModal, Adapter
  <2> QED
    BY <1>10, <2>1, <2>2, ModalBuilt DEF Behaved
<1>11. ASSUME n = "dolfinx.heat2d" PROVE Behaved(n, p, R)
  BY <1>11, StagedBuilt DEF Registered, DolfinxHeat, Adapter, Behaved
<1>12. ASSUME n = "dolfinx.magnetostatics2d" PROVE Behaved(n, p, R)
  BY <1>12, StagedBuilt DEF Registered, DolfinxMagnetostatics, Adapter, Behaved
<1>13. ASSUME n = "dolfinx.electrostatics_axi2d" PROVE Behaved(n, p, R)
  BY <1>13, StagedBuilt DEF Registered, DolfinxElectrostatics, Adapter, Behaved
<1>14. ASSUME n = "dolfinx.elasticity2d" PROVE Behaved(n, p, R)
  BY <1>14, StagedBuilt DEF Registered, DolfinxElasticity, Adapter, Behaved
<1>15. ASSUME n = "dolfinx.modal2d" PROVE Behaved(n, p, R)
  BY <1>15, StagedBuilt DEF Registered, DolfinxModal, Adapter, Behaved
<1>16. ASSUME n = "dolfinx.potential_flow2d" PROVE Behaved(n, p, R)
  <2>1. R = DolfinxPotentialFlow(p)
    BY <1>16 DEF Registered
  <2>2. DolfinxPotentialFlow(p).folds = FALSE /\ DolfinxPotentialFlow(p).says = "direct" /\ DolfinxPotentialFlow(p).declares = "none"
    BY DEF DolfinxPotentialFlow, Adapter
  <2> QED
    BY <1>16, <2>1, <2>2, CirculationBuilt, FlowBuilt DEF Behaved
<1>17. ASSUME n = "dolfinx.heat_nonlinear2d" PROVE Behaved(n, p, R)
  <2>1. R = DolfinxNonlinearHeat(p)
    BY <1>17 DEF Registered
  <2>2. DolfinxNonlinearHeat(p).folds = FALSE /\ DolfinxNonlinearHeat(p).says = "last" /\ DolfinxNonlinearHeat(p).declares = "fail"
    BY DEF DolfinxNonlinearHeat, Adapter
  <2> QED
    BY <1>17, <2>1, <2>2, NonlinearBuilt DEF Behaved
<1>18. ASSUME n = "dolfinx.transient_heat2d" PROVE Behaved(n, p, R)
  <2>1. R = DolfinxTransientHeat(p)
    BY <1>18 DEF Registered
  <2>2. DolfinxTransientHeat(p).folds = FALSE /\ DolfinxTransientHeat(p).says = "direct" /\ DolfinxTransientHeat(p).declares = "none"
    BY DEF DolfinxTransientHeat, Adapter
  <2> QED
    BY <1>18, <2>1, <2>2, SteppedBuilt DEF Behaved
<1> HIDE DEF R
<1> QED
  BY <1>3, <1>4, <1>5, <1>6, <1>7, <1>8, <1>9, <1>10, <1>11, <1>12, <1>13, <1>14, <1>15, <1>16, <1>17, <1>18 DEF SolverNames, R

-----------------------------------------------------------------------------
(* A solve *)

Residual == {"small", "large", "nan"}
Notes == [overrun : Nat, short : BOOLEAN, nan : BOOLEAN]
Outcomes == {"solving", "cancelled", "failed", "converged", "unconverged"}

LoopsTypeOK ==
    /\ solver \in SolverNames /\ params \in Params
    /\ place \in [pc : 1..(Len(A.program) + 1), phase : {"check", "sweep"}, sweep : Nat]
    /\ ticks \in Nat /\ frames \in Nat
    /\ shown \in [at : Nat, of : Nat]
    /\ found \in [residual : Residual, stages : Seq(Residual), capped : Nat]
    /\ cancelled \in BOOLEAN /\ outcome \in Outcomes
    /\ noted \in Notes

Here == place.pc \in DOMAIN A.program
Looping == Here /\ Instruction.do \in Loops

\* A loop is left at its cap, and nothing else sweeps.
SweepsAreCounted ==
    /\ place.phase = "sweep" \/ place.sweep # 0 => Looping
    /\ Looping => place.sweep < Instruction.cap

\* Nothing is done after a cancel but what was under way, and as much as may lie
\* between two checks.
OverrunIsShort ==
    /\ ~cancelled => noted.overrun = 0
    /\ noted.overrun <= 2
    /\ outcome = "solving" =>
         /\ place.phase = "sweep" => noted.overrun = 0
         /\ place.phase = "check" /\ place.sweep = 0 =>
                \A s : Leeway(A.program, s) => noted.overrun <= s[place.pc]

\* Whatever fell short shows in what the adapter looks at when it is done.
ShortIsSeen ==
    /\ A.says = "last" /\ noted.short =>
         /\ found.residual # "small" \/ (A.folds /\ noted.nan)
         /\ \A i \in DOMAIN A.program : place.pc <= i => A.program[i].do \notin Loops
    /\ A.says = "steps" /\ noted.short => found.capped > 0 \/ noted.nan
    /\ A.says = "direct" => ~noted.short

\* mock.laplace2d's relaxations, one or two, and the clock they share.
StagesAreKept ==
    A.says = "stages" =>
        /\ Len(found.stages) = IF place.pc = 1 THEN 0
                               ELSE IF place.pc <= Len(A.program) THEN place.pc - 2
                               ELSE Len(A.program) - 2
        /\ \A i \in DOMAIN found.stages : i > 1 => found.stages[i] # "nan"
        /\ noted.short => \E i \in DOMAIN found.stages : found.stages[i] # "small"

ClockIsShared ==
    solver = Clocked =>
        /\ place.pc <= 2 => ticks = place.sweep
        /\ place.pc = 3 /\ params.kutta => ticks <= params.cap + place.sweep
        /\ shown.at <= ticks
        /\ place.pc >= 3 /\ place.sweep = 0 => shown.at = ticks

\* What was reported lies between what the program reported before and what it will.
ProgressIsPlaced ==
    /\ shown.at <= shown.of
    /\ solver # Newton =>
         \A i \in DOMAIN A.program :
             A.program[i].do \in {"report"} \cup Loops => shown.of \in {0, A.program[i].of}
    /\ solver \notin {Clocked, Newton} =>
         \A t : Mark(A.program, t) =>
             IF Looping THEN shown.at <= place.sweep ELSE shown.at <= t[place.pc]

LoopsInv ==
    /\ LoopsTypeOK /\ SweepsAreCounted /\ OverrunIsShort /\ ShortIsSeen /\ StagesAreKept
    /\ ClockIsShared /\ ProgressIsPlaced /\ SolveIsHonest

\* The program is the solver's, and stays it.
LEMMA ProgramStays ==
    ASSUME LoopsTypeOK, [LoopsNext]_loopVars
    PROVE  /\ solver' = solver /\ params' = params /\ A' = A
           /\ Behaved(solver, params, A)
           /\ A.program \in Seq(Instructions) /\ Len(A.program) \in Nat
           /\ DOMAIN A.program = 1..Len(A.program)
           /\ \A i \in DOMAIN A.program : A.program[i] \in Instructions
<1>1. solver' = solver /\ params' = params
  BY DEF LoopsNext, loopVars, CheckCancelled, Progress, DoWork, Sweep, LoseDirection, Return,
         CancelSolve
<1>2. Behaved(solver, params, A)
  BY AdaptersBehave DEF LoopsTypeOK, A
<1>3. A.program \in Seq(Instructions)
  BY <1>2 DEF Behaved, WellBuilt
<1> QED
  BY <1>1, <1>2, <1>3 DEF A

LEMMA WorkedCounts ==
    ASSUME LoopsTypeOK
    PROVE  /\ Worked \in Nat /\ Worked = noted.overrun + (IF cancelled THEN 1 ELSE 0)
           /\ noted \in Notes /\ noted.short \in BOOLEAN /\ noted.nan \in BOOLEAN
           /\ noted.overrun \in Nat
BY DEF Worked, LoopsTypeOK, Notes

\* What a sweep does, its residuals being read.
Swept(first, second, residual, met, over, framed) ==
    LET n == place.sweep + 1
        step == Instruction.do = "steps" IN
    /\ first \in Residuals /\ second \in Residuals
    /\ residual = IF A.folds THEN PyMax(PyMax("small", first), second) ELSE first
    /\ met <=> first = "small" /\ (A.folds => second = "small")
    /\ A.folds \/ second = first
    /\ over <=> n = Instruction.cap \/ (~step /\ residual = "small")
    /\ framed => step
    /\ found' = [residual |-> residual,
                 stages   |-> IF over THEN Append(found.stages, residual) ELSE found.stages,
                 capped   |-> found.capped + (IF step /\ residual # "small" THEN 1 ELSE 0)]
    /\ noted' \in Notes
    /\ noted'.overrun = noted.overrun + (IF cancelled THEN 1 ELSE 0)
    /\ noted'.short <=> noted.short \/ ((over \/ step) /\ ~met)
    /\ noted'.nan <=> noted.nan \/ "nan" \in {first, second}
    /\ ticks' = ticks + 1
    /\ \/ /\ framed /\ outcome' = "failed" /\ UNCHANGED <<place, shown, frames>>
       \/ /\ frames' = frames + (IF framed THEN 1 ELSE 0)
          /\ shown' = IF Due(n, residual) THEN ReportAt(n) ELSE shown
          /\ place' = IF over THEN At(place.pc + 1)
                      ELSE [place EXCEPT !.phase = "check", !.sweep = n]
          /\ outcome' = outcome

LEMMA SweepTold ==
    ASSUME Sweep, LoopsTypeOK
    PROVE  \E first, second, residual : \E met, over, framed \in BOOLEAN :
               Swept(first, second, residual, met, over, framed)
<1> DEFINE n == place.sweep + 1
           res(first, second) == IF A.folds THEN PyMax(PyMax("small", first), second) ELSE first
           met(first, second) == first = "small" /\ (A.folds => second = "small")
           step == Instruction.do = "steps"
           over(first, second) == n = Instruction.cap \/ (~step /\ res(first, second) = "small")
           framed == step /\ params.save > 0 /\ n % params.save = 0
<1>1. PICK first, second \in Residuals :
         /\ A.folds \/ second = first
         /\ found' = [residual |-> res(first, second),
                      stages   |-> IF over(first, second) THEN Append(found.stages, res(first, second))
                                   ELSE found.stages,
                      capped   |-> found.capped
                                     + (IF step /\ res(first, second) # "small" THEN 1 ELSE 0)]
         /\ noted' = [overrun |-> Worked,
                      short |-> noted.short
                                  \/ ((over(first, second) \/ step) /\ ~met(first, second)),
                      nan |-> noted.nan \/ "nan" \in {first, second}]
         /\ ticks' = ticks + 1
         /\ IF framed /\ frames = MaxFrames
            THEN outcome' = "failed" /\ UNCHANGED <<place, shown, frames>>
            ELSE /\ frames' = frames + (IF framed THEN 1 ELSE 0)
                 /\ shown' = IF Due(n, res(first, second)) THEN ReportAt(n) ELSE shown
                 /\ place' = IF over(first, second) THEN At(place.pc + 1)
                             ELSE [place EXCEPT !.phase = "check", !.sweep = n]
                 /\ UNCHANGED outcome
  BY Zenon DEF Sweep
<1>2. /\ noted' \in Notes
      /\ noted'.overrun = noted.overrun + (IF cancelled THEN 1 ELSE 0)
      /\ (noted'.short <=> noted.short \/ ((over(first, second) \/ step) /\ ~met(first, second)))
      /\ (noted'.nan <=> noted.nan \/ "nan" \in {first, second})
  <2> DEFINE b == noted.short \/ ((over(first, second) \/ step) /\ ~met(first, second))
             c == noted.nan \/ "nan" \in {first, second}
  <2>1. noted' = [overrun |-> Worked, short |-> b, nan |-> c]
    BY <1>1, Zenon
  <2>2. b \in BOOLEAN /\ c \in BOOLEAN
    BY WorkedCounts, Zenon
  <2> HIDE DEF b, c
  <2>3. noted' \in Notes
    BY <2>1, <2>2, WorkedCounts DEF Notes
  <2>4. noted'.overrun = Worked /\ noted'.short = b /\ noted'.nan = c
    BY <2>1, Zenon
  <2> QED
    BY <2>3, <2>4, WorkedCounts, Zenon DEF b, c
<1>3. Swept(first, second, res(first, second), met(first, second), over(first, second), framed)
  BY <1>1, <1>2, Zenon DEF Swept
<1> QED
  BY <1>3, Zenon

\* What is noted when the search direction is lost.
LEMMA LostNotes ==
    ASSUME LoseDirection, LoopsTypeOK
    PROVE  /\ noted' \in Notes
           /\ noted'.overrun = noted.overrun + (IF cancelled THEN 1 ELSE 0)
           /\ (noted'.short <=> noted.short \/ found.residual # "small")
           /\ noted'.nan = noted.nan
<1> DEFINE b == noted.short \/ found.residual # "small"
<1>1. noted' = [overrun |-> Worked, short |-> b, nan |-> noted.nan]
  BY Zenon DEF LoseDirection
<1>2. b \in BOOLEAN
  BY WorkedCounts, Zenon
<1> HIDE DEF b
<1>3. noted' \in Notes
  BY <1>1, <1>2, WorkedCounts DEF Notes
<1>4. noted'.overrun = Worked /\ noted'.short = b /\ noted'.nan = noted.nan
  BY <1>1, Zenon
<1> QED
  BY <1>3, <1>4, WorkedCounts, Zenon DEF b

LEMMA LoopsStart == LoopsInit => LoopsInv
<1> SUFFICES ASSUME LoopsInit PROVE LoopsInv
  OBVIOUS
<1>1. /\ solver \in SolverNames /\ params \in Params
      /\ Behaved(solver, params, A) /\ A.program \in Seq(Instructions)
  BY AdaptersBehave DEF LoopsInit, A, Behaved, WellBuilt
<1>2. /\ place.pc = 1 /\ place.phase = "check" /\ place.sweep = 0 /\ ticks = 0
      /\ shown.at = 0 /\ shown.of = 0 /\ found.stages = <<>> /\ found.capped = 0
      /\ found.residual \in Residual /\ ~cancelled /\ outcome = "solving"
      /\ noted.overrun = 0 /\ ~noted.short
  BY DEF LoopsInit, At, Residual
<1>3. Len(A.program) \in Nat /\ DOMAIN A.program = 1..Len(A.program)
  BY <1>1
<1>4. LoopsTypeOK
  <2>1. place \in [pc : 1..(Len(A.program) + 1), phase : {"check", "sweep"}, sweep : Nat]
    BY <1>3 DEF LoopsInit, At
  <2>2. found \in [residual : Residual, stages : Seq(Residual), capped : Nat]
    BY DEF LoopsInit, Residual
  <2>3. noted \in Notes /\ shown \in [at : Nat, of : Nat]
    BY DEF LoopsInit, Notes
  <2> QED
    BY <1>1, <2>1, <2>2, <2>3 DEF LoopsTypeOK, LoopsInit, Outcomes
<1>5. SweepsAreCounted
  <2>1. Looping => 0 < Instruction.cap
    BY <1>1, InstructionKinds DEF Looping, Here, Instruction
  <2> QED
    BY <1>2, <2>1 DEF SweepsAreCounted
<1>6. OverrunIsShort
  <2>1. ASSUME NEW s, Leeway(A.program, s) PROVE 0 <= s[1]
    BY <2>1, <1>3 DEF Leeway
  <2> QED
    BY <1>2, <2>1 DEF OverrunIsShort
<1>7. ShortIsSeen /\ StagesAreKept /\ ClockIsShared
  BY <1>2 DEF ShortIsSeen, StagesAreKept, ClockIsShared
<1>8. ProgressIsPlaced
  <2>1. ASSUME NEW t, Mark(A.program, t) PROVE 0 <= t[1]
    BY <2>1, <1>3 DEF Mark
  <2> QED
    BY <1>2, <2>1 DEF ProgressIsPlaced
<1>9. SolveIsHonest
  BY <1>2 DEF SolveIsHonest, ConvergedIsMet, FailIsFail, CancelsInTime, LastSweepIsTold
<1> QED
  BY <1>4, <1>5, <1>6, <1>7, <1>8, <1>9 DEF LoopsInv

LEMMA LoopsTypesKept ==
    ASSUME LoopsTypeOK, SweepsAreCounted, [LoopsNext]_loopVars
    PROVE  LoopsTypeOK'
<1>1. /\ solver' = solver /\ params' = params /\ A' = A /\ Len(A.program) \in Nat
      /\ DOMAIN A.program = 1..Len(A.program)
      /\ \A i \in DOMAIN A.program : A.program[i] \in Instructions
  BY ProgramStays
<1> DEFINE Spots == [pc : 1..(Len(A.program) + 1), phase : {"check", "sweep"}, sweep : Nat]
<1>2. \A pc \in 1..Len(A.program) : At(pc + 1) \in Spots
  BY <1>1 DEF At
<1>3. Here => place.pc \in 1..Len(A.program)
  BY <1>1 DEF Here
<1>4. Running => place.pc \in 1..Len(A.program)
  BY <1>1 DEF Running, LoopsTypeOK
<1> HIDE DEF Spots
<1>5. CASE CheckCancelled
  <2>1. place' \in Spots
    <3>1. CASE Instruction.do = "check"
      BY <1>5, <1>2, <1>4, <3>1 DEF CheckCancelled, LoopsTypeOK, Spots
    <3>2. CASE Instruction.do # "check"
      <4>1. place' = place \/ place' = [place EXCEPT !.phase = "sweep"]
        BY <1>5, <3>2 DEF CheckCancelled
      <4> QED
        BY <4>1 DEF LoopsTypeOK, Spots
    <3> QED
      BY <3>1, <3>2
  <2> QED
    BY <1>1, <1>5, <2>1 DEF CheckCancelled, LoopsTypeOK, Outcomes, Spots
<1>6. CASE Progress
  <2>1. place' \in Spots
    BY <1>6, <1>2, <1>4 DEF Progress
  <2>2. shown' \in [at : Nat, of : Nat]
    BY <1>1, <1>6, <1>4, InstructionKinds DEF Progress, Instruction
  <2> QED
    BY <1>1, <1>6, <2>1, <2>2 DEF Progress, LoopsTypeOK, Spots
<1>7. CASE DoWork
  <2>1. place' \in Spots
    BY <1>7, <1>2, <1>4 DEF DoWork, LoopsTypeOK, Spots
  <2>2. noted' \in Notes
    BY <1>7, WorkedCounts DEF DoWork, Notes
  <2> QED
    BY <1>1, <1>7, <2>1, <2>2 DEF DoWork, LoopsTypeOK, Outcomes, Spots
<1>8. CASE Sweep
  <2>1. PICK first, second, residual : \E met, over, framed \in BOOLEAN :
            Swept(first, second, residual, met, over, framed)
    BY <1>8, SweepTold, Zenon
  <2>2. PICK met, over, framed \in BOOLEAN : Swept(first, second, residual, met, over, framed)
    BY <2>1, Zenon
  <2>3. residual \in Residual
    BY <2>2 DEF Swept, Residuals, Residual, PyMax
  <2>4. place' \in Spots /\ outcome' \in Outcomes
    <3>1. \/ place' = At(place.pc + 1) \/ place' = place
          \/ place' = [place EXCEPT !.phase = "check", !.sweep = place.sweep + 1]
      BY <2>2 DEF Swept
    <3>2. place \in Spots /\ outcome \in Outcomes /\ "failed" \in Outcomes
      BY DEF LoopsTypeOK, Spots, Outcomes
    <3>3. [place EXCEPT !.phase = "check", !.sweep = place.sweep + 1] \in Spots
      <4>1. place.sweep + 1 \in Nat
        BY <3>2 DEF Spots
      <4>2. \A w \in Nat : [place EXCEPT !.phase = "check", !.sweep = w] \in Spots
        BY <3>2 DEF Spots
      <4> QED
        BY <4>1, <4>2
    <3>4. At(place.pc + 1) \in Spots
      BY <1>2, <1>4, <1>8 DEF Sweep
    <3>5. outcome' = outcome \/ outcome' = "failed"
      BY <2>2 DEF Swept
    <3> QED
      BY <3>1, <3>2, <3>3, <3>4, <3>5
  <2>5. found' \in [residual : Residual, stages : Seq(Residual), capped : Nat]
    BY <2>2, <2>3 DEF Swept, LoopsTypeOK
  <2>6. noted' \in Notes
    BY <2>2 DEF Swept
  <2>7. frames' \in Nat /\ ticks' \in Nat
    <3>1. ticks' = ticks + 1
      BY <2>2 DEF Swept
    <3>2. frames' = frames \/ frames' = frames + 1 \/ frames' = frames + 0
      BY <2>2 DEF Swept
    <3> QED
      BY <3>1, <3>2 DEF LoopsTypeOK
  <2>8. shown' \in [at : Nat, of : Nat]
    <3>1. Instruction.of \in Nat
      BY <1>1, <1>4, <1>8, InstructionKinds DEF Sweep, Instruction, SweepsAreCounted, Looping
    <3> QED
      BY <2>2, <3>1 DEF Swept, ReportAt, LoopsTypeOK
  <2> QED
    BY <1>1, <1>8, <2>4, <2>5, <2>6, <2>7, <2>8 DEF Sweep, LoopsTypeOK, Spots
<1>9. CASE LoseDirection
  <2>1. place' \in Spots
    BY <1>9, <1>2, <1>4 DEF LoseDirection
  <2>2. noted' \in Notes
    BY <1>9, LostNotes
  <2>3. found' \in [residual : Residual, stages : Seq(Residual), capped : Nat]
    <3>1. Append(found.stages, found.residual) \in Seq(Residual)
      BY DEF LoopsTypeOK
    <3> QED
      BY <1>9, <3>1 DEF LoseDirection, LoopsTypeOK
  <2> QED
    BY <1>1, <1>9, <2>1, <2>2, <2>3 DEF LoseDirection, LoopsTypeOK, Spots
<1>10. CASE Return
  BY <1>1, <1>10 DEF Return, LoopsTypeOK, Outcomes
<1>11. CASE CancelSolve
  BY <1>1, <1>11 DEF CancelSolve, LoopsTypeOK
<1>12. CASE UNCHANGED loopVars
  BY <1>1, <1>12 DEF loopVars, LoopsTypeOK
<1> QED
  BY <1>5, <1>6, <1>7, <1>8, <1>9, <1>10, <1>11, <1>12 DEF LoopsNext

\* Where a solve is in its program.
LEMMA PlaceTold ==
    ASSUME LoopsTypeOK, SweepsAreCounted, [LoopsNext]_loopVars
    PROVE  /\ place.pc \in Nat /\ place.sweep \in Nat /\ 1 <= place.pc
           /\ Running => Here
           /\ Here => /\ place.pc \in 1..Len(A.program) /\ place.pc + 1 \in 1..(Len(A.program) + 1)
                      /\ Instruction \in Instructions /\ Instruction = A.program[place.pc]
           /\ ~Looping => place.phase = "check" /\ place.sweep = 0
           /\ Looping => /\ Here /\ Instruction.do \in Loops
                         /\ Instruction.cap \in Nat /\ place.sweep + 1 <= Instruction.cap
           /\ place.phase = "sweep" => Looping
<1>1. /\ Len(A.program) \in Nat /\ DOMAIN A.program = 1..Len(A.program)
      /\ \A i \in DOMAIN A.program : A.program[i] \in Instructions
  BY ProgramStays
<1>2. place.pc \in 1..(Len(A.program) + 1) /\ place.sweep \in Nat /\ place.phase \in {"check", "sweep"}
  BY DEF LoopsTypeOK
<1>3. Running => Here
  BY <1>1, <1>2 DEF Running, Here
<1>4. Here => /\ place.pc \in 1..Len(A.program) /\ place.pc + 1 \in 1..(Len(A.program) + 1)
              /\ Instruction \in Instructions /\ Instruction = A.program[place.pc]
  BY <1>1 DEF Here, Instruction
<1>5. Looping => Instruction.cap \in Nat
  BY <1>4, InstructionKinds DEF Looping
<1> QED
  BY <1>1, <1>2, <1>3, <1>4, <1>5 DEF SweepsAreCounted, Looping

\* A step stays at its instruction or goes on to the next one.
LEMMA PlaceMoves ==
    ASSUME LoopsTypeOK, [LoopsNext]_loopVars
    PROVE  \/ place'.pc = place.pc
           \/ Running /\ place' = At(place.pc + 1)
<1>1. CASE CheckCancelled
  <2>1. CASE Instruction.do = "check"
    BY <1>1, <2>1 DEF CheckCancelled
  <2>2. CASE Instruction.do # "check"
    <3>1. place' = place \/ place' = [place EXCEPT !.phase = "sweep"]
      BY <1>1, <2>2 DEF CheckCancelled
    <3> QED
      BY <3>1 DEF LoopsTypeOK
  <2> QED
    BY <2>1, <2>2
<1>2. CASE Sweep
  <2>1. PICK first, second, residual : \E met, over, framed \in BOOLEAN :
            Swept(first, second, residual, met, over, framed)
    BY <1>2, SweepTold, Zenon
  <2>2. PICK met, over, framed \in BOOLEAN : Swept(first, second, residual, met, over, framed)
    BY <2>1, Zenon
  <2>3. \/ place' = At(place.pc + 1) \/ place' = place
        \/ place' = [place EXCEPT !.phase = "check", !.sweep = place.sweep + 1]
    BY <2>2 DEF Swept
  <2> QED
    BY <1>2, <2>3 DEF Sweep, LoopsTypeOK
<1>3. CASE Progress \/ DoWork \/ LoseDirection \/ Return \/ CancelSolve \/ UNCHANGED loopVars
  BY <1>3 DEF Progress, DoWork, LoseDirection, Return, CancelSolve, loopVars
<1> QED
  BY <1>1, <1>2, <1>3 DEF LoopsNext

LEMMA StaysThere ==
    ASSUME A' = A, place'.pc = place.pc
    PROVE  Instruction' = Instruction /\ (Here' <=> Here) /\ (Looping' <=> Looping)
BY DEF Instruction, Here, Looping

\* Its program having come to a piece of work, a report or a check, a solve is in no loop.
LEMMA NotLooping ==
    ASSUME Instruction.do \in {"check", "work", "report"}
    PROVE  ~Looping
BY DEF Looping, Loops

LEMMA SweepsStayCounted ==
    ASSUME LoopsTypeOK, SweepsAreCounted, LoopsTypeOK', [LoopsNext]_loopVars
    PROVE  SweepsAreCounted'
<1>1. /\ A' = A /\ DOMAIN A.program = 1..Len(A.program)
      /\ \A i \in DOMAIN A.program : A.program[i] \in Instructions
  BY ProgramStays
<1>2. ASSUME NEW pc, place' = At(pc) PROVE SweepsAreCounted'
  <2>1. place'.phase = "check" /\ place'.sweep = 0
    BY <1>2 DEF At
  <2>2. Looping' => 0 < Instruction'.cap
    BY <1>1, InstructionKinds DEF Looping, Here, Instruction
  <2> QED
    BY <2>1, <2>2 DEF SweepsAreCounted
<1>3. ASSUME place' = place PROVE SweepsAreCounted'
  BY <1>1, <1>3, StaysThere DEF SweepsAreCounted
<1>4. CASE CheckCancelled
  <2>1. CASE place' = [place EXCEPT !.phase = "sweep"] /\ Instruction.do # "check"
    <3>1. place'.pc = place.pc /\ place'.sweep = place.sweep
      BY <2>1 DEF LoopsTypeOK
    <3>2. Looping
      BY <1>4, <2>1, PlaceTold DEF CheckCancelled, Looping, Loops
    <3> QED
      BY <1>1, <3>1, <3>2, StaysThere DEF SweepsAreCounted
  <2>2. \/ place' = place \/ place' = At(place.pc + 1)
        \/ place' = [place EXCEPT !.phase = "sweep"] /\ Instruction.do # "check"
    <3>1. CASE Instruction.do = "check"
      BY <1>4, <3>1 DEF CheckCancelled
    <3>2. CASE Instruction.do # "check"
      BY <1>4, <3>2 DEF CheckCancelled
    <3> QED
      BY <3>1, <3>2
  <2> QED
    BY <1>2, <1>3, <2>1, <2>2
<1>5. CASE Sweep
  <2>1. PICK first, second, residual : \E met, over, framed \in BOOLEAN :
            Swept(first, second, residual, met, over, framed)
    BY <1>5, SweepTold, Zenon
  <2>2. PICK met, over, framed \in BOOLEAN : Swept(first, second, residual, met, over, framed)
    BY <2>1, Zenon
  <2>3. CASE place' = [place EXCEPT !.phase = "check", !.sweep = place.sweep + 1] /\ ~over
    <3>1. place'.pc = place.pc /\ place'.sweep = place.sweep + 1 /\ place'.phase = "check"
      BY <2>3 DEF LoopsTypeOK
    <3>2. Looping /\ place.sweep + 1 # Instruction.cap
      BY <1>5, <2>2, <2>3, PlaceTold DEF Sweep, Swept
    <3>3. place.sweep + 1 < Instruction.cap
      BY <3>2, PlaceTold
    <3> QED
      BY <1>1, <3>1, <3>2, <3>3, StaysThere DEF SweepsAreCounted
  <2>4. \/ place' = At(place.pc + 1) \/ place' = place
        \/ place' = [place EXCEPT !.phase = "check", !.sweep = place.sweep + 1] /\ ~over
    BY <2>2 DEF Swept
  <2> QED
    BY <1>2, <1>3, <2>3, <2>4
<1>6. CASE Progress \/ DoWork \/ LoseDirection
  BY <1>2, <1>3, <1>6 DEF Progress, DoWork, LoseDirection
<1>7. CASE Return \/ CancelSolve \/ UNCHANGED loopVars
  BY <1>3, <1>7 DEF Return, CancelSolve, loopVars
<1> QED
  BY <1>4, <1>5, <1>6, <1>7 DEF LoopsNext

\* A cancel is seen after what was under way and at most one more piece of work.
LEMMA OverrunStaysShort ==
    ASSUME LoopsTypeOK, SweepsAreCounted, OverrunIsShort, LoopsTypeOK', [LoopsNext]_loopVars
    PROVE  OverrunIsShort'
<1> USE DEF OverrunIsShort
<1>1. /\ A' = A /\ DOMAIN A.program = 1..Len(A.program) /\ Len(A.program) \in Nat
  BY ProgramStays
<1>2. \E s : Leeway(A.program, s)
  BY ProgramStays DEF Behaved, WellBuilt
<1>3. ASSUME NEW s, Leeway(A.program, s)
      PROVE  /\ \A pc \in 1..(Len(A.program) + 1) : s[pc] \in 0..2
             /\ Here /\ Instruction.do = "work" => s[place.pc] + 1 <= s[place.pc + 1]
             /\ Here /\ Instruction.do = "report" => s[place.pc] <= s[place.pc + 1]
             /\ Looping => 1 <= s[place.pc + 1]
  BY <1>3 DEF Leeway, Here, Instruction, Looping
<1>4. noted.overrun \in Nat /\ noted'.overrun \in Nat /\ cancelled \in BOOLEAN
  BY DEF LoopsTypeOK, Notes
<1>5. \A pc : At(pc).pc = pc /\ At(pc).phase = "check" /\ At(pc).sweep = 0
  BY DEF At
<1>6. place'.pc \in 1..(Len(A.program) + 1) /\ place.pc \in 1..(Len(A.program) + 1)
  BY <1>1 DEF LoopsTypeOK
<1>7. CASE CheckCancelled
  <2>1. CASE cancelled
    BY <1>7, <2>1 DEF CheckCancelled
  <2>2. CASE ~cancelled
    <3>1. noted'.overrun = 0
      BY <1>7, <2>2 DEF CheckCancelled
    <3>2. \A s : Leeway(A.program, s) => 0 <= s[place'.pc]
      BY <1>1, <1>3, <1>6
    <3> QED
      BY <3>1, <3>2, <1>1
  <2> QED
    BY <1>4, <2>1, <2>2
<1>8. CASE Progress
  <2>1. Here /\ Instruction.do = "report" /\ place.phase = "check" /\ place.sweep = 0
    BY <1>8, PlaceTold, NotLooping DEF Progress
  <2>2. /\ noted' = noted /\ cancelled' = cancelled /\ outcome' = outcome /\ outcome = "solving"
        /\ place' = At(place.pc + 1)
    BY <1>8 DEF Progress, Running
  <2>3. ASSUME NEW s, Leeway(A.program, s) PROVE noted.overrun <= s[place.pc + 1]
    <3>1. noted.overrun <= s[place.pc] /\ s[place.pc] <= s[place.pc + 1]
      BY <1>3, <2>1, <2>2, <2>3
    <3>2. s[place.pc] \in 0..2 /\ s[place.pc + 1] \in 0..2
      BY <1>3, <2>1, <2>3, <1>6, PlaceTold
    <3> QED
      BY <3>1, <3>2, <1>4
  <2> QED
    BY <1>1, <1>5, <2>2, <2>3
<1>9. CASE DoWork
  <2>1. Here /\ Instruction.do = "work" /\ place.phase = "check" /\ place.sweep = 0
    BY <1>9, PlaceTold, NotLooping DEF DoWork
  <2>2. /\ noted' = [noted EXCEPT !.overrun = Worked] /\ cancelled' = cancelled
        /\ outcome = "solving"
        /\ place' = At(place.pc + 1) \/ outcome' = "failed"
    BY <1>9 DEF DoWork, Running
  <2>3. noted'.overrun = noted.overrun + (IF cancelled THEN 1 ELSE 0)
    BY <2>2, WorkedCounts DEF Notes
  <2>4. ASSUME NEW s, Leeway(A.program, s)
        PROVE  noted'.overrun <= s[place.pc + 1] /\ s[place.pc + 1] \in 0..2
    <3>1. noted.overrun <= s[place.pc] /\ s[place.pc] + 1 <= s[place.pc + 1]
      BY <1>3, <2>1, <2>2, <2>4
    <3>2. s[place.pc] \in 0..2 /\ s[place.pc + 1] \in 0..2
      BY <1>3, <2>1, <2>4, <1>6, PlaceTold
    <3> QED
      BY <3>1, <3>2, <2>3, <1>4
  <2>5. noted'.overrun <= 2
    BY <1>2, <1>4, <2>4
  <2>6. ~cancelled' => noted'.overrun = 0
    BY <2>2, <2>3
  <2> QED
    BY <1>1, <1>5, <2>2, <2>4, <2>5, <2>6
<1>10. CASE Sweep \/ LoseDirection
  <2>1. Running /\ place.phase = "sweep" /\ cancelled' = cancelled
    BY <1>10 DEF Sweep, LoseDirection
  <2>2. Looping /\ Here /\ noted.overrun = 0
    BY <2>1, PlaceTold DEF Running
  <2>3. noted'.overrun = noted.overrun + (IF cancelled THEN 1 ELSE 0)
    <3>1. CASE Sweep
      <4>1. PICK first, second, residual : \E met, over, framed \in BOOLEAN :
                Swept(first, second, residual, met, over, framed)
        BY <3>1, SweepTold, Zenon
      <4> QED
        BY <4>1 DEF Swept
    <3> QED
      BY <1>10, <3>1, LostNotes
  <2>4. \/ place' = At(place.pc + 1) \/ outcome' = "failed"
        \/ place'.phase = "check" /\ place'.sweep = place.sweep + 1
    <3>1. CASE Sweep
      <4>1. PICK first, second, residual : \E met, over, framed \in BOOLEAN :
                Swept(first, second, residual, met, over, framed)
        BY <3>1, SweepTold, Zenon
      <4>2. \/ place' = At(place.pc + 1) \/ outcome' = "failed"
            \/ place' = [place EXCEPT !.phase = "check", !.sweep = place.sweep + 1]
        BY <4>1 DEF Swept
      <4> QED
        BY <4>2 DEF LoopsTypeOK
    <3> QED
      BY <1>10, <3>1 DEF LoseDirection
  <2>5. \A s : Leeway(A.program, s) => 1 <= s[place.pc + 1]
    BY <1>3, <2>2
  <2>6. noted'.overrun = 0 \/ (cancelled /\ noted'.overrun = 1)
    BY <2>2, <2>3
  <2>7. ASSUME NEW s, Leeway(A.program, s) PROVE noted'.overrun <= s[place.pc + 1]
    <3>1. s[place.pc + 1] \in 0..2
      BY <1>3, <2>2, <2>7, PlaceTold
    <3> QED
      BY <2>5, <2>6, <2>7, <3>1
  <2>8. place.sweep + 1 # 0
    BY PlaceTold
  <2> QED
    BY <1>1, <1>5, <2>1, <2>4, <2>6, <2>7, <2>8
<1>11. CASE Return
  BY <1>11 DEF Return
<1>12. CASE CancelSolve
  BY <1>1, <1>4, <1>12 DEF CancelSolve
<1>13. CASE UNCHANGED loopVars
  BY <1>1, <1>13 DEF loopVars
<1> QED
  BY <1>7, <1>8, <1>9, <1>10, <1>11, <1>12, <1>13 DEF LoopsNext

\* What the larger of two half sweeps hides: nothing but a nan.
LEMMA FoldedShort ==
    ASSUME NEW a \in Residual, NEW b \in Residual, a # "small" \/ b # "small"
    PROVE  PyMax(PyMax("small", a), b) # "small" \/ a = "nan" \/ b = "nan"
BY DEF PyMax, Residual

\* Whatever falls short shows in what the adapter looks at when it is done.
LEMMA ShortStaysSeen ==
    ASSUME LoopsTypeOK, SweepsAreCounted, ShortIsSeen, LoopsTypeOK', [LoopsNext]_loopVars
    PROVE  ShortIsSeen'
<1>1. /\ A' = A /\ DOMAIN A.program = 1..Len(A.program) /\ Len(A.program) \in Nat
      /\ Behaved(solver, params, A)
  BY ProgramStays
<1>2. place'.pc \in Nat /\ place.pc \in Nat /\ place.pc <= place'.pc
  BY PlaceMoves, PlaceTold DEF At
<1>3. CASE CheckCancelled \/ Progress \/ DoWork \/ Return \/ CancelSolve \/ UNCHANGED loopVars
  <2>1. found' = found /\ (noted'.short <=> noted.short) /\ (noted'.nan <=> noted.nan)
    <3>1. CASE DoWork
      BY <3>1 DEF DoWork, LoopsTypeOK, Notes
    <3> QED
      BY <1>3, <3>1 DEF CheckCancelled, Progress, Return, CancelSolve, loopVars
  <2> QED
    BY <1>1, <1>2, <2>1 DEF ShortIsSeen
<1>4. CASE Sweep
  <2>1. PICK first, second, residual : \E met, over, framed \in BOOLEAN :
            Swept(first, second, residual, met, over, framed)
    BY <1>4, SweepTold, Zenon
  <2>2. PICK met, over, framed \in BOOLEAN : Swept(first, second, residual, met, over, framed)
    BY <2>1, Zenon
  <2>3. /\ Looping /\ Here /\ Instruction = A.program[place.pc] /\ Instruction.do \in Loops
        /\ place.pc \in DOMAIN A.program
    BY <1>4, PlaceTold DEF Sweep, Here
  <2>4. first \in Residual /\ second \in Residual
    BY <2>2 DEF Swept, Residuals, Residual
  <2>5. found'.residual = residual /\ found.capped \in Nat
        /\ found'.capped = found.capped
               + (IF Instruction.do = "steps" /\ residual # "small" THEN 1 ELSE 0)
    BY <2>2 DEF Swept, LoopsTypeOK
  <2>6. /\ met <=> first = "small" /\ (A.folds => second = "small")
        /\ residual = IF A.folds THEN PyMax(PyMax("small", first), second) ELSE first
        /\ noted'.short <=> noted.short \/ ((over \/ Instruction.do = "steps") /\ ~met)
        /\ noted'.nan <=> noted.nan \/ "nan" \in {first, second}
    BY <2>2 DEF Swept
  <2>7. ~met => residual # "small" \/ (A.folds /\ noted'.nan)
    <3>1. CASE A.folds
      BY <3>1, <2>4, <2>6, FoldedShort
    <3>2. CASE ~A.folds
      BY <3>2, <2>6
    <3> QED
      BY <3>1, <3>2
  <2>8. ASSUME A.says = "last", noted'.short
        PROVE  /\ found'.residual # "small" \/ (A.folds /\ noted'.nan)
               /\ \A i \in DOMAIN A.program : place'.pc <= i => A.program[i].do \notin Loops
    <3>1. \A i \in DOMAIN A.program : A.program[i].do \in Loops => i = place.pc /\ A.program[i].do = "sweeps"
      BY <1>1, <2>3, <2>8 DEF Behaved, OneLoop
    <3>2. Instruction.do = "sweeps"
      BY <2>3, <3>1
    <3>3. ~noted.short
      BY <2>3, <2>8, <1>2 DEF ShortIsSeen
    <3>4. over /\ ~met
      BY <2>6, <2>8, <3>2, <3>3
    <3>5. place' = At(place.pc + 1)
      BY <2>2, <3>2, <3>4 DEF Swept
    <3>6. \A i \in DOMAIN A.program : place'.pc <= i => i # place.pc
      BY <3>5, <1>2, <1>1 DEF At
    <3> QED
      BY <2>5, <2>7, <3>1, <3>4, <3>6
  <2>9. ASSUME A.says = "steps", noted'.short PROVE found'.capped > 0 \/ noted'.nan
    <3>1. Instruction.do = "steps"
      BY <1>1, <2>3, <2>9 DEF Behaved, Stepping
    <3>2. CASE noted.short
      BY <2>5, <2>6, <2>9, <3>2 DEF ShortIsSeen
    <3>3. CASE ~noted.short
      <4>1. residual # "small" \/ noted'.nan
        BY <2>6, <2>7, <2>9, <3>3
      <4> QED
        BY <2>5, <3>1, <4>1
    <3> QED
      BY <3>2, <3>3
  <2>10. ASSUME A.says = "direct" PROVE ~noted'.short
    <3>1. first = "small" /\ ~A.folds /\ ~noted.short
      BY <1>1, <2>2, <2>10 DEF Behaved, Swept, Residuals, ShortIsSeen
    <3> QED
      BY <2>6, <3>1
  <2> QED
    BY <1>1, <2>8, <2>9, <2>10 DEF ShortIsSeen
<1>5. CASE LoseDirection
  <2>1. A.says = "last"
    BY <1>1, <1>5 DEF LoseDirection, Behaved
  <2>2. Looping /\ Instruction = A.program[place.pc] /\ place.pc \in DOMAIN A.program
    BY <1>5, PlaceTold DEF LoseDirection, Here
  <2>3. \A i \in DOMAIN A.program : A.program[i].do \in Loops => i = place.pc
    BY <1>1, <2>1, <2>2 DEF Behaved, OneLoop, Looping
  <2>4. ~noted.short
    BY <2>1, <2>2, <1>2 DEF ShortIsSeen, Looping
  <2>5. noted'.short <=> found.residual # "small"
    BY <1>5, <2>4, LostNotes
  <2>6. found'.residual = found.residual /\ place' = At(place.pc + 1)
    BY <1>5 DEF LoseDirection, LoopsTypeOK
  <2>7. \A i \in DOMAIN A.program : place'.pc <= i => i # place.pc
    BY <2>6, <1>1, <1>2 DEF At
  <2> QED
    BY <1>1, <2>1, <2>3, <2>5, <2>6, <2>7 DEF ShortIsSeen
<1> QED
  BY <1>3, <1>4, <1>5 DEF LoopsNext

\* The instructions of mock.laplace2d: the first and the last are work, the others relax.
LEMMA RelaxationTold ==
    ASSUME LoopsTypeOK, SweepsAreCounted, [LoopsNext]_loopVars, solver = Clocked
    PROVE  /\ A.says = "stages" /\ ~A.folds /\ Len(A.program) = IF params.kutta THEN 4 ELSE 3
           /\ params.cap \in Nat
           /\ Here => \/ /\ place.pc = 1 \/ place.pc = Len(A.program)
                         /\ Instruction.do = "work" /\ ~Looping
                      \/ /\ place.pc = 2 \/ (params.kutta /\ place.pc = 3)
                         /\ place.pc < Len(A.program)
                         /\ Instruction.do = "clocked" /\ Looping
                         /\ Instruction.cap = params.cap
                         /\ Instruction.of = IF params.kutta THEN 2 * params.cap ELSE params.cap
<1>1. /\ Behaved(solver, params, A) /\ DOMAIN A.program = 1..Len(A.program)
  BY ProgramStays
<1>2. A.says = "stages" /\ ~A.folds /\ RelaxedBy(params, A.program)
  BY <1>1 DEF Behaved
<1>3. params.cap \in Nat
  BY LoopInstructions DEF LoopsTypeOK
<1>4. CASE params.kutta
  <2>1. Len(A.program) = 4
    BY <1>2, <1>4 DEF RelaxedBy
  <2>2. Here => place.pc = 1 \/ place.pc = 4 \/ place.pc = 2 \/ place.pc = 3
    BY <2>1, PlaceTold
  <2>3. /\ A.program[1].do = "work" /\ A.program[4].do = "work"
        /\ \A i \in {2, 3} : /\ A.program[i].do = "clocked" /\ A.program[i].cap = params.cap
                            /\ A.program[i].of = 2 * params.cap
    BY <1>2, <1>4, <2>1 DEF RelaxedBy
  <2> QED
    BY <1>2, <1>3, <1>4, <2>1, <2>2, <2>3, PlaceTold DEF Looping, Loops
<1>5. CASE ~params.kutta
  <2>1. Len(A.program) = 3
    BY <1>2, <1>5 DEF RelaxedBy
  <2>2. Here => place.pc = 1 \/ place.pc = 3 \/ place.pc = 2
    BY <2>1, PlaceTold
  <2>3. /\ A.program[1].do = "work" /\ A.program[3].do = "work"
        /\ A.program[2].do = "clocked" /\ A.program[2].cap = params.cap
        /\ A.program[2].of = params.cap
    BY <1>2, <1>5, <2>1 DEF RelaxedBy
  <2> QED
    BY <1>2, <1>3, <1>5, <2>1, <2>2, <2>3, PlaceTold DEF Looping, Loops
<1> QED
  BY <1>4, <1>5

\* Each relaxation leaves its residual, the second one never a nan.
LEMMA StagesStayKept ==
    ASSUME LoopsTypeOK, SweepsAreCounted, StagesAreKept, LoopsTypeOK', [LoopsNext]_loopVars
    PROVE  StagesAreKept'
<1> SUFFICES ASSUME A.says = "stages" PROVE StagesAreKept'
  <2>1. A' = A
    BY ProgramStays
  <2> QED
    BY <2>1 DEF StagesAreKept
<1>1. /\ A' = A /\ Len(A.program) \in Nat /\ solver = Clocked
      /\ found.stages \in Seq(Residual)
  BY ProgramStays DEF Behaved, LoopsTypeOK
<1>2. place'.pc \in Nat /\ place.pc \in Nat
  BY PlaceMoves, PlaceTold DEF At
<1> DEFINE Kept(pc) == IF pc = 1 THEN 0
                       ELSE IF pc <= Len(A.program) THEN pc - 2 ELSE Len(A.program) - 2
<1>3. /\ Len(found.stages) = Kept(place.pc)
      /\ \A i \in DOMAIN found.stages : i > 1 => found.stages[i] # "nan"
      /\ noted.short => \E i \in DOMAIN found.stages : found.stages[i] # "small"
  BY DEF StagesAreKept
<1>4. ASSUME found' = found, noted'.short <=> noted.short, place'.pc = place.pc
      PROVE  StagesAreKept'
  BY <1>1, <1>3, <1>4 DEF StagesAreKept
<1>5. CASE CheckCancelled \/ Progress \/ Return \/ CancelSolve \/ UNCHANGED loopVars
  <2>1. found' = found /\ (noted'.short <=> noted.short)
    BY <1>5 DEF CheckCancelled, Progress, Return, CancelSolve, loopVars
  <2>2. CASE Running /\ (CheckCancelled \/ Progress)
    <3>1. Here /\ (Instruction.do = "work" \/ Instruction.do = "clocked")
      BY <1>1, <2>2, PlaceTold, RelaxationTold
    <3>2. place'.pc = place.pc
      BY <2>2, <3>1 DEF CheckCancelled, Progress, LoopsTypeOK
    <3> QED
      BY <1>4, <2>1, <3>2
  <2>3. CASE place' = place
    BY <1>4, <2>1, <2>3
  <2> QED
    BY <1>5, <2>2, <2>3 DEF CheckCancelled, Progress, Return, CancelSolve, loopVars
<1>6. CASE DoWork
  <2>1. found' = found /\ (noted'.short <=> noted.short)
    BY <1>6 DEF DoWork, LoopsTypeOK, Notes
  <2>2. Here /\ Instruction.do = "work"
    BY <1>6, PlaceTold DEF DoWork
  <2>3. place.pc = 1 \/ place.pc = Len(A.program)
    BY <1>1, <2>2, RelaxationTold
  <2>4. Len(A.program) >= 3
    BY <1>1, RelaxationTold
  <2>5. place'.pc = place.pc \/ place'.pc = place.pc + 1
    BY PlaceMoves DEF At
  <2>6. Kept(place'.pc) = Kept(place.pc)
    BY <1>1, <1>2, <2>3, <2>4, <2>5
  <2> QED
    BY <1>1, <1>3, <2>1, <2>6 DEF StagesAreKept
<1>7. CASE Sweep
  <2>1. PICK first, second, residual : \E met, over, framed \in BOOLEAN :
            Swept(first, second, residual, met, over, framed)
    BY <1>7, SweepTold, Zenon
  <2>2. PICK met, over, framed \in BOOLEAN : Swept(first, second, residual, met, over, framed)
    BY <2>1, Zenon
  <2>3. Here /\ Looping
    BY <1>7, PlaceTold DEF Sweep
  <2>4. /\ place.pc = 2 \/ place.pc = 3
        /\ place.pc < Len(A.program)
        /\ Instruction.do = "clocked" /\ ~A.folds
    BY <1>1, <2>3, RelaxationTold
  <2>5. /\ residual = first /\ first \in Residuals /\ (met <=> first = "small")
        /\ noted'.short <=> noted.short \/ (over /\ ~met)
        /\ found'.stages = IF over THEN Append(found.stages, residual) ELSE found.stages
    BY <2>2, <2>4 DEF Swept
  <2>6. CASE over
    <3>1. place' = At(place.pc + 1)
      BY <2>2, <2>4, <2>6 DEF Swept
    <3>2. Kept(place'.pc) = Kept(place.pc) + 1
      BY <1>1, <1>2, <2>4, <3>1 DEF At
    <3>3. residual \in Residual /\ (found.stages # <<>> => residual # "nan")
      BY <2>5, <1>1, RelaxationTold DEF Residuals, Residual
    <3> DEFINE old == found.stages
    <3>4. /\ Len(found'.stages) = Len(old) + 1
          /\ found'.stages[Len(old) + 1] = residual
          /\ \A i \in DOMAIN old : i \in DOMAIN found'.stages /\ found'.stages[i] = old[i]
          /\ Len(old) + 1 \in DOMAIN found'.stages
          /\ \A i \in DOMAIN found'.stages : i \in DOMAIN old \/ i = Len(old) + 1
          /\ Len(old) + 1 > 1 => old # <<>>
      BY <1>1, <2>5, <2>6, <3>3
    <3>5. \A i \in DOMAIN found'.stages : i > 1 => found'.stages[i] # "nan"
      BY <1>3, <3>3, <3>4
    <3>6. noted'.short => \E i \in DOMAIN found'.stages : found'.stages[i] # "small"
      BY <1>3, <2>5, <2>6, <3>4
    <3> QED
      BY <1>1, <1>3, <3>2, <3>4, <3>5, <3>6 DEF StagesAreKept
  <2>7. CASE ~over
    <3>1. place'.pc = place.pc
      <4>1. place' = place \/ place' = [place EXCEPT !.phase = "check", !.sweep = place.sweep + 1]
        BY <2>2, <2>7 DEF Swept
      <4> QED
        BY <4>1 DEF LoopsTypeOK
    <3> QED
      BY <1>1, <1>3, <2>5, <2>7, <3>1 DEF StagesAreKept
  <2> QED
    BY <2>6, <2>7
<1>8. CASE LoseDirection
  BY <1>1, <1>8 DEF LoseDirection, Clocked
<1> QED
  BY <1>5, <1>6, <1>7, <1>8 DEF LoopsNext

\* What a sweep of mock.laplace2d does to its clock and to the progress shown.
LEMMA ClockStaysShared ==
    ASSUME LoopsTypeOK, SweepsAreCounted, ClockIsShared, LoopsTypeOK', [LoopsNext]_loopVars
    PROVE  ClockIsShared'
<1>1. A' = A /\ solver' = solver /\ params' = params /\ Len(A.program) \in Nat
  BY ProgramStays
<1> SUFFICES ASSUME solver = Clocked PROVE ClockIsShared'
  BY <1>1 DEF ClockIsShared
<1>2. place'.pc \in Nat /\ place.pc \in Nat /\ place.sweep \in Nat /\ ticks \in Nat /\ shown.at \in Nat
  <2>1. place.pc \in Nat /\ place.sweep \in Nat
    BY PlaceTold
  <2>2. ticks \in Nat /\ shown.at \in Nat
    BY DEF LoopsTypeOK
  <2>3. place'.pc = place.pc \/ place'.pc = place.pc + 1
    BY PlaceMoves DEF At
  <2> QED
    BY <2>1, <2>2, <2>3
<1>3. /\ place.pc <= 2 => ticks = place.sweep
      /\ place.pc = 3 /\ params.kutta => ticks <= params.cap + place.sweep
      /\ shown.at <= ticks
      /\ place.pc >= 3 /\ place.sweep = 0 => shown.at = ticks
  BY DEF ClockIsShared
<1>4. ASSUME ticks' = ticks, shown' = shown, place'.pc = place.pc, place'.sweep = place.sweep
      PROVE  ClockIsShared'
  BY <1>1, <1>3, <1>4 DEF ClockIsShared
<1>5. CASE CheckCancelled \/ Progress \/ Return \/ CancelSolve \/ UNCHANGED loopVars
  <2>1. CASE Running /\ (CheckCancelled \/ Progress)
    <3>1. Here /\ (Instruction.do = "work" \/ Instruction.do = "clocked")
      BY <2>1, PlaceTold, RelaxationTold
    <3>2. CheckCancelled /\ place'.pc = place.pc /\ place'.sweep = place.sweep
      BY <2>1, <3>1 DEF CheckCancelled, Progress, LoopsTypeOK
    <3> QED
      BY <1>4, <3>2 DEF CheckCancelled
  <2>2. CASE place' = place /\ ticks' = ticks /\ shown' = shown
    BY <1>4, <2>2
  <2> QED
    BY <1>5, <2>1, <2>2 DEF CheckCancelled, Progress, Return, CancelSolve, loopVars
<1>6. CASE DoWork
  <2>1. /\ ticks' = ticks /\ shown' = shown
        /\ place' = place \/ place' = At(place.pc + 1)
    BY <1>6 DEF DoWork
  <2>2. Here /\ Instruction.do = "work"
    BY <1>6, PlaceTold DEF DoWork
  <2>3. place.sweep = 0
    BY <2>2, PlaceTold, NotLooping
  <2>4. place.pc = 1 \/ place.pc = IF params.kutta THEN 4 ELSE 3
    BY <2>2, RelaxationTold
  <2>5. CASE place' = At(place.pc + 1)
    <3>1. place'.pc = place.pc + 1 /\ place'.sweep = 0
      BY <2>5 DEF At
    <3> QED
      BY <1>1, <1>2, <1>3, <2>1, <2>3, <2>4, <3>1 DEF ClockIsShared
  <2> QED
    BY <1>4, <2>1, <2>5
<1>7. CASE Sweep
  <2>1. PICK first, second, residual : \E met, over, framed \in BOOLEAN :
            Swept(first, second, residual, met, over, framed)
    BY <1>7, SweepTold, Zenon
  <2>2. PICK met, over, framed \in BOOLEAN : Swept(first, second, residual, met, over, framed)
    BY <2>1, Zenon
  <2>3. Here /\ Looping /\ place.sweep + 1 <= Instruction.cap
    BY <1>7, PlaceTold DEF Sweep
  <2>4. /\ place.pc = 2 \/ (params.kutta /\ place.pc = 3)
        /\ Instruction.do = "clocked" /\ Instruction.cap = params.cap /\ params.cap \in Nat
    BY <2>3, RelaxationTold
  <2>5. /\ ticks' = ticks + 1
        /\ shown' = IF Due(place.sweep + 1, residual) THEN ReportAt(place.sweep + 1) ELSE shown
        /\ place' = IF over THEN At(place.pc + 1)
                    ELSE [place EXCEPT !.phase = "check", !.sweep = place.sweep + 1]
        /\ over => place.sweep + 1 = Instruction.cap \/ residual = "small"
    BY <2>2, <2>4 DEF Swept
  <2>6. ReportAt(place.sweep + 1).at = ticks + 1
    BY <2>4 DEF ReportAt
  <2>7. shown'.at = ticks' \/ shown'.at = shown.at
    BY <2>5, <2>6
  <2>8. over => shown'.at = ticks'
    <3>1. over => Due(place.sweep + 1, residual)
      BY <2>4, <2>5 DEF Due
    <3> QED
      BY <2>5, <2>6, <3>1
  <2>9. CASE over
    <3>1. place'.pc = place.pc + 1 /\ place'.sweep = 0
      BY <2>5, <2>9 DEF At
    <3>2. shown'.at = ticks' /\ place'.pc >= 3 /\ ticks' \in Nat
      BY <1>2, <2>4, <2>5, <2>8, <2>9, <3>1
    <3>3. place'.pc = 3 /\ params'.kutta => ticks' <= params'.cap + place'.sweep
      <4>1. CASE place.pc = 2
        BY <1>1, <1>2, <1>3, <2>3, <2>4, <2>5, <3>1, <4>1
      <4>2. CASE place.pc = 3
        BY <3>1, <4>2
      <4> QED
        BY <2>4, <4>1, <4>2
    <3>4. ~(place'.pc <= 2) /\ shown'.at <= ticks'
      BY <1>2, <3>2
    <3> QED
      BY <3>2, <3>3, <3>4 DEF ClockIsShared
  <2>10. CASE ~over
    <3>1. place'.pc = place.pc /\ place'.sweep = place.sweep + 1
      BY <2>5, <2>10 DEF LoopsTypeOK
    <3>2. ticks' = ticks + 1
      BY <2>5
    <3> QED
      BY <1>1, <1>2, <1>3, <2>4, <2>7, <3>1, <3>2 DEF ClockIsShared
  <2> QED
    BY <2>9, <2>10
<1>8. CASE LoseDirection
  BY <1>8 DEF LoseDirection, Clocked
<1> QED
  BY <1>5, <1>6, <1>7, <1>8 DEF LoopsNext

\* A loop with a clock is mock.laplace2d's.
LEMMA OnlyClocked ==
    ASSUME LoopsTypeOK, [LoopsNext]_loopVars, Here, Instruction.do = "clocked"
    PROVE  solver = Clocked
<1>1. Behaved(solver, params, A) /\ place.pc \in DOMAIN A.program
  BY ProgramStays DEF Here
<1>2. A.program[place.pc].do = "clocked"
  BY DEF Instruction
<1>3. "clocked" \in Loops
  BY DEF Loops
<1> QED
  BY <1>1, <1>2, <1>3 DEF Behaved, OneLoop, Stepping

\* What a sweep reports, if it does, lies ahead of what was reported and within the total.
LEMMA SweepReports ==
    ASSUME LoopsTypeOK, SweepsAreCounted, ClockIsShared, ProgressIsPlaced,
           [LoopsNext]_loopVars, Looping
    PROVE  LET n == place.sweep + 1 IN
           /\ ReportAt(n).at \in Nat /\ ReportAt(n).of \in Nat
           /\ ReportAt(n).at <= ReportAt(n).of /\ ReportAt(n).of = Instruction.of
           /\ solver = Clocked => shown.at <= ReportAt(n).at
           /\ solver # Clocked => ReportAt(n).at = n
<1> DEFINE n == place.sweep + 1
<1>1. /\ Behaved(solver, params, A) /\ Here /\ n \in Nat /\ n <= Instruction.cap
      /\ Instruction \in Instructions /\ Instruction.do \in Loops
      /\ place.pc \in DOMAIN A.program /\ Instruction = A.program[place.pc]
      /\ Instruction.cap \in Nat
  BY ProgramStays, PlaceTold DEF Here
<1>2. Instruction.of \in Nat /\ Instruction.cap <= Instruction.of
  BY <1>1, InstructionKinds DEF Behaved, WellBuilt, Fits
<1>3. ticks \in Nat /\ shown.at \in Nat /\ place.sweep \in Nat /\ place.pc \in Nat
  BY PlaceTold DEF LoopsTypeOK
<1>4. ReportAt(n).of = Instruction.of
  BY DEF ReportAt
<1>5. CASE solver = Clocked
  <2>1. /\ place.pc = 2 \/ (params.kutta /\ place.pc = 3)
        /\ Instruction.do = "clocked" /\ Instruction.cap = params.cap /\ params.cap \in Nat
        /\ Instruction.of = IF params.kutta THEN 2 * params.cap ELSE params.cap
    BY <1>1, <1>5, RelaxationTold
  <2>2. ReportAt(n).at = ticks + 1
    BY <2>1 DEF ReportAt
  <2>3. shown.at <= ticks
    BY <1>5 DEF ClockIsShared
  <2>4. ticks + 1 <= Instruction.of
    <3>1. CASE place.pc = 2
      <4>1. ticks = place.sweep
        BY <1>3, <1>5, <3>1 DEF ClockIsShared
      <4> QED
        BY <1>1, <1>2, <1>3, <4>1
    <3>2. CASE params.kutta /\ place.pc = 3
      <4>1. ticks <= params.cap + place.sweep
        BY <1>5, <3>2 DEF ClockIsShared
      <4> QED
        BY <1>1, <1>3, <2>1, <3>2, <4>1
    <3> QED
      BY <2>1, <3>1, <3>2
  <2> QED
    BY <1>2, <1>3, <1>4, <1>5, <2>2, <2>3, <2>4
<1>6. CASE solver # Clocked
  <2>1. ReportAt(n).at = n
    BY <1>1, <1>6, OnlyClocked DEF ReportAt
  <2> QED
    BY <1>1, <1>2, <1>4, <1>6, <2>1
<1> QED
  BY <1>5, <1>6

\* All the reports of a solver other than Newton's are of one total.
LEMMA OneTotalEach ==
    ASSUME LoopsTypeOK, [LoopsNext]_loopVars, solver # Newton
    PROVE  OneTotal(A.program)
<1>1. Behaved(solver, params, A) /\ DOMAIN A.program = 1..Len(A.program)
  BY ProgramStays
<1>2. CASE solver = Clocked
  <2>1. RelaxedBy(params, A.program) /\ params.cap \in Nat /\ 2 * params.cap \in Nat
    BY <1>1, <1>2, LoopInstructions DEF Behaved, LoopsTypeOK
  <2> DEFINE total == IF params.kutta THEN 2 * params.cap ELSE params.cap
  <2>2. \A i \in DOMAIN A.program : i = 1 \/ i = Len(A.program) \/ i \in 2..(Len(A.program) - 1)
    BY <1>1, <2>1 DEF RelaxedBy
  <2>3. \A i \in DOMAIN A.program :
            A.program[i].do \in {"report"} \cup Loops => A.program[i].of = total
    BY <2>1, <2>2 DEF RelaxedBy, Loops
  <2>4. total \in Nat
    BY <2>1
  <2> QED
    BY <2>3, <2>4 DEF OneTotal
<1>3. CASE solver # Clocked
  BY <1>1, <1>3 DEF Behaved, Onward
<1> QED
  BY <1>2, <1>3

\* What each step may do to the progress shown.
LEMMA ShownMoves ==
    ASSUME LoopsTypeOK, SweepsAreCounted, [LoopsNext]_loopVars
    PROVE  \/ shown' = shown
           \/ /\ Progress /\ Here /\ ~Looping /\ Instruction.do = "report"
              /\ shown' = [at |-> Instruction.at, of |-> Instruction.of]
           \/ Sweep /\ Looping /\ shown' = ReportAt(place.sweep + 1)
<1>1. CASE Progress
  BY <1>1, PlaceTold, NotLooping DEF Progress
<1>2. CASE Sweep
  <2>1. PICK first, second, residual : \E met, over, framed \in BOOLEAN :
            Swept(first, second, residual, met, over, framed)
    BY <1>2, SweepTold, Zenon
  <2>2. PICK met, over, framed \in BOOLEAN : Swept(first, second, residual, met, over, framed)
    BY <2>1, Zenon
  <2>3. shown' = shown \/ shown' = ReportAt(place.sweep + 1)
    BY <2>2 DEF Swept
  <2> QED
    BY <1>2, <2>3, PlaceTold DEF Sweep
<1>3. CASE CheckCancelled \/ DoWork \/ LoseDirection \/ Return \/ CancelSolve \/ UNCHANGED loopVars
  BY <1>3 DEF CheckCancelled, DoWork, LoseDirection, Return, CancelSolve, loopVars
<1> QED
  BY <1>1, <1>2, <1>3 DEF LoopsNext

\* What is shown is within its total, and the total is the program's.
LEMMA TotalsStay ==
    ASSUME LoopsTypeOK, SweepsAreCounted, ClockIsShared, ProgressIsPlaced, LoopsTypeOK',
           [LoopsNext]_loopVars
    PROVE  /\ shown'.at <= shown'.of
           /\ solver # Newton =>
                \A i \in DOMAIN A.program :
                    A.program[i].do \in {"report"} \cup Loops => shown'.of \in {0, A.program[i].of}
<1>1. /\ Behaved(solver, params, A) /\ DOMAIN A.program = 1..Len(A.program)
  BY ProgramStays
<1>2. Here => place.pc \in DOMAIN A.program /\ Instruction = A.program[place.pc]
  BY PlaceTold DEF Here
<1>3. ASSUME Here, Instruction.do \in {"report"} \cup Loops, shown'.of = Instruction.of,
             solver # Newton
      PROVE  \A i \in DOMAIN A.program :
                 A.program[i].do \in {"report"} \cup Loops => shown'.of \in {0, A.program[i].of}
  <2>1. PICK total \in Nat : \A i \in DOMAIN A.program :
            A.program[i].do \in {"report"} \cup Loops => A.program[i].of = total
    BY <1>3, OneTotalEach DEF OneTotal
  <2> QED
    BY <1>2, <1>3, <2>1
<1>4. CASE shown' = shown
  BY <1>4 DEF ProgressIsPlaced
<1>5. CASE /\ Progress /\ Here /\ ~Looping /\ Instruction.do = "report"
           /\ shown' = [at |-> Instruction.at, of |-> Instruction.of]
  <2>1. Instruction.at <= Instruction.of
    BY <1>1, <1>2, <1>5 DEF Behaved, WellBuilt, Fits
  <2>2. shown'.at = Instruction.at /\ shown'.of = Instruction.of
    BY <1>5
  <2> QED
    BY <1>3, <1>5, <2>1, <2>2
<1>6. CASE Sweep /\ Looping /\ shown' = ReportAt(place.sweep + 1)
  BY <1>3, <1>6, SweepReports, PlaceTold
<1> QED
  BY <1>4, <1>5, <1>6, ShownMoves

LEMMA ProgressStaysPlaced ==
    ASSUME LoopsTypeOK, SweepsAreCounted, ClockIsShared, ProgressIsPlaced,
           LoopsTypeOK', [LoopsNext]_loopVars
    PROVE  ProgressIsPlaced'
<1>1. /\ A' = A /\ solver' = solver /\ DOMAIN A.program = 1..Len(A.program)
      /\ Len(A.program) \in Nat
  BY ProgramStays
<1>2. ASSUME solver \notin {Clocked, Newton}, NEW t, Mark(A.program, t)
      PROVE  IF Looping' THEN shown'.at <= place'.sweep ELSE shown'.at <= t[place'.pc]
  <2>1. IF Looping THEN shown.at <= place.sweep ELSE shown.at <= t[place.pc]
    BY <1>2 DEF ProgressIsPlaced
  <2>2. /\ \A pc \in 1..(Len(A.program) + 1) : t[pc] \in Nat
        /\ Here /\ Instruction.do \in {"check", "work"} => t[place.pc] <= t[place.pc + 1]
        /\ Here /\ Instruction.do = "report" =>
             t[place.pc] <= Instruction.at /\ Instruction.at <= t[place.pc + 1]
        /\ Looping => Instruction.cap <= t[place.pc + 1]
        /\ Looping' => t[place'.pc] = 0
    BY <1>1, <1>2 DEF Mark, Here, Looping, Instruction
  <2>3. /\ shown.at \in Nat /\ shown'.at \in Nat /\ place'.sweep \in Nat
        /\ place'.pc \in 1..(Len(A.program) + 1) /\ place.pc \in 1..(Len(A.program) + 1)
        /\ place.sweep \in Nat
    BY <1>1 DEF LoopsTypeOK
  <2>4. ASSUME shown'.at <= t[place'.pc]
        PROVE  IF Looping' THEN shown'.at <= place'.sweep ELSE shown'.at <= t[place'.pc]
    BY <2>2, <2>3, <2>4
  <2>5. ASSUME shown' = shown, place'.pc = place.pc, place.sweep <= place'.sweep
        PROVE  IF Looping' THEN shown'.at <= place'.sweep ELSE shown'.at <= t[place'.pc]
    <3>1. Looping' <=> Looping
      BY <1>1, <2>5, StaysThere
    <3> QED
      BY <2>1, <2>3, <2>5, <3>1
  <2>6. CASE CheckCancelled
    <3>1. CASE Instruction.do = "check"
      <4>1. Here /\ ~Looping
        BY <2>6, <3>1, PlaceTold, NotLooping DEF CheckCancelled
      <4>2. shown' = shown /\ (place' = At(place.pc + 1) \/ place' = place)
        BY <2>6, <3>1 DEF CheckCancelled
      <4>3. CASE place' = At(place.pc + 1)
        <5>1. place'.pc = place.pc + 1
          BY <4>3 DEF At
        <5>2. shown.at <= t[place.pc] /\ t[place.pc] <= t[place'.pc]
          BY <2>1, <2>2, <3>1, <4>1, <5>1
        <5>3. t[place.pc] \in Nat /\ t[place'.pc] \in Nat
          BY <2>2, <2>3
        <5> QED
          BY <2>3, <2>4, <4>2, <5>2, <5>3
      <4>4. CASE place' = place
        BY <2>3, <2>5, <4>2, <4>4
      <4> QED
        BY <4>2, <4>3, <4>4
    <3>2. CASE Instruction.do # "check"
      <4>1. shown' = shown /\ (place' = place \/ place' = [place EXCEPT !.phase = "sweep"])
        BY <2>6, <3>2 DEF CheckCancelled
      <4>2. place'.pc = place.pc /\ place'.sweep = place.sweep
        BY <4>1 DEF LoopsTypeOK
      <4> QED
        BY <2>3, <2>5, <4>1, <4>2
    <3> QED
      BY <3>1, <3>2
  <2>7. CASE Progress
    <3>1. Here /\ Instruction.do = "report"
      BY <2>7, PlaceTold DEF Progress
    <3>2. shown'.at = Instruction.at /\ place'.pc = place.pc + 1
      BY <2>7 DEF Progress, At
    <3> QED
      BY <2>2, <2>4, <3>1, <3>2
  <2>8. CASE DoWork
    <3>1. Here /\ Instruction.do = "work" /\ ~Looping
      BY <2>8, PlaceTold, NotLooping DEF DoWork
    <3>2. shown' = shown /\ (place' = At(place.pc + 1) \/ place' = place)
      BY <2>8 DEF DoWork
    <3>3. CASE place' = At(place.pc + 1)
      <4>1. place'.pc = place.pc + 1
        BY <3>3 DEF At
      <4>2. shown.at <= t[place.pc] /\ t[place.pc] <= t[place'.pc]
        BY <2>1, <2>2, <3>1, <4>1
      <4>3. t[place.pc] \in Nat /\ t[place'.pc] \in Nat
        BY <2>2, <2>3
      <4> QED
        BY <2>3, <2>4, <3>2, <4>2, <4>3
    <3>4. CASE place' = place
      BY <2>3, <2>5, <3>2, <3>4
    <3> QED
      BY <3>2, <3>3, <3>4
  <2>9. CASE Sweep
    <3>1. PICK first, second, residual : \E met, over, framed \in BOOLEAN :
              Swept(first, second, residual, met, over, framed)
      BY <2>9, SweepTold, Zenon
    <3>2. PICK met, over, framed \in BOOLEAN : Swept(first, second, residual, met, over, framed)
      BY <3>1, Zenon
    <3>3. Looping /\ Instruction.cap \in Nat /\ place.sweep + 1 <= Instruction.cap
      BY <2>9, PlaceTold DEF Sweep
    <3>4. shown' = shown \/ shown'.at = place.sweep + 1
      BY <1>2, <3>3, SweepReports, ShownMoves, <2>9
         DEF Progress, Looping
    <3>5. shown'.at <= place.sweep + 1
      BY <2>1, <2>3, <3>3, <3>4
    <3>6. CASE place' = At(place.pc + 1)
      <4>1. place'.pc = place.pc + 1 /\ place.pc + 1 \in 1..(Len(A.program) + 1)
        BY <3>3, <3>6, PlaceTold DEF At
      <4>2. Instruction.cap <= t[place'.pc] /\ t[place'.pc] \in Nat
        BY <2>2, <3>3, <4>1
      <4> QED
        BY <2>3, <2>4, <3>3, <3>5, <4>2
    <3>7. CASE place' = place /\ shown' = shown
      BY <2>3, <2>5, <3>7
    <3>8. CASE place' = [place EXCEPT !.phase = "check", !.sweep = place.sweep + 1]
      <4>1. place'.pc = place.pc /\ place'.sweep = place.sweep + 1
        BY <3>8 DEF LoopsTypeOK
      <4>2. Looping'
        BY <1>1, <3>3, <4>1, StaysThere
      <4> QED
        BY <3>5, <4>1, <4>2
    <3>9. \/ place' = At(place.pc + 1)
          \/ place' = place /\ shown' = shown
          \/ place' = [place EXCEPT !.phase = "check", !.sweep = place.sweep + 1]
      BY <3>2 DEF Swept
    <3> QED
      BY <3>6, <3>7, <3>8, <3>9
  <2>10. CASE LoseDirection
    <3>1. Looping /\ Instruction.cap \in Nat /\ place.sweep + 1 <= Instruction.cap
      BY <2>10, PlaceTold DEF LoseDirection
    <3>2. shown' = shown /\ place'.pc = place.pc + 1
      BY <2>10 DEF LoseDirection, At
    <3>3. shown.at <= place.sweep /\ Instruction.cap <= t[place'.pc] /\ t[place'.pc] \in Nat
      BY <2>1, <2>2, <2>3, <3>1, <3>2
    <3> QED
      BY <2>3, <2>4, <3>1, <3>2, <3>3
  <2>11. CASE Return \/ CancelSolve \/ UNCHANGED loopVars
    <3>1. place' = place /\ shown' = shown
      BY <2>11 DEF Return, CancelSolve, loopVars
    <3> QED
      BY <2>3, <2>5, <3>1
  <2> QED
    BY <2>6, <2>7, <2>8, <2>9, <2>10, <2>11 DEF LoopsNext
<1> QED
  BY <1>1, <1>2, TotalsStay DEF ProgressIsPlaced

\* What the adapter makes of its residuals leaves nothing out.
LEMMA ConvergedAdapters ==
    ASSUME LoopsTypeOK, SweepsAreCounted, ShortIsSeen, StagesAreKept, [LoopsNext]_loopVars,
           place.pc > Len(A.program), Converged, noted.short
    PROVE  A.folds /\ noted.nan
<1>1. /\ Behaved(solver, params, A) /\ Len(A.program) \in Nat /\ place.pc \in Nat
  BY ProgramStays, PlaceTold
<1>2. CASE A.says = "last"
  BY <1>2 DEF Converged, ShortIsSeen
<1>3. CASE A.says = "steps"
  BY <1>1, <1>3 DEF Converged, ShortIsSeen, Behaved
<1>4. CASE A.says = "direct"
  BY <1>4 DEF ShortIsSeen
<1>5. CASE A.says = "stages"
  <2>1. Len(A.program) \in {3, 4}
    BY <1>1, <1>5, RelaxationTold DEF Behaved
  <2>2. found.stages \in Seq(Residual) /\ Len(found.stages) = Len(A.program) - 2
    BY <1>1, <1>5, <2>1 DEF StagesAreKept, LoopsTypeOK
  <2>3. PICK i \in DOMAIN found.stages : found.stages[i] # "small"
    BY <1>5 DEF StagesAreKept
  <2>4. Relaxed = "small"
    BY <1>5 DEF Converged
  <2>5. CASE Len(found.stages) = 1
    <3>1. i = 1
      BY <2>2, <2>3, <2>5
    <3> QED
      BY <2>3, <2>4, <2>5, <3>1 DEF Relaxed
  <2>6. CASE Len(found.stages) = 2
    <3>1. i = 1 \/ i = 2
      BY <2>2, <2>3, <2>6
    <3>2. found.stages[2] # "nan" /\ found.stages[2] \in Residual
      BY <1>5, <2>2, <2>6 DEF StagesAreKept
    <3>3. PyMax(found.stages[1], found.stages[2]) = "small"
      BY <2>4, <2>6 DEF Relaxed
    <3> QED
      BY <2>3, <3>1, <3>2, <3>3 DEF PyMax, Residual
  <2> QED
    BY <2>1, <2>2, <2>5, <2>6
<1> QED
  BY <1>1, <1>2, <1>3, <1>4, <1>5 DEF Behaved

LEMMA HonestStays ==
    ASSUME LoopsInv, LoopsTypeOK', OverrunIsShort', [LoopsNext]_loopVars
    PROVE  SolveIsHonest'
<1> USE DEF LoopsInv
<1>1. A' = A /\ solver' = solver /\ Behaved(solver, params, A) /\ Len(A.program) \in Nat
  BY ProgramStays
<1>2. CancelsInTime'
  BY DEF OverrunIsShort, CancelsInTime
<1>3. CASE Return
  <2>1. /\ noted' = noted /\ found' = found /\ shown' = shown /\ ticks' = ticks
        /\ place.pc > Len(A.program)
        /\ outcome' = IF Converged THEN "converged"
                      ELSE IF A.declares = "return" THEN "unconverged" ELSE "failed"
    BY <1>3 DEF Return
  <2>2. ConvergedIsMet'
    BY <1>1, <2>1, ConvergedAdapters DEF ConvergedIsMet
  <2>3. FailIsFail'
    <3>1. ASSUME A.declares = "fail", noted.short PROVE ~Converged
      BY <1>1, <2>1, <3>1, ConvergedAdapters DEF Behaved
    <3> QED
      BY <1>1, <2>1, <3>1 DEF FailIsFail
  <2>4. LastSweepIsTold'
    <3>1. ASSUME solver = Clocked PROVE shown.at = ticks
      <4>1. Len(A.program) >= 3 /\ place.pc \in Nat
        BY <3>1, RelaxationTold, PlaceTold
      <4>2. ~Here
        BY <1>1, <2>1, <4>1, PlaceTold
      <4>3. place.sweep = 0
        BY <4>2, PlaceTold
      <4>4. place.pc >= 3
        BY <1>1, <2>1, <4>1
      <4> QED
        BY <3>1, <4>3, <4>4 DEF ClockIsShared
    <3> QED
      BY <1>1, <2>1, <3>1 DEF LastSweepIsTold, Clocked
  <2> QED
    BY <1>2, <2>2, <2>3, <2>4 DEF SolveIsHonest
<1>4. CASE UNCHANGED loopVars
  BY <1>1, <1>4
     DEF loopVars, SolveIsHonest, ConvergedIsMet, FailIsFail, CancelsInTime, LastSweepIsTold
<1>5. CASE CheckCancelled \/ Progress \/ DoWork \/ Sweep \/ LoseDirection \/ CancelSolve
  <2>1. outcome' \in {"solving", "cancelled", "failed"}
    <3>1. CASE Sweep
      <4>1. PICK first, second, residual : \E met, over, framed \in BOOLEAN :
                Swept(first, second, residual, met, over, framed)
        BY <3>1, SweepTold, Zenon
      <4> QED
        BY <3>1, <4>1 DEF Swept, Sweep, Running
    <3> QED
      BY <1>5, <3>1 DEF CheckCancelled, Progress, DoWork, LoseDirection, CancelSolve, Running
  <2> QED
    BY <1>1, <1>2, <2>1 DEF SolveIsHonest, ConvergedIsMet, FailIsFail, LastSweepIsTold
<1> QED
  BY <1>3, <1>4, <1>5 DEF LoopsNext

LEMMA LoopsInvKept == LoopsInv /\ [LoopsNext]_loopVars => LoopsInv'
<1> SUFFICES ASSUME LoopsInv, [LoopsNext]_loopVars PROVE LoopsInv'
  OBVIOUS
<1>1. LoopsTypeOK'
  BY LoopsTypesKept DEF LoopsInv
<1>2. SweepsAreCounted' /\ OverrunIsShort' /\ ShortIsSeen' /\ StagesAreKept'
  BY <1>1, SweepsStayCounted, OverrunStaysShort, ShortStaysSeen, StagesStayKept DEF LoopsInv
<1>3. ClockIsShared' /\ ProgressIsPlaced'
  BY <1>1, ClockStaysShared, ProgressStaysPlaced DEF LoopsInv
<1>4. SolveIsHonest'
  BY <1>1, <1>2, HonestStays
<1> QED
  BY <1>1, <1>2, <1>3, <1>4 DEF LoopsInv

LEMMA LoopsHold == LoopsSpec => []LoopsInv
BY LoopsStart, LoopsInvKept, PTL DEF LoopsSpec

\* SolverLoops.SolveIsHonest, for all sixteen adapters and every cap, cadence and rate of
\* frames: a result that says it converged met its tolerance in each relaxation and time step
\* (but for a field of nan that Python's max hides), an adapter that declares `fail` returns
\* nothing short of it, at most two pieces of work follow a cancel, and mock.laplace2d
\* reports its last sweep.
THEOREM SolveHonest == LoopsSpec => []SolveIsHonest
<1>1. LoopsInv => SolveIsHonest
  BY DEF LoopsInv
<1> QED
  BY <1>1, LoopsHold, PTL

\* SolverLoops.ProgressGoesOn: no report lies past its total, and but for Newton's adapter
\* none goes back or changes the total, whatever relaxations, stages and steps it is made of.
THEOREM ProgressOnward == LoopsSpec => ProgressGoesOn
<1> DEFINE Ahead == shown'.of # 0 =>
                      /\ shown'.at <= shown'.of
                      /\ solver # "dolfinx.heat_nonlinear2d" =>
                           shown.at <= shown'.at /\ shown.of \in {0, shown'.of}
<1>1. LoopsInv /\ LoopsInv' /\ [LoopsNext]_loopVars => [Ahead]_loopVars
  <2> SUFFICES ASSUME LoopsInv, LoopsInv', [LoopsNext]_loopVars PROVE Ahead
    OBVIOUS
  <2> USE DEF LoopsInv
  <2>1. shown'.at <= shown'.of
    BY TotalsStay
  <2>2. ASSUME solver # Newton
        PROVE  shown.at <= shown'.at /\ shown.of \in {0, shown'.of}
    <3>1. Behaved(solver, params, A) /\ shown.at \in Nat
      BY ProgramStays DEF LoopsTypeOK
    <3>2. Here => place.pc \in DOMAIN A.program /\ Instruction = A.program[place.pc]
      BY PlaceTold DEF Here
    <3>3. CASE shown' = shown
      BY <3>1, <3>3
    <3>4. CASE /\ Progress /\ Here /\ ~Looping /\ Instruction.do = "report"
               /\ shown' = [at |-> Instruction.at, of |-> Instruction.of]
      <4>1. solver # Clocked
        BY <3>4, RelaxationTold
      <4>2. PICK t : Mark(A.program, t)
        BY <2>2, <3>1, <4>1 DEF Behaved, Onward
      <4>3. shown.at <= t[place.pc]
        BY <2>2, <3>4, <4>1, <4>2 DEF ProgressIsPlaced
      <4>4. t[place.pc] <= Instruction.at /\ t[place.pc] \in Nat /\ Instruction.at \in Nat
        BY <3>2, <3>4, <4>2, PlaceTold, InstructionKinds, ProgramStays DEF Mark
      <4>5. shown.of \in {0, Instruction.of}
        BY <2>2, <3>2, <3>4 DEF ProgressIsPlaced
      <4> QED
        BY <3>1, <3>4, <4>3, <4>4, <4>5
    <3>5. CASE Sweep /\ Looping /\ shown' = ReportAt(place.sweep + 1)
      <4>1. shown.of \in {0, Instruction.of}
        BY <2>2, <3>2, <3>5 DEF ProgressIsPlaced, Looping
      <4>2. shown.at <= ReportAt(place.sweep + 1).at
        <5>1. CASE solver = Clocked
          BY <3>5, <5>1, SweepReports
        <5>2. CASE solver # Clocked
          <6>1. PICK t : Mark(A.program, t)
            BY <2>2, <3>1, <5>2 DEF Behaved, Onward
          <6>2. shown.at <= place.sweep /\ place.sweep \in Nat
            BY <2>2, <3>5, <5>2, <6>1, PlaceTold DEF ProgressIsPlaced
          <6>3. ReportAt(place.sweep + 1).at = place.sweep + 1
            BY <3>5, <5>2, SweepReports
          <6> QED
            BY <3>1, <6>2, <6>3
        <5> QED
          BY <5>1, <5>2
      <4> QED
        BY <3>5, <4>1, <4>2, SweepReports
    <3> QED
      BY <3>3, <3>4, <3>5, ShownMoves
  <2> QED
    BY <2>1, <2>2 DEF Newton
<1>2. [][Ahead]_loopVars <=> ProgressGoesOn
  BY PTL DEF ProgressGoesOn
<1> QED
  BY <1>1, <1>2, LoopsHold, PTL DEF LoopsSpec

-----------------------------------------------------------------------------
(* Geometries and their names *)

Outline == [name : STRING, points : Seq(Point), ids : Seq(STRING)]

\* What the fields of a geometry are, and which outlines a part may name.
LEMMA GeometryIs ==
    ASSUME NEW g \in Geometry
    PROVE  /\ g = [type |-> g.type, bounds |-> g.bounds, polygons |-> g.polygons,
                   boundaries |-> g.boundaries]
           /\ g.type \in {"domain2d", "regions2d", "axisymmetric2d"}
           /\ g.bounds \in Rectangle
           /\ g.polygons \in Seq(Outline)
           /\ g.boundaries \in Seq([name : STRING, select : SUBSET Selector])
           /\ g.type = "domain2d" => Len(g.polygons) = 1 /\ g.polygons[1].name = "obstacle"
           /\ g.type # "domain2d" =>
                \A i \in DOMAIN g.polygons : g.polygons[i].name \notin {"obstacle", "outer"}
BY DEF Geometry, Outline

LEMMA ElementsAre ==
    ASSUME NEW T, NEW seq \in Seq(T), NEW k \in DOMAIN seq
    PROVE  seq[k] \in T /\ k \in 1..Len(seq)
OBVIOUS

LEMMA OutlinesAre ==
    ASSUME NEW g \in Geometry, NEW p \in Range(g.polygons)
    PROVE  /\ p \in Outline /\ p.points \in Seq(Point) /\ p.ids \in Seq(STRING)
           /\ \E k \in DOMAIN g.polygons : p = g.polygons[k]
           /\ g.type = "domain2d" => p.name = "obstacle" /\ p = g.polygons[1]
           /\ g.type # "domain2d" => p.name \notin {"obstacle", "outer"}
<1>1. PICK k \in DOMAIN g.polygons : p = g.polygons[k]
  BY DEF Range
<1>2. g.polygons \in Seq(Outline) /\ k \in 1..Len(g.polygons)
  BY <1>1, GeometryIs
<1>3. p \in Outline
  BY <1>1, <1>2
<1>4. g.type = "domain2d" => k = 1 /\ p.name = "obstacle"
  BY <1>1, <1>2, GeometryIs
<1>5. g.type # "domain2d" => p.name \notin {"obstacle", "outer"}
  BY <1>1, GeometryIs
<1> QED
  BY <1>1, <1>3, <1>4, <1>5 DEF Outline

LEMMA SelectorsAre ==
    ASSUME NEW g \in Geometry, NEW entry \in Range(g.boundaries), NEW s \in entry.select
    PROVE  /\ s \in Selector
           /\ s.type \in {"part", "points", "near", "box"}
           /\ s.type = "part" => s.of \in STRING
           /\ s.type = "points" => s.ids \in SUBSET STRING
<1>1. PICK k \in DOMAIN g.boundaries : entry = g.boundaries[k]
  BY DEF Range
<1> DEFINE Named == [name : STRING, select : SUBSET Selector]
<1>2. g.boundaries \in Seq(Named)
  BY GeometryIs
<1> HIDE DEF Named
<1>3. entry \in Named
  BY <1>1, <1>2, ElementsAre
<1> USE DEF Named
<1>4. s \in Selector
  BY <1>3
<1> QED
  BY <1>4 DEF Selector

\* The edges of an outline, and those that ids select.
LEMMA EdgesAre ==
    ASSUME NEW p, p.points \in Seq(Point), p.ids \in Seq(STRING), IdsFit(p), NEW S
    PROVE  /\ \A i \in DOMAIN p.points : After(i, Len(p.points)) \in DOMAIN p.points
           /\ SpannedEdges(p, S) =
                {e \in Edges(p.points) :
                    /\ e[1] \in DOMAIN p.ids /\ e[2] \in DOMAIN p.ids
                    /\ p.ids[e[1]] \in S /\ p.ids[e[2]] \in S}
<1> DEFINE n == Len(p.points)
           chosen == {i \in DOMAIN p.ids : p.ids[i] \in S}
<1>1. n \in Nat /\ DOMAIN p.points = 1..n
  OBVIOUS
<1>2. DOMAIN p.ids = {} \/ DOMAIN p.ids = 1..n
  <2>1. CASE p.ids = <<>>
    BY <2>1
  <2>2. CASE p.ids # <<>>
    BY <2>2 DEF IdsFit
  <2> QED
    BY <2>1, <2>2
<1>3. \A i \in 1..n : After(i, n) \in 1..n
  BY <1>1 DEF After
<1>4. Edges(p.points) = {<<i, After(i, n)>> : i \in 1..n}
  BY <1>1 DEF Edges
<1>5. SpannedEdges(p, S) =
        {<<i, i + 1>> : i \in {i \in chosen : i + 1 \in chosen}}
            \cup IF {n, 1} \subseteq chosen THEN {<<n, 1>>} ELSE {}
  BY DEF SpannedEdges
<1> DEFINE E == {e \in Edges(p.points) :
                    /\ e[1] \in DOMAIN p.ids /\ e[2] \in DOMAIN p.ids
                    /\ p.ids[e[1]] \in S /\ p.ids[e[2]] \in S}
<1>6. ASSUME NEW e \in SpannedEdges(p, S) PROVE e \in E
  <2>1. CASE \E i \in chosen : i + 1 \in chosen /\ e = <<i, i + 1>>
    <3>1. PICK i \in chosen : i + 1 \in chosen /\ e = <<i, i + 1>>
      BY <2>1
    <3>2. i \in 1..n /\ i + 1 \in 1..n /\ After(i, n) = i + 1
      BY <1>1, <1>2, <3>1 DEF After
    <3> QED
      BY <1>4, <3>1, <3>2
  <2>2. CASE {n, 1} \subseteq chosen /\ e = <<n, 1>>
    <3>1. n \in 1..n /\ After(n, n) = 1 /\ n \in chosen /\ 1 \in chosen
      BY <1>1, <1>2, <2>2 DEF After
    <3> QED
      BY <1>4, <2>2, <3>1
  <2> QED
    BY <1>5, <1>6, <2>1, <2>2
<1>7. ASSUME NEW e \in E PROVE e \in SpannedEdges(p, S)
  <2>1. PICK i \in 1..n : e = <<i, After(i, n)>>
    BY <1>4
  <2>2. i \in chosen /\ After(i, n) \in chosen
    BY <2>1
  <2>3. CASE i = n
    BY <1>5, <2>1, <2>2, <2>3 DEF After
  <2>4. CASE i # n
    BY <1>5, <2>1, <2>2, <2>4 DEF After
  <2> QED
    BY <2>3, <2>4
<1> QED
  BY <1>1, <1>3, <1>6, <1>7

\* A segment has its ends and, twice as large, the sum of them.
LEMMA EndsOnEdge ==
    ASSUME NEW points \in Seq(Point), NEW e \in (DOMAIN points) \X (DOMAIN points)
    PROVE  OnEdge(points, e, points[e[1]])
<1>1. PICK a \in Point, b \in Point : a = points[e[1]] /\ b = points[e[2]]
  OBVIOUS
<1>2. PICK x \in Int, y \in Int : a = <<x, y>>
  BY DEF Point
<1>3. PICK z \in Int, w \in Int : b = <<z, w>>
  BY DEF Point
<1>4. /\ From(a, a) = <<x - x, y - y>> /\ From(a, b) = <<z - x, w - y>>
  BY <1>2, <1>3 DEF From
<1>5. Orient(a, b, a) = (z - x) * (y - y) - (x - x) * (w - y)
  BY <1>4 DEF Orient, Cross
<1>6. x - x = 0 /\ y - y = 0 /\ z - x \in Int /\ w - y \in Int
  OBVIOUS
<1>7. \A k \in Int : k * 0 = 0 /\ 0 * k = 0
  OBVIOUS
<1>8. Orient(a, b, a) = 0
  BY <1>5, <1>6, <1>7
<1>9. (a[1] - a[1]) * (a[1] - b[1]) + (a[2] - a[2]) * (a[2] - b[2]) <= 0
  <2>1. a[1] - a[1] = 0 /\ a[2] - a[2] = 0 /\ a[1] - b[1] \in Int /\ a[2] - b[2] \in Int
    BY <1>2, <1>3
  <2>2. 0 * (a[1] - b[1]) = 0 /\ 0 * (a[2] - b[2]) = 0
    BY <1>7, <2>1
  <2> QED
    BY <2>1, <2>2
<1> QED
  BY <1>1, <1>8, <1>9 DEF OnEdge

\* What is accepted, in the parts that the proofs need.
Drawable(g) ==
    /\ g \in Geometry
    /\ \A p \in Range(g.polygons) : IdsFit(p) /\ Len(p.points) >= 3
    /\ BoundsFit(g.bounds)
    /\ g.type = "axisymmetric2d" => g.bounds[1] >= 0
    /\ \A i, j \in DOMAIN g.polygons : i # j => g.polygons[i].name # g.polygons[j].name
    /\ \A p \in Range(g.polygons) : \A at \in Range(p.points) : InsideBounds(g, at)
    /\ \A i, j \in DOMAIN g.boundaries : i # j => g.boundaries[i].name # g.boundaries[j].name
    /\ \A entry \in Range(g.boundaries) : \A s \in PointSelectors(entry.select) :
         \E p \in Range(g.polygons) : SpannedEdges(p, s.ids) # {}

LEMMA AcceptedFits ==
    ASSUME NEW g \in Geometry, Accepted(g)
    PROVE  Drawable(g)
BY DEF Accepted, Drawable, SimpleOutline, BoundariesFit

\* Outlines lie in the window.
LEMMA InWindow ==
    ASSUME NEW g, Drawable(g), NEW p \in Range(g.polygons), NEW at \in Range(p.points)
    PROVE  at \in Window(g)
<1>1. PICK b1 \in Int, b2 \in Int, b3 \in Int, b4 \in Int : g.bounds = <<b1, b2, b3, b4>>
  <2>1. g.bounds \in Rectangle
    BY GeometryIs DEF Drawable
  <2> QED
    BY <2>1 DEF Rectangle
<1>2. at \in Point
  <2>1. p.points \in Seq(Point)
    BY OutlinesAre DEF Drawable
  <2> QED
    BY <2>1 DEF Range
<1>3. PICK x \in Int, y \in Int : at = <<x, y>>
  BY <1>2 DEF Point
<1>4. b1 < b3 /\ b2 < b4
  BY <1>1 DEF Drawable, BoundsFit
<1>5. InsideBounds(g, at)
  BY DEF Drawable
<1>6. x \in b1..b3 /\ y \in b2..b4
  BY <1>1, <1>3, <1>4, <1>5 DEF InsideBounds, ReachesAxis
<1> QED
  BY <1>1, <1>3, <1>6 DEF Window

-----------------------------------------------------------------------------
(* What an edit makes of a geometry *)

LEMMA Dropped ==
    ASSUME NEW T, NEW seq \in Seq(T), NEW i \in DOMAIN seq
    PROVE  RemoveAt(seq, i) \in Seq(T)
<1>1. PICK n \in Nat : n = Len(seq)
  OBVIOUS
<1>2. i \in 1..n /\ \A k \in 1..n : seq[k] \in T
  BY <1>1
<1>3. SubSeq(seq, 1, i - 1) \in Seq(T)
  <2>1. \A k \in 1..(i - 1) : seq[k] \in T
    BY <1>2
  <2> QED
    BY <1>2, <2>1, SubSeqProperties
<1>4. SubSeq(seq, i + 1, n) \in Seq(T)
  <2>1. \A k \in (i + 1)..n : seq[k] \in T
    BY <1>2
  <2> QED
    BY <1>2, <2>1, SubSeqProperties
<1> QED
  BY <1>1, <1>3, <1>4, ConcatProperties DEF RemoveAt

LEMMA Inserted ==
    ASSUME NEW T, NEW seq \in Seq(T), NEW i \in DOMAIN seq, NEW x \in T
    PROVE  PutIn(seq, i, x) \in Seq(T)
<1>1. PICK n \in Nat : n = Len(seq)
  OBVIOUS
<1>2. i \in 1..n /\ \A k \in 1..n : seq[k] \in T
  BY <1>1
<1>3. SubSeq(seq, 1, i) \in Seq(T)
  <2>1. \A k \in 1..i : seq[k] \in T
    BY <1>2
  <2> QED
    BY <1>2, <2>1, SubSeqProperties
<1>4. SubSeq(seq, i + 1, n) \in Seq(T)
  <2>1. \A k \in (i + 1)..n : seq[k] \in T
    BY <1>2
  <2> QED
    BY <1>2, <2>1, SubSeqProperties
<1>5. <<x>> \in Seq(T)
  OBVIOUS
<1> QED
  BY <1>1, <1>3, <1>4, <1>5, ConcatProperties DEF PutIn

\* An edit leaves an outline, of the same name.
LEMMA EditedIs ==
    ASSUME NEW p \in Outline, IdsFit(p), NEW q \in Edited(p)
    PROVE  q \in Outline /\ q.name = p.name
<1>1. /\ p.name \in STRING /\ p.points \in Seq(Point) /\ p.ids \in Seq(STRING)
      /\ p = [name |-> p.name, points |-> p.points, ids |-> p.ids]
  BY DEF Outline
<1>2. p.ids # <<>> => DOMAIN p.ids = DOMAIN p.points
  BY <1>1 DEF IdsFit
<1>3. Places \subseteq Point /\ NewId \in STRING
  BY BoundariesAssumption
<1>4. ASSUME NEW i \in DOMAIN p.points, NEW at \in Places, q = MovedPoint(p, i, at)
      PROVE  q \in Outline /\ q.name = p.name
  <2>1. [p.points EXCEPT ![i] = at] \in Seq(Point)
    BY <1>1, <1>3
  <2>2. q = [name |-> p.name, points |-> [p.points EXCEPT ![i] = at], ids |-> p.ids]
    BY <1>1, <1>4 DEF MovedPoint
  <2> QED
    BY <1>1, <2>1, <2>2 DEF Outline
<1>5. ASSUME NEW i \in DOMAIN p.points,
             q = DroppedPoint(p, i)
      PROVE  q \in Outline /\ q.name = p.name
  <2> DEFINE ids == IF p.ids = <<>> THEN p.ids ELSE RemoveAt(p.ids, i)
  <2>1. RemoveAt(p.points, i) \in Seq(Point)
    BY <1>1, Dropped
  <2>2. ids \in Seq(STRING)
    BY <1>1, <1>2, Dropped
  <2>3. q = [name |-> p.name, points |-> RemoveAt(p.points, i), ids |-> ids]
    BY <1>1, <1>5 DEF DroppedPoint
  <2> HIDE DEF ids
  <2> QED
    BY <1>1, <2>1, <2>2, <2>3 DEF Outline
<1>6. ASSUME NEW i \in DOMAIN p.points, NEW at \in Places, NEW id \in {NewId, NoId},
             q = InsertedPoint(p, i, at, id)
      PROVE  q \in Outline /\ q.name = p.name
  <2> DEFINE ids == IF p.ids = <<>> \/ id = NoId THEN p.ids ELSE PutIn(p.ids, i, id)
  <2>1. PutIn(p.points, i, at) \in Seq(Point)
    BY <1>1, <1>3, Inserted
  <2>2. ids \in Seq(STRING)
    BY <1>1, <1>2, <1>3, Inserted
  <2>3. q = [name |-> p.name, points |-> PutIn(p.points, i, at), ids |-> ids]
    BY <1>1, <1>6 DEF InsertedPoint
  <2> HIDE DEF ids
  <2> QED
    BY <1>1, <2>1, <2>2, <2>3 DEF Outline
<1> QED
  BY <1>4, <1>5, <1>6 DEF Edited

LEMMA Redrawn ==
    ASSUME NEW g, Drawable(g), NEW k \in DOMAIN g.polygons, NEW p \in Edited(g.polygons[k])
    PROVE  [g EXCEPT !.polygons[k] = p] \in Geometry
<1> DEFINE h == [g EXCEPT !.polygons[k] = p]
           new == [g.polygons EXCEPT ![k] = p]
<1>1. /\ g = [type |-> g.type, bounds |-> g.bounds, polygons |-> g.polygons,
              boundaries |-> g.boundaries]
      /\ g.type \in {"domain2d", "regions2d", "axisymmetric2d"}
      /\ g.bounds \in Rectangle /\ g.polygons \in Seq(Outline)
      /\ g.boundaries \in Seq([name : STRING, select : SUBSET Selector])
      /\ g.type = "domain2d" => Len(g.polygons) = 1 /\ g.polygons[1].name = "obstacle"
      /\ g.type # "domain2d" =>
           \A i \in DOMAIN g.polygons : g.polygons[i].name \notin {"obstacle", "outer"}
  BY GeometryIs DEF Drawable
<1>2. g.polygons[k] \in Outline /\ IdsFit(g.polygons[k])
  BY <1>1, ElementsAre DEF Drawable, Range
<1>3. p \in Outline /\ p.name = g.polygons[k].name
  BY <1>2, EditedIs
<1>4. /\ new \in Seq(Outline) /\ Len(new) = Len(g.polygons) /\ DOMAIN new = DOMAIN g.polygons
      /\ \A i \in DOMAIN new : new[i].name = g.polygons[i].name
  BY <1>1, <1>3
<1>5. h = [type |-> g.type, bounds |-> g.bounds, polygons |-> new, boundaries |-> g.boundaries]
  <2>1. h = [g EXCEPT !.polygons = new]
    OBVIOUS
  <2> HIDE DEF h, new
  <2>2. g = [type |-> g.type, bounds |-> g.bounds, polygons |-> g.polygons,
              boundaries |-> g.boundaries]
    BY <1>1
  <2> QED
    BY <2>1, <2>2
<1> HIDE DEF h, new
<1>6. g.type = "domain2d" => Len(new) = 1 /\ new[1].name = "obstacle"
  BY <1>1, <1>4
<1> QED
  <2>1. /\ h.type = g.type /\ h.polygons = new
    BY <1>5
  <2>2. h \in [type : {"domain2d", "regions2d", "axisymmetric2d"}, bounds : Rectangle,
            polygons : Seq(Outline),
            boundaries : Seq([name : STRING, select : SUBSET Selector])]
    BY <1>1, <1>4, <1>5
  <2>3. h \in Geometry
    BY <1>1, <1>4, <1>6, <2>1, <2>2 DEF Geometry, Outline
  <2> QED
    BY <2>3 DEF h

LEMMA Reframed ==
    ASSUME NEW g, Drawable(g), NEW i \in 1..4, NEW by \in Int
    PROVE  [g EXCEPT !.bounds[i] = @ + by] \in Geometry
<1>1. /\ g = [type |-> g.type, bounds |-> g.bounds, polygons |-> g.polygons,
              boundaries |-> g.boundaries]
      /\ g.bounds \in Rectangle /\ g \in Geometry
  BY GeometryIs DEF Drawable
<1>2. PICK b1 \in Int, b2 \in Int, b3 \in Int, b4 \in Int : g.bounds = <<b1, b2, b3, b4>>
  BY <1>1 DEF Rectangle
<1>3. [g.bounds EXCEPT ![i] = @ + by] \in Rectangle
  BY <1>2 DEF Rectangle
<1>4. [g EXCEPT !.bounds[i] = @ + by] =
        [type |-> g.type, bounds |-> [g.bounds EXCEPT ![i] = @ + by], polygons |-> g.polygons,
         boundaries |-> g.boundaries]
  BY <1>1
<1> QED
  BY <1>1, <1>3, <1>4 DEF Geometry

-----------------------------------------------------------------------------
(* The invariant: the revisions fit, and what was resolved is of the head *)

BoundsInv ==
    /\ Drawable(drawn) /\ Drawable(former)
    /\ \/ asked = NotAsked
       \/ /\ asked.holds = Predicate(drawn, asked.name)
          /\ asked.name \in {entry.name : entry \in Range(drawn.boundaries)} \cup {Unknown}

LEMMA BoundsInitially == BoundariesInit => BoundsInv
<1> SUFFICES ASSUME BoundariesInit PROVE BoundsInv
  OBVIOUS
<1>1. drawn \in Geometry /\ Accepted(drawn) /\ former = drawn /\ asked = NotAsked
  BY BoundariesAssumption DEF BoundariesInit
<1> QED
  BY <1>1, AcceptedFits DEF BoundsInv

LEMMA PatchedFits ==
    ASSUME BoundsInv, NEW g \in Geometry, Patch(g)
    PROVE  BoundsInv'
<1>1. Drawable(g)
  BY AcceptedFits DEF Patch
<1>2. drawn' = g /\ former' = drawn /\ asked' = NotAsked /\ Drawable(drawn)
  BY DEF Patch, BoundsInv
<1> QED
  BY <1>1, <1>2 DEF BoundsInv, NotAsked

LEMMA BoundsStep == BoundsInv /\ [BoundariesNext]_boundaryVars => BoundsInv'
<1> SUFFICES ASSUME BoundsInv, [BoundariesNext]_boundaryVars PROVE BoundsInv'
  OBVIOUS
<1>1. CASE EditOutline
  <2>1. PICK k \in DOMAIN drawn.polygons : \E p \in Edited(drawn.polygons[k]) :
          Patch([drawn EXCEPT !.polygons[k] = p])
    BY <1>1 DEF EditOutline
  <2>2. PICK p \in Edited(drawn.polygons[k]) : Patch([drawn EXCEPT !.polygons[k] = p])
    BY <2>1
  <2> QED
    BY <2>2, Redrawn, PatchedFits DEF BoundsInv
<1>2. CASE EditBounds
  <2>1. PICK i \in 1..4, by \in {-1, 1} : Patch([drawn EXCEPT !.bounds[i] = @ + by])
    BY <1>2 DEF EditBounds
  <2>2. by \in Int
    BY <2>1
  <2> QED
    BY <2>1, <2>2, Reframed, PatchedFits DEF BoundsInv
<1>3. CASE Resolve
  <2>1. /\ drawn' = drawn /\ former' = former
        /\ asked'.holds = Predicate(drawn, asked'.name)
        /\ asked'.name \in {entry.name : entry \in Range(drawn.boundaries)} \cup {Unknown}
    BY <1>3 DEF Resolve
  <2> QED
    BY <2>1 DEF BoundsInv
<1>4. CASE UNCHANGED boundaryVars
  BY <1>4 DEF boundaryVars, BoundsInv, NotAsked
<1> QED
  BY <1>1, <1>2, <1>3, <1>4 DEF BoundariesNext

-----------------------------------------------------------------------------
(* Radii *)

LEMMA RadiiHold ==
    ASSUME BoundsInv
    PROVE  RadiiAreRadii
<1> SUFFICES ASSUME drawn.type = "axisymmetric2d",
                    NEW p \in Range(drawn.polygons), NEW at \in Range(p.points)
             PROVE  at[1] >= 0 /\ (at[1] = 0 => ReachesAxis(drawn))
  BY DEF RadiiAreRadii
<1>1. Drawable(drawn)
  BY DEF BoundsInv
<1>2. PICK b1 \in Int, b2 \in Int, b3 \in Int, b4 \in Int : drawn.bounds = <<b1, b2, b3, b4>>
  <2>1. drawn.bounds \in Rectangle
    BY <1>1, GeometryIs DEF Drawable
  <2> QED
    BY <2>1 DEF Rectangle
<1>3. at \in Point
  <2>1. p.points \in Seq(Point)
    BY <1>1, OutlinesAre DEF Drawable
  <2> QED
    BY <2>1 DEF Range
<1>4. PICK x \in Int, y \in Int : at = <<x, y>>
  BY <1>3 DEF Point
<1>5. b1 >= 0 /\ InsideBounds(drawn, at)
  BY <1>1, <1>2 DEF Drawable
<1>6. x \in (b1 + 1)..(b3 - 1) \/ (ReachesAxis(drawn) /\ x = b1)
  BY <1>2, <1>4, <1>5 DEF InsideBounds
<1> QED
  BY <1>4, <1>5, <1>6

-----------------------------------------------------------------------------
(* A selection by ids is what its ids say *)

LEMMA PointsSelect ==
    ASSUME NEW g, NEW s, s.type = "points", NEW at
    PROVE  Selects(g, s, at) <=>
             \E p \in Range(g.polygons) : \E e \in SpannedEdges(p, s.ids) : OnEdge(p.points, e, at)
BY DEF Selects

\* The spanned edges, by the place of the point they begin at.
LEMMA SpannedAre ==
    ASSUME NEW p, p.points \in Seq(Point), p.ids \in Seq(STRING), IdsFit(p), NEW S, NEW e
    PROVE  e \in SpannedEdges(p, S) <=>
             \E i \in DOMAIN p.ids :
                e = <<i, After(i, Len(p.ids))>> /\ {p.ids[i], p.ids[After(i, Len(p.ids))]} \subseteq S
<1>1. PICK n \in Nat : n = Len(p.points)
  OBVIOUS
<1>2. p.ids = <<>> \/ Len(p.ids) = n
  BY <1>1 DEF IdsFit
<1>3. DOMAIN p.points = 1..n /\ DOMAIN p.ids = 1..Len(p.ids)
  BY <1>1
<1>4. \A i \in 1..n : After(i, n) \in 1..n
  BY <1>1, <1>3, EdgesAre
<1>5. e \in SpannedEdges(p, S) <=>
        \E i \in 1..n :
            /\ e = <<i, After(i, n)>>
            /\ i \in DOMAIN p.ids /\ After(i, n) \in DOMAIN p.ids
            /\ p.ids[i] \in S /\ p.ids[After(i, n)] \in S
  <2>1. SpannedEdges(p, S) =
          {f \in Edges(p.points) :
              /\ f[1] \in DOMAIN p.ids /\ f[2] \in DOMAIN p.ids
              /\ p.ids[f[1]] \in S /\ p.ids[f[2]] \in S}
    BY EdgesAre
  <2>2. Edges(p.points) = {<<i, After(i, n)>> : i \in 1..n}
    BY <1>1, <1>3 DEF Edges
  <2> QED
    BY <2>1, <2>2
<1>6. CASE p.ids = <<>>
  <2>1. DOMAIN p.ids = {}
    BY <1>6
  <2> QED
    BY <1>5, <2>1
<1>7. CASE Len(p.ids) = n
  <2>1. DOMAIN p.ids = 1..n
    BY <1>3, <1>7
  <2> QED
    BY <1>4, <1>5, <1>7, <2>1
<1> QED
  BY <1>2, <1>6, <1>7

LEMMA SelectionHolds ==
    ASSUME BoundsInv
    PROVE  SelectionIsExact
<1> SUFFICES ASSUME NEW entry \in Range(drawn.boundaries), NEW s \in PointSelectors(entry.select)
             PROVE  /\ NamedPairs(drawn, s) # {}
                    /\ \A at \in Window(drawn) :
                          Selects(drawn, s, at) <=>
                              \E p \in Range(drawn.polygons) : \E i \in DOMAIN p.ids :
                                  LET j == After(i, Len(p.ids)) IN
                                  /\ {p.ids[i], p.ids[j]} \subseteq s.ids
                                  /\ OnEdge(p.points, <<i, j>>, at)
  BY DEF SelectionIsExact
<1>1. Drawable(drawn) /\ drawn \in Geometry /\ s.type = "points"
  BY DEF BoundsInv, Drawable, PointSelectors
<1>2. \A p \in Range(drawn.polygons) :
        p.points \in Seq(Point) /\ p.ids \in Seq(STRING) /\ IdsFit(p)
  BY <1>1, OutlinesAre DEF Drawable
<1>3. NamedPairs(drawn, s) # {}
  <2>1. PICK p \in Range(drawn.polygons) : SpannedEdges(p, s.ids) # {}
    BY <1>1 DEF Drawable
  <2>2. PICK e \in SpannedEdges(p, s.ids) : TRUE
    BY <2>1
  <2>3. /\ e \in Edges(p.points) /\ e[1] \in DOMAIN p.ids
        /\ p.ids[e[1]] \in s.ids /\ p.ids[e[2]] \in s.ids
    BY <1>2, <2>2, EdgesAre
  <2>4. p.ids # <<>>
    BY <2>3
  <2>5. {p.ids[e[1]], p.ids[e[2]]} \in NamedPairs(drawn, s)
    BY <2>3, <2>4 DEF NamedPairs
  <2> QED
    BY <2>5
<1>4. ASSUME NEW at \in Window(drawn)
      PROVE  Selects(drawn, s, at) <=>
                 \E p \in Range(drawn.polygons) : \E i \in DOMAIN p.ids :
                     LET j == After(i, Len(p.ids)) IN
                     /\ {p.ids[i], p.ids[j]} \subseteq s.ids
                     /\ OnEdge(p.points, <<i, j>>, at)
  <2>1. Selects(drawn, s, at) <=>
          \E p \in Range(drawn.polygons) : \E e \in SpannedEdges(p, s.ids) : OnEdge(p.points, e, at)
    BY <1>1, PointsSelect
  <2>2. ASSUME NEW p \in Range(drawn.polygons)
        PROVE  (\E e \in SpannedEdges(p, s.ids) : OnEdge(p.points, e, at)) <=>
                 \E i \in DOMAIN p.ids :
                    /\ {p.ids[i], p.ids[After(i, Len(p.ids))]} \subseteq s.ids
                    /\ OnEdge(p.points, <<i, After(i, Len(p.ids))>>, at)
    <3>1. \A e : e \in SpannedEdges(p, s.ids) <=>
             \E i \in DOMAIN p.ids :
                e = <<i, After(i, Len(p.ids))>>
                  /\ {p.ids[i], p.ids[After(i, Len(p.ids))]} \subseteq s.ids
      BY <1>2, SpannedAre
    <3> QED
      BY <3>1, Zenon
  <2> QED
    BY <2>1, <2>2
<1> QED
  BY <1>3, <1>4

-----------------------------------------------------------------------------
(* An edge that is still there is still selected *)

LEMMA MiddleOnEdge ==
    ASSUME NEW x \in Int, NEW y \in Int, NEW z \in Int, NEW w \in Int,
           NEW points, NEW e, points[e[1]] = <<2 * x, 2 * y>>, points[e[2]] = <<2 * z, 2 * w>>
    PROVE  OnEdge(points, e, <<x + z, y + w>>)
<1> DEFINE a == <<2 * x, 2 * y>>
           b == <<2 * z, 2 * w>>
           m == <<x + z, y + w>>
<1>1. PICK u \in Int, v \in Int : u = z - x /\ v = w - y
  OBVIOUS
<1>2. /\ From(a, b) = <<2 * u, 2 * v>> /\ From(a, m) = <<u, v>>
  BY <1>1 DEF From
<1>3. Orient(a, b, m) = (2 * u) * v - u * (2 * v)
  BY <1>2 DEF Orient, Cross
<1>4. (2 * u) * v - u * (2 * v) = 0
  OBVIOUS
<1>5. /\ m[1] - a[1] = u /\ m[1] - b[1] = -u
      /\ m[2] - a[2] = v /\ m[2] - b[2] = -v
  BY <1>1
<1>6. \A k \in Int : k * (-k) \in Int /\ k * (-k) <= 0
  OBVIOUS
<1>7. u * (-u) + v * (-v) <= 0
  <2>1. PICK uu \in Int, vv \in Int : uu = u * (-u) /\ vv = v * (-v) /\ uu <= 0 /\ vv <= 0
    BY <1>6
  <2> QED
    BY <2>1
<1> QED
  BY <1>3, <1>4, <1>5, <1>7 DEF OnEdge

LEMMA DoubledIs ==
    ASSUME NEW p \in Outline, IdsFit(p)
    PROVE  /\ DoubledOutline(p).points = [i \in DOMAIN p.points |-> <<2 * p.points[i][1], 2 * p.points[i][2]>>]
           /\ DoubledOutline(p).ids = p.ids
           /\ DoubledOutline(p).points \in Seq(Point)
           /\ Len(DoubledOutline(p).points) = Len(p.points)
           /\ IdsFit(DoubledOutline(p))
           /\ Edges(DoubledOutline(p).points) = Edges(p.points)
           /\ \A S : SpannedEdges(DoubledOutline(p), S) = SpannedEdges(p, S)
<1> DEFINE new == [i \in DOMAIN p.points |-> <<2 * p.points[i][1], 2 * p.points[i][2]>>]
<1>1. p.points \in Seq(Point) /\ p = [name |-> p.name, points |-> p.points, ids |-> p.ids]
  BY DEF Outline
<1>2. DoubledOutline(p).points = new /\ DoubledOutline(p).ids = p.ids
  BY <1>1 DEF DoubledOutline
<1>3. PICK n \in Nat : n = Len(p.points) /\ DOMAIN p.points = 1..n
  BY <1>1
<1>4. \A i \in 1..n : <<2 * p.points[i][1], 2 * p.points[i][2]>> \in Point
  <2> TAKE i \in 1..n
  <2>1. p.points[i] \in Point
    BY <1>1, <1>3
  <2> QED
    BY <2>1 DEF Point
<1>5. new \in Seq(Point) /\ Len(new) = n /\ DOMAIN new = 1..n
  BY <1>3, <1>4
<1> HIDE DEF new
<1>6. IdsFit(DoubledOutline(p))
  BY <1>2, <1>3, <1>5 DEF IdsFit
<1>7. Edges(DoubledOutline(p).points) = Edges(p.points)
  BY <1>2, <1>3, <1>5 DEF Edges
<1>8. \A S : SpannedEdges(DoubledOutline(p), S) = SpannedEdges(p, S)
  BY <1>2, <1>3, <1>5 DEF SpannedEdges
<1> QED
  BY <1>2, <1>3, <1>5, <1>6, <1>7, <1>8 DEF new

LEMMA DoubledHas ==
    ASSUME NEW g \in Geometry
    PROVE  Range(Doubled(g).polygons) = {DoubledOutline(p) : p \in Range(g.polygons)}
<1>1. g = [type |-> g.type, bounds |-> g.bounds, polygons |-> g.polygons,
            boundaries |-> g.boundaries]
  BY GeometryIs
<1>2. Doubled(g).polygons = [k \in DOMAIN g.polygons |-> DoubledOutline(g.polygons[k])]
  BY <1>1 DEF Doubled
<1> QED
  BY <1>2 DEF Range

\* On an edge that no other touches, a selection by ids holds when both its ends are named.
LEMMA EdgeSelected ==
    ASSUME NEW g, Drawable(g), NEW s, s.type = "points", NEW edge \in EdgesOf(g), Bare(g, edge.ends)
    PROVE  Selects(Doubled(g), s, Middle(edge.ends)) <=> edge.ids \subseteq s.ids
<1> DEFINE at == Middle(edge.ends)
           G == Doubled(g)
<1>1. g \in Geometry /\ Range(G.polygons) = {DoubledOutline(p) : p \in Range(g.polygons)}
  BY DoubledHas DEF Drawable
<1>2. \A p \in Range(g.polygons) : p \in Outline /\ IdsFit(p)
  BY <1>1, OutlinesAre DEF Drawable
<1>3. PICK p \in Range(g.polygons) : \E e \in Edges(p.points) :
        /\ p.ids # <<>>
        /\ edge = [ids |-> {p.ids[e[1]], p.ids[e[2]]}, ends |-> <<p.points[e[1]], p.points[e[2]]>>]
  BY DEF EdgesOf
<1>4. PICK e \in Edges(p.points) :
        /\ p.ids # <<>>
        /\ edge = [ids |-> {p.ids[e[1]], p.ids[e[2]]}, ends |-> <<p.points[e[1]], p.points[e[2]]>>]
  BY <1>3
<1>5. p \in Outline /\ IdsFit(p) /\ p.points \in Seq(Point) /\ p.ids \in Seq(STRING)
  BY <1>2 DEF Outline
<1> DEFINE P == DoubledOutline(p)
<1>6. /\ P \in Range(G.polygons) /\ P.points \in Seq(Point) /\ P.ids = p.ids /\ IdsFit(P)
      /\ Edges(P.points) = Edges(p.points)
      /\ \A S : SpannedEdges(P, S) = SpannedEdges(p, S)
  BY <1>1, <1>5, DoubledIs
<1>7. /\ e[1] \in DOMAIN p.points /\ e[2] \in DOMAIN p.points
      /\ e[1] \in DOMAIN p.ids /\ e[2] \in DOMAIN p.ids
  <2>1. e[1] \in DOMAIN p.points /\ e[2] \in DOMAIN p.points
    <3>1. PICK i \in DOMAIN p.points : e = <<i, After(i, Len(p.points))>>
      BY <1>4 DEF Edges
    <3>2. After(i, Len(p.points)) \in DOMAIN p.points
      BY <1>5, EdgesAre
    <3> QED
      BY <3>1, <3>2
  <2>2. Len(p.ids) = Len(p.points)
    BY <1>4, <1>5 DEF IdsFit
  <2>3. DOMAIN p.ids = DOMAIN p.points
    BY <1>5, <2>2
  <2> QED
    BY <2>1, <2>3
<1>8. OnEdge(P.points, e, at)
  <2>1. p.points[e[1]] \in Point /\ p.points[e[2]] \in Point
    BY <1>5, <1>7
  <2>2. PICK x \in Int, y \in Int : p.points[e[1]] = <<x, y>>
    BY <2>1 DEF Point
  <2>3. PICK z \in Int, w \in Int : p.points[e[2]] = <<z, w>>
    BY <2>1 DEF Point
  <2>4. P.points[e[1]] = <<2 * x, 2 * y>> /\ P.points[e[2]] = <<2 * z, 2 * w>>
    <3>1. P.points = [i \in DOMAIN p.points |-> <<2 * p.points[i][1], 2 * p.points[i][2]>>]
      BY <1>5, DoubledIs
    <3> HIDE DEF P
    <3> QED
      BY <1>7, <2>2, <2>3, <3>1
  <2>5. at = <<x + z, y + w>>
    BY <1>4, <2>2, <2>3 DEF Middle
  <2> HIDE DEF P, at
  <2> QED
    BY <2>4, <2>5, MiddleOnEdge
<1> HIDE DEF at, G, P
<1>9. Selects(G, s, at) <=>
        \E q \in Range(G.polygons) : \E f \in SpannedEdges(q, s.ids) : OnEdge(q.points, f, at)
  BY PointsSelect
<1>10. edge.ids \subseteq s.ids <=> e \in SpannedEdges(p, s.ids)
  <2>1. SpannedEdges(p, s.ids) =
                {f \in Edges(p.points) :
                    /\ f[1] \in DOMAIN p.ids /\ f[2] \in DOMAIN p.ids
                    /\ p.ids[f[1]] \in s.ids /\ p.ids[f[2]] \in s.ids}
    BY <1>5, EdgesAre
  <2>2. edge.ids = {p.ids[e[1]], p.ids[e[2]]}
    BY <1>4
  <2> QED
    BY <1>4, <1>7, <2>1, <2>2
<1>11. ASSUME edge.ids \subseteq s.ids PROVE Selects(G, s, at)
  BY <1>6, <1>8, <1>9, <1>10, <1>11
<1>12. ASSUME Selects(G, s, at) PROVE edge.ids \subseteq s.ids
  <2>1. PICK q \in Range(G.polygons) : \E f \in SpannedEdges(q, s.ids) : OnEdge(q.points, f, at)
    BY <1>9, <1>12
  <2>2. PICK f \in SpannedEdges(q, s.ids) : OnEdge(q.points, f, at)
    BY <2>1
  <2>3. PICK q0 \in Range(g.polygons) : q = DoubledOutline(q0)
    BY <1>1, <2>1
  <2>4. f \in Edges(q.points)
    <3>1. q0 \in Outline /\ IdsFit(q0)
      BY <1>2
    <3>2. q.points \in Seq(Point) /\ q.ids = q0.ids /\ IdsFit(q)
      BY <2>3, <3>1, DoubledIs
    <3>3. q.ids \in Seq(STRING)
      BY <3>1, <3>2 DEF Outline
    <3> QED
      BY <2>2, <3>2, <3>3, EdgesAre
  <2>5. \A pp, qq \in Range(G.polygons) : \A ee \in Edges(pp.points), ff \in Edges(qq.points) :
          OnEdge(pp.points, ee, at) /\ OnEdge(qq.points, ff, at) => pp = qq /\ ee = ff
    BY DEF Bare, G, at
  <2>6. q = P /\ f = e
    BY <1>4, <1>6, <1>8, <2>2, <2>4, <2>5
  <2> QED
    BY <1>6, <1>10, <2>2, <2>6
<1> QED
  BY <1>11, <1>12 DEF G, at

LEMMA SelectionStays ==
    ASSUME BoundsInv
    PROVE  SelectionSurvives
BY EdgeSelected DEF BoundsInv, SelectionSurvives, PointSelectors

-----------------------------------------------------------------------------
(* Names *)

\* A selector that does not resolve asks for a part that is not there.
LEMMA NothingMissing ==
    ASSUME NEW g, Drawable(g), NEW entry \in Range(g.boundaries), NEW s \in entry.select
    PROVE  Unresolvable(g, s) <=>
             s.type = "part" /\ s.of # "outer" /\ s.of \notin {p.name : p \in Range(g.polygons)}
<1>1. g \in Geometry
  BY DEF Drawable
<1>2. CASE g.type = "domain2d"
  <2>1. \A p \in Range(g.polygons) : p.name = "obstacle"
    BY <1>1, <1>2, OutlinesAre
  <2>2. \E p \in Range(g.polygons) : TRUE
    <3>1. g.polygons \in Seq(Outline) /\ Len(g.polygons) = 1
      BY <1>1, <1>2, GeometryIs
    <3>2. 1 \in DOMAIN g.polygons
      BY <3>1
    <3> QED
      BY <3>2 DEF Range
  <2> QED
    BY <1>2, <2>1, <2>2 DEF Unresolvable
<1>3. CASE g.type # "domain2d"
  <2>1. \A p \in Range(g.polygons) : p.name # "obstacle"
    BY <1>1, <1>3, OutlinesAre
  <2> QED
    BY <1>3, <2>1 DEF Unresolvable
<1> QED
  BY <1>2, <1>3

\* A part has the points of its outline, which lie in the window.
LEMMA PartHasPoints ==
    ASSUME NEW g, Drawable(g), NEW s, s.type = "part", s.of # "outer",
           NEW p \in Range(g.polygons), p.name = s.of, NEW at \in Range(p.points)
    PROVE  at \in Window(g) /\ Selects(g, s, at)
<1>1. p.points \in Seq(Point) /\ p.ids \in Seq(STRING) /\ IdsFit(p)
  BY OutlinesAre DEF Drawable
<1>2. PICK i \in DOMAIN p.points : at = p.points[i]
  BY DEF Range
<1>3. After(i, Len(p.points)) \in DOMAIN p.points
  BY <1>1, EdgesAre
<1>4. PICK e : e = <<i, After(i, Len(p.points))>>
  OBVIOUS
<1>5. e \in Edges(p.points)
  BY <1>4 DEF Edges
<1>6. e \in (DOMAIN p.points) \X (DOMAIN p.points) /\ e[1] = i
  BY <1>3, <1>4
<1>7. OnEdge(p.points, e, at)
  BY <1>1, <1>2, <1>6, EndsOnEdge
<1>8. OnOutline(p.points, at)
  BY <1>5, <1>7 DEF OnOutline
<1>9. Selects(g, s, at)
  BY <1>8 DEF Selects
<1> QED
  BY <1>9, InWindow

\* A selector by ids or by part that resolves holds somewhere.
LEMMA SomewhereSelected ==
    ASSUME NEW g, Drawable(g), NEW entry \in Range(g.boundaries), NEW s \in entry.select,
           s.type \in {"points", "part"}, ~Unresolvable(g, s)
    PROVE  \E at \in Window(g) : Selects(g, s, at)
<1>1. g \in Geometry
  BY DEF Drawable
<1>2. CASE s.type = "points"
  <2>1. PICK p \in Range(g.polygons) : SpannedEdges(p, s.ids) # {}
    BY <1>2 DEF Drawable, PointSelectors
  <2>2. PICK e \in SpannedEdges(p, s.ids) : TRUE
    BY <2>1
  <2>3. p.points \in Seq(Point) /\ p.ids \in Seq(STRING) /\ IdsFit(p)
    BY <1>1, OutlinesAre DEF Drawable
  <2>4. e \in Edges(p.points)
    BY <2>2, <2>3, EdgesAre
  <2>5. e \in (DOMAIN p.points) \X (DOMAIN p.points)
    BY <2>3, <2>4, EdgesAre DEF Edges
  <2>6. OnEdge(p.points, e, p.points[e[1]])
    BY <2>3, <2>5, EndsOnEdge
  <2>7. p.points[e[1]] \in Range(p.points)
    BY <2>5 DEF Range
  <2>8. p.points[e[1]] \in Window(g)
    BY <2>7, InWindow
  <2>9. Selects(g, s, p.points[e[1]])
    BY <1>2, <2>2, <2>6, PointsSelect
  <2> QED
    BY <2>8, <2>9
<1>3. CASE s.type = "part" /\ s.of = "outer"
  <2>1. PICK b1 \in Int, b2 \in Int, b3 \in Int, b4 \in Int : g.bounds = <<b1, b2, b3, b4>>
    BY <1>1, GeometryIs DEF Rectangle
  <2>2. b1 < b3 /\ b2 < b4
    BY <2>1 DEF Drawable, BoundsFit
  <2>3. <<b1, b2>> \in Window(g)
    BY <2>1, <2>2 DEF Window
  <2>4. Selects(g, s, <<b1, b2>>)
    BY <1>3, <2>1 DEF Selects
  <2> QED
    BY <2>3, <2>4
<1>4. CASE s.type = "part" /\ s.of # "outer"
  <2>1. PICK p \in Range(g.polygons) : p.name = s.of
    BY <1>4, NothingMissing
  <2>2. p.points \in Seq(Point) /\ Len(p.points) >= 3
    BY <1>1, OutlinesAre DEF Drawable
  <2>3. p.points[1] \in Range(p.points)
    BY <2>2 DEF Range
  <2> QED
    BY <1>4, <2>1, <2>3, PartHasPoints
<1> QED
  BY <1>2, <1>3, <1>4

LEMMA NamesHold ==
    ASSUME BoundsInv
    PROVE  NamesResolve
<1> DEFINE entries == {entry \in Range(drawn.boundaries) : entry.name = asked.name}
           missing(s) == s.type = "part" /\ s.of # "outer"
                          /\ s.of \notin {p.name : p \in Range(drawn.polygons)}
<1>1. Drawable(drawn)
  BY DEF BoundsInv
<1>2. CASE asked = NotAsked
  BY <1>2 DEF NamesResolve, NotAsked
<1>3. CASE asked # NotAsked
  <2>1. /\ asked.holds = Predicate(drawn, asked.name)
        /\ asked.name = Unknown \/ entries # {}
    BY <1>3 DEF BoundsInv
  <2>2. \A x, y \in entries : x = y
    BY <1>1 DEF Drawable, Range
  <2>3. \A entry \in entries : \A s \in entry.select : Unresolvable(drawn, s) <=> missing(s)
    BY <1>1, NothingMissing
  <2> DEFINE where == {at \in Window(drawn) :
                         \A entry \in entries : \A s \in entry.select : Selects(drawn, s, at)}
  <2>4. asked.holds = IF \E entry \in entries : ~\E s \in entry.select : Unresolvable(drawn, s)
                      THEN <<where>> ELSE <<>>
    BY <2>1 DEF Predicate
  <2>5. CASE ~\E entry \in entries : ~\E s \in entry.select : Unresolvable(drawn, s)
    <3>1. asked.holds = <<>>
      BY <2>4, <2>5
    <3>2. asked.name = Unknown \/ \E entry \in entries : \E s \in entry.select : missing(s)
      BY <2>1, <2>3, <2>5
    <3> QED
      BY <3>1, <3>2 DEF NamesResolve
  <2>6. CASE \E entry \in entries : ~\E s \in entry.select : Unresolvable(drawn, s)
    <3>1. asked.holds = <<where>>
      BY <2>4, <2>6
    <3>2. asked.holds # <<>> /\ asked.holds[1] = where
      BY <3>1
    <3>3. ASSUME NEW entry \in entries, NEW s \in entry.select
          PROVE  /\ ~missing(s)
                 /\ entry.select = {s} /\ s.type \in {"points", "part"} => where # {}
                 /\ entry.select = {s} /\ s.type = "part" /\ s.of # "outer" =>
                      \E p \in Range(drawn.polygons) :
                         p.name = s.of /\ Range(p.points) \subseteq where
      <4>1. ~Unresolvable(drawn, s)
        BY <2>2, <2>6
      <4>2. ~missing(s)
        BY <2>3, <4>1
      <4>3. entry.select = {s} => \A at \in Window(drawn) : Selects(drawn, s, at) => at \in where
        BY <2>2
      <4>4. s.type \in {"points", "part"} => \E at \in Window(drawn) : Selects(drawn, s, at)
        BY <1>1, <4>1, SomewhereSelected
      <4>5. ASSUME s.type = "part", s.of # "outer"
            PROVE  \E p \in Range(drawn.polygons) :
                     p.name = s.of /\ \A at \in Range(p.points) :
                        at \in Window(drawn) /\ Selects(drawn, s, at)
        <5>1. PICK p \in Range(drawn.polygons) : p.name = s.of
          BY <4>2, <4>5
        <5> QED
          BY <1>1, <4>5, <5>1, PartHasPoints
      <4> HIDE DEF where, missing
      <4> QED
        BY <4>2, <4>3, <4>4, <4>5
    <3> HIDE DEF where
    <3> QED
      BY <3>2, <3>3 DEF NamesResolve
  <2> QED
    BY <2>5, <2>6
<1> QED
  BY <1>2, <1>3

\* However its geometry was edited, a name that a solver resolves holds what was declared,
\* keeps the edges it had, and fails aloud if it means nothing (geometry.py, boundaries.py).
THEOREM BoundariesAreFollowed == BoundariesSpec => []BoundariesFollow
<1>1. BoundsInv => BoundariesFollow
  BY NamesHold, SelectionHolds, SelectionStays, RadiiHold DEF BoundariesFollow
<1> QED
  BY BoundsInitially, BoundsStep, <1>1, PTL DEF BoundariesSpec

-----------------------------------------------------------------------------
(* Sums, over the members of a finite set *)

USE FieldsAssumption

LEMMA LeastOf ==
    ASSUME NEW S, S \subseteq Nat, S # {}
    PROVE  Min(S) \in S /\ \A y \in S : Min(S) =< y
<1>1. PICK x \in S : \A y \in S : <<y, x>> \notin OpToRel(<, Nat)
  BY NatLessThanWellFounded, WFMin, Zenon
<1>2. \A y \in S : ~(y < x)
  BY <1>1, Zenon DEF OpToRel
<1>3. \A y \in S : x =< y
  BY <1>2
<1> QED
  BY <1>3 DEF Min

\* Induction, for a set of numbers.
LEMMA EveryNumber ==
    ASSUME NEW S, S \subseteq Nat, 0 \in S, \A n \in S : n + 1 \in S
    PROVE  S = Nat
<1> SUFFICES ASSUME Nat \ S # {} PROVE FALSE
  OBVIOUS
<1> DEFINE m == Min(Nat \ S)
<1>1. m \in Nat \ S /\ \A y \in Nat \ S : m =< y
  BY LeastOf
<1> HIDE DEF m
<1>2. m - 1 \in Nat /\ m - 1 \notin Nat \ S
  BY <1>1
<1> QED
  BY <1>1, <1>2

Choice(s) == CHOOSE x \in s : TRUE

\* A function from the subsets of S to the sums of f over them.
SumsUp(g, f, S) ==
    g = [s \in SUBSET S |-> IF s = {} THEN 0 ELSE f[Choice(s)] + g[s \ {Choice(s)}]]

LEMMA SumIs == \A f, S : SumFunctionOnSet(f, S) = (CHOOSE g : SumsUp(g, f, S))[S]
BY DEF SumFunctionOnSet, FoldFunctionOnSet, MapThenFoldSet, SumsUp, Choice

LEMMA ChoiceIs == \A s : s # {} => Choice(s) \in s
BY DEF Choice

\* Induction over the subsets of a finite set, for a set of them.
LEMMA EverySubset ==
    ASSUME NEW S, IsFiniteSet(S), NEW P, {} \in P,
           \A s \in SUBSET S : s # {} /\ s \ {Choice(s)} \in P => s \in P
    PROVE  SUBSET S \subseteq P
<1> DEFINE N == {n \in Nat : \A s \in SUBSET S : Cardinality(s) = n => s \in P}
<1>1. \A s \in SUBSET S : IsFiniteSet(s) /\ Cardinality(s) \in Nat
  BY FS_Subset, FS_CardinalityType
<1>2. 0 \in N
  BY <1>1, FS_EmptySet
<1>3. ASSUME NEW n \in N PROVE n + 1 \in N
  <2> SUFFICES ASSUME NEW s \in SUBSET S, Cardinality(s) = n + 1 PROVE s \in P
    OBVIOUS
  <2>1. s # {}
    BY FS_EmptySet
  <2>2. Choice(s) \in s
    BY <2>1, ChoiceIs
  <2>3. Cardinality(s \ {Choice(s)}) = n
    <3>1. Cardinality(s \ {Choice(s)}) = Cardinality(s) - 1
      BY <1>1, <2>2, FS_RemoveElement
    <3> QED
      BY <3>1
  <2>4. s \ {Choice(s)} \in SUBSET S
    OBVIOUS
  <2> QED
    BY <2>1, <2>3, <2>4
<1>4. N = Nat
  <2> HIDE DEF N
  <2>1. N \subseteq Nat
    BY DEF N
  <2> QED
    BY <1>2, <1>3, <2>1, EveryNumber
<1> QED
  BY <1>1, <1>4

\* Sums of functions that agree.
LEMMA SumsAgree ==
    ASSUME NEW f, NEW h, NEW S, \A x \in S : f[x] = h[x]
    PROVE  SumFunctionOnSet(f, S) = SumFunctionOnSet(h, S)
<1>1. \A s \in SUBSET S : s # {} => f[Choice(s)] = h[Choice(s)]
  BY ChoiceIs
<1>2. ASSUME NEW g PROVE SumsUp(g, f, S) <=> SumsUp(g, h, S)
  BY <1>1 DEF SumsUp
<1>3. (CHOOSE g : SumsUp(g, f, S)) = (CHOOSE g : SumsUp(g, h, S))
  BY <1>2
<1> QED
  BY <1>3, SumIs

LEMMA SumsExist ==
    ASSUME NEW S, IsFiniteSet(S), NEW f, \A x \in S : f[x] \in Int
    PROVE  \E g : SumsUp(g, f, S)
<1> DEFINE Up(g, s) == IF s = {} THEN 0 ELSE f[Choice(s)] + g[s \ {Choice(s)}]
           N == {n \in Nat : \E g \in [SUBSET S -> Int] :
                    \A s \in SUBSET S : Cardinality(s) < n => g[s] = Up(g, s)}
<1>1. \A s \in SUBSET S : IsFiniteSet(s) /\ Cardinality(s) \in Nat
  BY FS_Subset, FS_CardinalityType
<1>2. 0 \in N
  <2>1. [s \in SUBSET S |-> 0] \in [SUBSET S -> Int]
    OBVIOUS
  <2>2. \A s \in SUBSET S : ~(Cardinality(s) < 0)
    BY <1>1
  <2> QED
    BY <2>1, <2>2
<1>3. ASSUME NEW n \in N PROVE n + 1 \in N
  <2>1. PICK g \in [SUBSET S -> Int] :
          \A s \in SUBSET S : Cardinality(s) < n => g[s] = Up(g, s)
    OBVIOUS
  <2> DEFINE h == [s \in SUBSET S |-> Up(g, s)]
  <2>2. \A s \in SUBSET S : s # {} => Choice(s) \in s /\ f[Choice(s)] \in Int
                                       /\ s \ {Choice(s)} \in SUBSET S
    BY ChoiceIs
  <2>3. h \in [SUBSET S -> Int]
    BY <2>2
  <2>4. ASSUME NEW s \in SUBSET S, Cardinality(s) < n + 1 PROVE h[s] = Up(h, s)
    <3>1. CASE s = {}
      BY <3>1
    <3>2. CASE s # {}
      <4>1. PICK t \in SUBSET S : t = s \ {Choice(s)}
        BY <2>2, <3>2
      <4>2. Cardinality(t) = Cardinality(s) - 1
        BY <1>1, <2>2, <3>2, <4>1, FS_RemoveElement
      <4>3. Cardinality(t) < n
        BY <1>1, <2>4, <4>2
      <4>4. g[t] = Up(g, t) /\ h[t] = Up(g, t)
        BY <2>1, <4>3
      <4> QED
        BY <3>2, <4>1, <4>4
    <3> QED
      BY <3>1, <3>2
  <2> HIDE DEF h, At
  <2>5. n \in Nat /\ n + 1 \in Nat
    OBVIOUS
  <2> QED
    BY <2>3, <2>4, <2>5
<1>4. N = Nat
  <2> HIDE DEF N
  <2>1. N \subseteq Nat
    BY DEF N
  <2> QED
    BY <1>2, <1>3, <2>1, EveryNumber
<1>5. Cardinality(S) + 1 \in N
  <2>1. Cardinality(S) \in Nat
    BY <1>1
  <2> HIDE DEF N
  <2> QED
    BY <1>4, <2>1
<1>6. PICK g \in [SUBSET S -> Int] :
        \A s \in SUBSET S : Cardinality(s) < Cardinality(S) + 1 => g[s] = Up(g, s)
  BY <1>5
<1>7. \A s \in SUBSET S : Cardinality(s) < Cardinality(S) + 1
  <2> TAKE s \in SUBSET S
  <2>1. Cardinality(s) <= Cardinality(S) /\ Cardinality(s) \in Nat /\ Cardinality(S) \in Nat
    BY <1>1, FS_Subset
  <2> QED
    BY <2>1
<1>8. g = [s \in SUBSET S |-> Up(g, s)]
  BY <1>6, <1>7
<1> QED
  BY <1>8 DEF SumsUp

\* The sum over a finite set: that of its subsets, element by element.
Totals(g, f, S) ==
    /\ g \in [SUBSET S -> Int]
    /\ SumFunctionOnSet(f, S) = g[S]
    /\ g[{}] = 0
    /\ \A s \in SUBSET S : s # {} => g[s] = f[Choice(s)] + g[s \ {Choice(s)}]

LEMMA SumsAre ==
    ASSUME NEW S, IsFiniteSet(S), NEW f, \A x \in S : f[x] \in Int
    PROVE  \E g : Totals(g, f, S)
<1> DEFINE g == CHOOSE g : SumsUp(g, f, S)
<1>1. SumsUp(g, f, S)
  BY SumsExist
<1>2. SumFunctionOnSet(f, S) = g[S]
  BY SumIs
<1> HIDE DEF g
<1>3. /\ g[{}] = 0 /\ DOMAIN g = SUBSET S /\ g = [s \in SUBSET S |-> g[s]]
      /\ \A s \in SUBSET S : s # {} => g[s] = f[Choice(s)] + g[s \ {Choice(s)}]
  BY <1>1 DEF SumsUp
<1> DEFINE P == {s \in SUBSET S : g[s] \in Int}
<1>4. {} \in P
  BY <1>3
<1>5. \A s \in SUBSET S : s # {} /\ s \ {Choice(s)} \in P => s \in P
  <2> SUFFICES ASSUME NEW s \in SUBSET S, s # {}, g[s \ {Choice(s)}] \in Int PROVE g[s] \in Int
    BY DEF P
  <2> HIDE DEF P
  <2>1. f[Choice(s)] \in Int
    BY ChoiceIs
  <2>2. g[s] = f[Choice(s)] + g[s \ {Choice(s)}]
    BY <1>3
  <2> QED
    BY <2>1, <2>2
<1>6. SUBSET S \subseteq P
  <2> HIDE DEF P
  <2> QED
    BY <1>4, <1>5, EverySubset
<1>7. g \in [SUBSET S -> Int]
  BY <1>3, <1>6
<1> QED
  BY <1>2, <1>3, <1>7 DEF Totals

LEMMA SumIsInt ==
    ASSUME NEW S, IsFiniteSet(S), NEW f, \A x \in S : f[x] \in Int
    PROVE  SumFunctionOnSet(f, S) \in Int
<1>1. PICK g : Totals(g, f, S)
  BY SumsAre
<1> QED
  BY <1>1 DEF Totals

LEMMA SumIsNat ==
    ASSUME NEW S, IsFiniteSet(S), NEW f, \A x \in S : f[x] \in Nat
    PROVE  SumFunctionOnSet(f, S) \in Nat
<1>1. \A x \in S : f[x] \in Int
  OBVIOUS
<1>2. PICK g : Totals(g, f, S)
  BY <1>1, SumsAre
<1> USE <1>2 DEF Totals
<1> DEFINE P == {s \in SUBSET S : g[s] \in Nat}
<1>3. {} \in P
  BY <1>2
<1>4. \A s \in SUBSET S : s # {} /\ s \ {Choice(s)} \in P => s \in P
  BY <1>2, ChoiceIs
<1>5. SUBSET S \subseteq P
  <2> HIDE DEF P
  <2> QED
    BY <1>3, <1>4, EverySubset
<1> QED
  BY <1>2, <1>5

LEMMA Spread == \A k, a, b \in Int : k * (a + b) = k * a + k * b
OBVIOUS

\* A weighted sum lies between the bounds of what it weighs.
LEMMA SumBetween ==
    ASSUME NEW S, IsFiniteSet(S), NEW f, NEW w, NEW lo \in Int, NEW hi \in Int,
           \A x \in S : f[x] \in Int /\ w[x] \in Int /\ lo * w[x] <= f[x] /\ f[x] <= hi * w[x]
    PROVE  /\ lo * SumFunctionOnSet(w, S) <= SumFunctionOnSet(f, S)
           /\ SumFunctionOnSet(f, S) <= hi * SumFunctionOnSet(w, S)
<1>1. PICK g : Totals(g, f, S)
  BY SumsAre
<1>2. PICK h : Totals(h, w, S)
  BY SumsAre
<1> USE DEF Totals
<1> DEFINE P == {s \in SUBSET S : lo * h[s] <= g[s] /\ g[s] <= hi * h[s]}
<1>3. {} \in P
  BY <1>1, <1>2
<1>4. ASSUME NEW s \in SUBSET S, s # {}, s \ {Choice(s)} \in P PROVE s \in P
  <2>1. PICK a \in Int, b \in Int : a = f[Choice(s)] /\ b = w[Choice(s)]
    BY <1>4, ChoiceIs
  <2>2. lo * b <= a /\ a <= hi * b
    BY <1>4, <2>1, ChoiceIs
  <2>3. PICK c \in Int, d \in Int : c = g[s \ {Choice(s)}] /\ d = h[s \ {Choice(s)}]
    <3>1. s \ {Choice(s)} \in SUBSET S
      OBVIOUS
    <3>2. g[s \ {Choice(s)}] \in Int /\ h[s \ {Choice(s)}] \in Int
      BY <1>1, <1>2, <3>1
    <3> QED
      BY <3>2
  <2>4. lo * d <= c /\ c <= hi * d
    BY <1>4, <2>3
  <2>5. g[s] = a + c /\ h[s] = b + d
    BY <1>1, <1>2, <1>4, <2>1, <2>3
  <2>6. lo * (b + d) = lo * b + lo * d /\ hi * (b + d) = hi * b + hi * d
    BY Spread
  <2>7. lo * (b + d) <= a + c /\ a + c <= hi * (b + d)
    <3>1. PICK e1 \in Int, e2 \in Int, e3 \in Int, e4 \in Int :
            e1 = lo * b /\ e2 = lo * d /\ e3 = hi * b /\ e4 = hi * d
      OBVIOUS
    <3> QED
      BY <2>2, <2>4, <2>6, <3>1
  <2> QED
    BY <2>5, <2>7
<1>5. SUBSET S \subseteq P
  <2> HIDE DEF P
  <2> QED
    BY <1>3, <1>4, EverySubset
<1> QED
  BY <1>1, <1>2, <1>5

\* And that of every element, between as many times the bounds as there are.
LEMMA SumOfMany ==
    ASSUME NEW S, IsFiniteSet(S), NEW f, NEW lo \in Int, NEW hi \in Int,
           \A x \in S : f[x] \in Int /\ lo <= f[x] /\ f[x] <= hi
    PROVE  /\ lo * Cardinality(S) <= SumFunctionOnSet(f, S)
           /\ SumFunctionOnSet(f, S) <= hi * Cardinality(S)
<1>1. PICK g : Totals(g, f, S)
  BY SumsAre
<1>2. \A s \in SUBSET S : IsFiniteSet(s) /\ Cardinality(s) \in Nat
  BY FS_Subset, FS_CardinalityType
<1> USE DEF Totals
<1> DEFINE P == {s \in SUBSET S : lo * Cardinality(s) <= g[s] /\ g[s] <= hi * Cardinality(s)}
<1>3. {} \in P
  BY <1>1, FS_EmptySet
<1>4. ASSUME NEW s \in SUBSET S, s # {}, s \ {Choice(s)} \in P PROVE s \in P
  <2>1. PICK a \in Int : a = f[Choice(s)] /\ lo <= a /\ a <= hi
    BY <1>4, ChoiceIs
  <2>2. PICK c \in Int, d \in Int : c = g[s \ {Choice(s)}] /\ d = Cardinality(s \ {Choice(s)})
    <3>1. s \ {Choice(s)} \in SUBSET S
      OBVIOUS
    <3>2. g[s \ {Choice(s)}] \in Int /\ Cardinality(s \ {Choice(s)}) \in Int
      BY <1>1, <1>2, <3>1
    <3> QED
      BY <3>2
  <2>3. lo * d <= c /\ c <= hi * d
    BY <1>4, <2>2
  <2>4. g[s] = a + c /\ Cardinality(s) = d + 1
    <3>1. Cardinality(s \ {Choice(s)}) = Cardinality(s) - 1 /\ Cardinality(s) \in Nat
      BY <1>2, <1>4, ChoiceIs, FS_RemoveElement
    <3>2. g[s] = f[Choice(s)] + g[s \ {Choice(s)}]
      BY <1>1, <1>4
    <3> QED
      BY <2>1, <2>2, <3>1, <3>2
  <2>5. lo * (d + 1) = lo * d + lo /\ hi * (d + 1) = hi * d + hi
    BY Spread
  <2>6. lo * (d + 1) <= a + c /\ a + c <= hi * (d + 1)
    <3>1. PICK e1 \in Int, e2 \in Int : e1 = lo * d /\ e2 = hi * d
      OBVIOUS
    <3> QED
      BY <2>1, <2>3, <2>5, <3>1
  <2> QED
    BY <2>4, <2>6
<1>5. SUBSET S \subseteq P
  <2> HIDE DEF P
  <2> QED
    BY <1>3, <1>4, EverySubset
<1> QED
  BY <1>1, <1>5

\* Among finitely many, one has the greatest value.
LEMMA Greatest ==
    ASSUME NEW S, IsFiniteSet(S), S # {}, NEW v, \A x \in S : v[x] \in Int
    PROVE  \E i \in S : \A k \in S : v[k] <= v[i]
<1> DEFINE P == {s \in SUBSET S : s # {} => \E i \in s : \A k \in s : v[k] <= v[i]}
<1>1. {} \in P
  OBVIOUS
<1>2. ASSUME NEW s \in SUBSET S, s # {}, s \ {Choice(s)} \in P PROVE s \in P
  <2>1. Choice(s) \in s /\ \A x \in s : v[x] \in Int
    BY <1>2, ChoiceIs
  <2> DEFINE c == Choice(s)
  <2> HIDE DEF c
  <2>2. c \in s /\ s \ {c} \in P
    BY <1>2, <2>1 DEF c
  <2>3. CASE s \ {c} = {}
    <3>1. s = {c}
      BY <2>2, <2>3
    <3> QED
      BY <2>1, <2>2, <3>1
  <2>4. CASE s \ {c} # {}
    <3>1. PICK i \in s \ {c} : \A k \in s \ {c} : v[k] <= v[i]
      BY <2>2, <2>4
    <3>2. \A k \in s : k = c \/ v[k] <= v[i]
      BY <3>1
    <3>3. CASE v[c] <= v[i]
      BY <3>1, <3>2, <3>3
    <3>4. CASE ~(v[c] <= v[i])
      <4>1. v[c] \in Int /\ v[i] \in Int /\ v[i] <= v[c]
        BY <2>1, <2>2, <3>1, <3>4
      <4>2. \A k \in s : v[k] <= v[c]
        BY <2>1, <3>2, <4>1
      <4> QED
        BY <2>2, <4>2
    <3> QED
      BY <3>3, <3>4
  <2> QED
    BY <2>3, <2>4
<1>3. SUBSET S \subseteq P
  <2> HIDE DEF P
  <2> QED
    BY <1>1, <1>2, EverySubset
<1>4. S \in P
  BY <1>3
<1> QED
  BY <1>4

LEMMA Least ==
    ASSUME NEW S, IsFiniteSet(S), S # {}, NEW v, \A x \in S : v[x] \in Int
    PROVE  \E i \in S : \A k \in S : v[i] <= v[k]
<1> DEFINE w == [x \in S |-> -v[x]]
<1>1. \A x \in S : w[x] \in Int /\ w[x] = -v[x]
  OBVIOUS
<1> HIDE DEF w
<1>2. PICK i \in S : \A k \in S : w[k] <= w[i]
  BY <1>1, Greatest
<1>3. \A k \in S : v[i] <= v[k]
  BY <1>1, <1>2
<1> QED
  BY <1>3

LEMMA AscendingIs ==
    ASSUME NEW S, IsFiniteSet(S), S \subseteq Int
    PROVE  /\ Ascending(S) \in [1..Cardinality(S) -> S]
           /\ Cardinality(S) \in Nat
           /\ \A i, k \in 1..Cardinality(S) : i < k => Ascending(S)[i] < Ascending(S)[k]
           /\ \A x \in S : \E k \in 1..Cardinality(S) : Ascending(S)[k] = x
<1>1. PICK n \in Nat : n = Cardinality(S)
  BY FS_CardinalityType
<1> DEFINE upto(i) == {j \in S : j <= i}
           rank == [i \in S |-> Cardinality(upto(i))]
<1>2. \A i \in S : IsFiniteSet(upto(i)) /\ rank[i] \in 1..n
  <2> TAKE i \in S
  <2>1. upto(i) \in SUBSET S /\ i \in upto(i)
    OBVIOUS
  <2>2. IsFiniteSet(upto(i)) /\ Cardinality(upto(i)) <= n /\ Cardinality(upto(i)) \in Nat
    BY <1>1, <2>1, FS_Subset, FS_CardinalityType
  <2>3. Cardinality(upto(i)) # 0
    BY <2>1, <2>2, FS_EmptySet
  <2> QED
    BY <2>2, <2>3
<1>3. ASSUME NEW i \in S, NEW j \in S, i < j PROVE rank[i] < rank[j]
  <2>0. i \in Int /\ j \in Int /\ i < j
    BY <1>3
  <2>1. upto(i) \in SUBSET upto(j) /\ j \in upto(j) /\ j \notin upto(i)
    <3>1. \A x \in Int : x <= i => x <= j
      BY <2>0
    <3>2. j <= j /\ ~(j <= i)
      BY <2>0
    <3> QED
      BY <3>1, <3>2
  <2>2. IsFiniteSet(upto(j)) /\ rank[i] \in Int /\ rank[j] \in Int
    BY <1>2
  <2>3. Cardinality(upto(i)) <= Cardinality(upto(j))
    BY <2>1, <2>2, FS_Subset
  <2>4. Cardinality(upto(i)) # Cardinality(upto(j))
    BY <2>1, <2>2, FS_Subset
  <2> QED
    BY <2>2, <2>3, <2>4
<1> HIDE DEF rank
<1>4. rank \in [S -> 1..n]
  BY <1>2 DEF rank
<1>5. ASSUME NEW i \in S, NEW j \in S, rank[i] = rank[j] PROVE i = j
  <2>1. i \in Int /\ j \in Int
    OBVIOUS
  <2>2. ~(i < j) /\ ~(j < i)
    <3>1. rank[i] \in Int
      BY <1>4
    <3> QED
      BY <1>3, <1>5, <3>1
  <2> QED
    BY <2>1, <2>2
<1>6. rank \in Injection(S, 1..n)
  BY <1>4, <1>5 DEF Injection, IsInjective
<1>7. rank \in Surjection(S, 1..n)
  <2>1. IsFiniteSet(1..n) /\ Cardinality(1..n) = n
    BY FS_Interval
  <2> QED
    BY <1>1, <1>6, <2>1, FS_Injection
<1>8. \A k \in 1..n : \E i \in S : rank[i] = k
  BY <1>7 DEF Surjection
<1>9. \A k \in 1..n : Ascending(S)[k] = CHOOSE i \in S : rank[i] = k
  BY <1>1 DEF Ascending, rank
<1>10. \A k \in 1..n : Ascending(S)[k] \in S /\ rank[Ascending(S)[k]] = k
  BY <1>8, <1>9
<1>11. Ascending(S) = [k \in 1..n |-> Ascending(S)[k]]
  <2>1. Ascending(S) = [k \in 1..n |-> CHOOSE i \in S : Cardinality({j \in S : j <= i}) = k]
    BY <1>1 DEF Ascending
  <2> QED
    BY <2>1
<1>12. Ascending(S) \in [1..n -> S]
  BY <1>10, <1>11
<1>13. ASSUME NEW i \in 1..n, NEW k \in 1..n, i < k PROVE Ascending(S)[i] < Ascending(S)[k]
  <2>1. PICK x \in S, y \in S : x = Ascending(S)[i] /\ y = Ascending(S)[k] /\ rank[x] = i /\ rank[y] = k
    BY <1>10
  <2>2. x # y /\ ~(y < x)
    BY <1>3, <1>13, <2>1
  <2> QED
    BY <2>1, <2>2
<1>14. ASSUME NEW x \in S PROVE \E k \in 1..n : Ascending(S)[k] = x
  <2>1. rank[x] \in 1..n
    BY <1>4
  <2> QED
    BY <1>5, <1>10, <2>1
<1> QED
  BY <1>1, <1>12, <1>13, <1>14

-----------------------------------------------------------------------------
(* Results and their fields *)

Sound(p) ==
    /\ p \in Payload(DOMAIN p.scalars)
    /\ IF p.kind = "grid2d" THEN GridFits(p) ELSE MeshFits(p)

LEMMA PayloadsAreSound == \A p \in Payloads : Sound(p)
BY DEF Sound

LEMMA PayloadIs ==
    ASSUME NEW p, Sound(p)
    PROVE  /\ p.kind \in {"grid2d", "mesh2d"}
           /\ Columns(p) \in Nat /\ Rows(p) \in Nat /\ p.size[1] \in Nat /\ p.size[2] \in Nat
           /\ p.scalars \in [DOMAIN p.scalars -> Seq(Int)]
           /\ p.mask \in Seq({0, 1}) /\ p.points \in Seq(Int \X Int) /\ p.triangles \in Seq(Seq(Nat))
           /\ p = [kind |-> p.kind, shape |-> p.shape, size |-> p.size, scalars |-> p.scalars,
                   vectors |-> p.vectors, mask |-> p.mask, points |-> p.points,
                   triangles |-> p.triangles, supplied |-> p.supplied, supplies |-> p.supplies]
BY DEF Sound, Payload, Columns, Rows

\* A field that loads has a value for each point; those that were solved are among them.
LEMMA FieldIs ==
    ASSUME NEW p, Sound(p), NEW name, Unloadable(p, name) = "no"
    PROVE  /\ name \in DOMAIN p.scalars /\ Values(p, name) \in Seq(Int)
           /\ Len(Values(p, name)) = Len(Points(p))
           /\ Valid(p, name) \subseteq DOMAIN Values(p, name)
           /\ DOMAIN Values(p, name) \subseteq Nat
           /\ \A i \in Valid(p, name) : Values(p, name)[i] \in Int
           /\ IsFiniteSet(Valid(p, name))
<1>1. name \in DOMAIN p.scalars /\ Len(p.scalars[name]) = Len(Points(p))
  BY DEF Unloadable
<1>2. Values(p, name) \in Seq(Int)
  BY <1>1, PayloadIs DEF Values
<1>3. PICK n \in Nat : n = Len(Values(p, name)) /\ DOMAIN Values(p, name) = 1..n
  BY <1>2
<1>4. Valid(p, name) \subseteq 1..n
  BY <1>3 DEF Valid
<1>5. IsFiniteSet(Valid(p, name))
  <2>1. IsFiniteSet(1..n)
    BY FS_Interval
  <2> QED
    BY <1>4, <2>1, FS_Subset
<1> QED
  BY <1>1, <1>2, <1>3, <1>4, <1>5 DEF Values

\* Every point of a mesh is solved.
LEMMA MeshIsSolved ==
    ASSUME NEW p, p.kind = "mesh2d", NEW name
    PROVE  Valid(p, name) = DOMAIN Values(p, name)
BY DEF Valid

LEMMA MinOfTwo == \A a, b \in Int : Min({a, b}) \in {a, b} /\ Min({a, b}) <= a /\ Min({a, b}) <= b
<1> SUFFICES ASSUME NEW a \in Int, NEW b \in Int
             PROVE  Min({a, b}) \in {a, b} /\ Min({a, b}) <= a /\ Min({a, b}) <= b
  OBVIOUS
<1>1. \E x \in {a, b} : \A y \in {a, b} : x <= y
  <2>1. CASE a <= b
    BY <2>1
  <2>2. CASE ~(a <= b)
    <3>1. b <= a
      BY <2>2
    <3> QED
      BY <3>1
  <2> QED
    BY <2>1, <2>2
<1> QED
  BY <1>1 DEF Min

LEMMA BudgetIs ==
    ASSUME NEW k \in Int, k = Unsaid \/ k >= 1, NEW ceiling \in Nat \ {0}
    PROVE  Budget(k, ceiling) \in 1..ceiling
<1>1. PICK a \in Nat \ {0} : a = IF k = Unsaid THEN DefaultSamples ELSE k
  BY DEF Unsaid
<1>2. Min({a, ceiling}) \in 1..ceiling
  BY MinOfTwo
<1> QED
  BY <1>1, <1>2 DEF Budget

\* The first of the points whose value is the greatest, or the least.
LEMMA FirstIs ==
    ASSUME NEW p, Sound(p), NEW name, Unloadable(p, name) = "no", NEW sign \in {1, -1},
           NEW S, S # {}, S \subseteq Valid(p, name)
    PROVE  /\ First(p, name, S, sign) \in S
           /\ \A k \in S : sign * Values(p, name)[k] <= sign * Values(p, name)[First(p, name, S, sign)]
<1> DEFINE v == Values(p, name)
           w == [x \in S |-> sign * v[x]]
           best == {i \in S : \A k \in S : sign * v[k] <= sign * v[i]}
<1>1. \A x \in S : v[x] \in Int /\ w[x] \in Int /\ w[x] = sign * v[x]
  BY FieldIs
<1>2. IsFiniteSet(S) /\ S \subseteq Nat
  BY FieldIs, FS_Subset
<1> HIDE DEF w
<1>3. PICK i \in S : \A k \in S : w[k] <= w[i]
  BY <1>1, <1>2, Greatest
<1>4. i \in best /\ best \subseteq Nat
  BY <1>1, <1>2, <1>3
<1> HIDE DEF best
<1>5. Min(best) \in best
  BY <1>4, LeastOf
<1>6. First(p, name, S, sign) = Min(best)
  BY DEF First, best
<1> QED
  BY <1>5, <1>6 DEF best

\* A fraction between two values of S.
Amid(p, name, S, x) ==
    \E lo, hi \in S :
        Values(p, name)[lo] * x[2] <= x[1] /\ x[1] <= Values(p, name)[hi] * x[2]

LEMMA ExtremesOf ==
    ASSUME NEW p, Sound(p), NEW name, Unloadable(p, name) = "no",
           NEW S, S # {}, S \subseteq Valid(p, name)
    PROVE  \E lo, hi \in S : \A i \in S :
             /\ Values(p, name)[lo] \in Int /\ Values(p, name)[i] \in Int /\ Values(p, name)[hi] \in Int
             /\ Values(p, name)[lo] <= Values(p, name)[i] /\ Values(p, name)[i] <= Values(p, name)[hi]
<1> DEFINE v == Values(p, name)
<1>1. \A x \in S : v[x] \in Int
  BY FieldIs
<1>2. IsFiniteSet(S)
  BY FieldIs, FS_Subset
<1> HIDE DEF v
<1>3. PICK lo \in S : \A k \in S : v[lo] <= v[k]
  BY <1>1, <1>2, Least
<1>4. PICK hi \in S : \A k \in S : v[k] <= v[hi]
  BY <1>1, <1>2, Greatest
<1> QED
  BY <1>1, <1>3, <1>4 DEF v

LEMMA ValueIsAmid ==
    ASSUME NEW p, Sound(p), NEW name, Unloadable(p, name) = "no", NEW i \in Valid(p, name)
    PROVE  Amid(p, name, Valid(p, name), <<Values(p, name)[i], 1>>)
<1>1. PICK k \in Int : k = Values(p, name)[i]
  BY FieldIs
<1>2. k * 1 = k
  OBVIOUS
<1> QED
  BY <1>1, <1>2 DEF Amid

\* The plain mean of some points.
LEMMA MeanIsAmid ==
    ASSUME NEW p, Sound(p), NEW name, Unloadable(p, name) = "no",
           NEW S, S # {}, S \subseteq Valid(p, name)
    PROVE  /\ Amid(p, name, S, <<SumFunctionOnSet(Values(p, name), S), Cardinality(S)>>)
           /\ \A lo, hi \in Int :
                (\A i \in S : lo <= Values(p, name)[i] /\ Values(p, name)[i] <= hi) =>
                    /\ lo * Cardinality(S) <= SumFunctionOnSet(Values(p, name), S)
                    /\ SumFunctionOnSet(Values(p, name), S) <= hi * Cardinality(S)
<1> DEFINE v == Values(p, name)
<1>1. IsFiniteSet(S) /\ \A i \in S : v[i] \in Int
  BY FieldIs, FS_Subset
<1> HIDE DEF v
<1>2. ASSUME NEW lo \in Int, NEW hi \in Int, \A i \in S : lo <= v[i] /\ v[i] <= hi
      PROVE  /\ lo * Cardinality(S) <= SumFunctionOnSet(v, S)
             /\ SumFunctionOnSet(v, S) <= hi * Cardinality(S)
  BY <1>1, <1>2, SumOfMany
<1>3. PICK lo, hi \in S : \A i \in S :
        v[lo] \in Int /\ v[i] \in Int /\ v[hi] \in Int /\ v[lo] <= v[i] /\ v[i] <= v[hi]
  BY ExtremesOf DEF v
<1>4. v[lo] \in Int /\ v[hi] \in Int /\ \A i \in S : v[lo] <= v[i] /\ v[i] <= v[hi]
  BY <1>3
<1>5. /\ v[lo] * Cardinality(S) <= SumFunctionOnSet(v, S)
      /\ SumFunctionOnSet(v, S) <= v[hi] * Cardinality(S)
  BY <1>2, <1>4
<1>6. Amid(p, name, S, <<SumFunctionOnSet(v, S), Cardinality(S)>>)
  BY <1>5 DEF Amid, v
<1> QED
  BY <1>2, <1>6 DEF v

-----------------------------------------------------------------------------
(* Interpolation *)

LEMMA Products == \A a, b \in Int : a * b \in Int
OBVIOUS

LEMMA Orders == \A k, a, b \in Int : k >= 0 /\ a <= b => k * a <= k * b /\ a * k <= b * k
OBVIOUS

LEMMA Commutes == \A a, b \in Int : a * b = b * a
OBVIOUS

LEMMA DivIs ==
    \A x \in Nat, w \in Nat : w > 0 =>
        x \div w \in Nat /\ (x \div w) * w <= x /\ x < (x \div w) * w + w
OBVIOUS

\* Where a coordinate lies in its cell.  On one line of points the cell has no width.
InCell(X, w, i, n) ==
    /\ w \in Nat \ {0} /\ i \in Nat
    /\ n > 1 => X - i * w \in 0..w
    /\ n = 1 => i = 0

LEMMA CellIs ==
    ASSUME NEW s \in Nat \ {0}, NEW n \in Nat \ {0}, NEW size \in Nat, NEW D \in Nat \ {0},
           n > 1 => s * (n - 1) = size, NEW X \in 0..(size * D)
    PROVE  InCell(X, s * D, Below(X \div (s * D), n), n)
<1>1. PICK w \in Nat \ {0} : w = s * D
  <2>1. s * D \in Int /\ s * D > 0
    OBVIOUS
  <2> QED
    BY <2>1
<1>2. X \in Nat
  <2>1. size * D \in Int
    OBVIOUS
  <2> QED
    BY <2>1
<1>3. PICK q \in Nat : q = X \div w
  BY <1>1, <1>2
<1>4. q * w <= X /\ X < q * w + w
  BY <1>2, <1>3, DivIs
<1>5. CASE n = 1
  BY <1>1, <1>5 DEF Below, InCell
<1>6. CASE n > 1
  <2>1. PICK b \in Int : b = Min({q, n - 2}) /\ b \in {q, n - 2} /\ b <= q /\ b <= n - 2
    <3>1. q \in Int /\ n - 2 \in Int
      OBVIOUS
    <3> QED
      BY <3>1, MinOfTwo
  <2>2. Below(q, n) = b /\ b \in Nat
    BY <1>6, <2>1 DEF Below
  <2>3. CASE b = q
    <3>1. q * w \in Int
      OBVIOUS
    <3> QED
      BY <1>1, <1>2, <1>3, <1>4, <1>6, <2>2, <2>3, <3>1 DEF InCell
  <2>4. CASE b # q
    <3>1. b = n - 2 /\ q >= n - 1
      BY <2>1, <2>4
    <3>2. size * D = (n - 1) * w
      <4>1. size * D = (s * (n - 1)) * D
        BY <1>6
      <4>2. (s * (n - 1)) * D = (n - 1) * (s * D)
        OBVIOUS
      <4> QED
        BY <1>1, <4>1, <4>2
    <3>3. (n - 1) * w <= q * w
      <4>1. n - 1 \in Int
        OBVIOUS
      <4> QED
        BY <3>1, <4>1, Orders
    <3>4. (n - 1) * w \in Int /\ q * w \in Int
      OBVIOUS
    <3>5. X = (n - 1) * w
      <4>1. X <= (n - 1) * w
        BY <3>2
      <4> QED
        BY <1>2, <1>4, <3>3, <3>4, <4>1
    <3>6. (n - 1) * w = (n - 2) * w + w
      <4>1. PICK m \in Int : m = n - 2
        OBVIOUS
      <4>2. n - 1 = m + 1 /\ (m + 1) * w = m * w + w
        BY <4>1
      <4> QED
        BY <4>1, <4>2
    <3>7. X - b * w = w
      <4>1. PICK e \in Int : e = (n - 2) * w
        OBVIOUS
      <4> QED
        BY <1>2, <3>1, <3>5, <3>6, <4>1
    <3>8. Below(X \div (s * D), n) = b
      BY <1>1, <1>3, <2>2
    <3>9. w \in 0..w
      OBVIOUS
    <3> QED
      BY <1>1, <1>6, <2>2, <3>7, <3>8, <3>9 DEF InCell
  <2> QED
    BY <2>3, <2>4
<1> QED
  BY <1>5, <1>6

LEMMA Positive == \A a, b \in Int : a >= 0 /\ b >= 0 => a * b >= 0 /\ a * b \in Int
OBVIOUS

\* Four weights, made of two and two, and what each of them weighs.
LEMMA FourWeights ==
    ASSUME NEW a \in Int, NEW b \in Int, NEW d \in Int, NEW e \in Int,
           NEW z1 \in Nat, NEW z2 \in Nat, NEW z3 \in Nat, NEW z4 \in Nat,
           (a >= 0 /\ b >= 0) \/ (a + b >= 0 /\ z1 = z2 /\ z3 = z4),
           (d >= 0 /\ e >= 0) \/ (d + e >= 0 /\ z1 = z3 /\ z2 = z4)
    PROVE  (a * d) * z1 + (b * d) * z2 + (a * e) * z3 + (b * e) * z4 >= 0
<1>1. CASE a >= 0 /\ b >= 0 /\ d >= 0 /\ e >= 0
  <2>1. /\ a * d \in Int /\ a * d >= 0 /\ b * d \in Int /\ b * d >= 0
        /\ a * e \in Int /\ a * e >= 0 /\ b * e \in Int /\ b * e >= 0
    BY <1>1, Positive
  <2>2. PICK s1 \in Nat, s2 \in Nat, s3 \in Nat, s4 \in Nat :
          s1 = (a * d) * z1 /\ s2 = (b * d) * z2 /\ s3 = (a * e) * z3 /\ s4 = (b * e) * z4
    BY <2>1, Positive
  <2> QED
    BY <2>2
<1>2. CASE a + b >= 0 /\ z1 = z2 /\ z3 = z4 /\ d >= 0 /\ e >= 0
  <2>1. /\ (a * d) * z1 + (b * d) * z1 = ((a + b) * d) * z1
        /\ (a * e) * z3 + (b * e) * z3 = ((a + b) * e) * z3
    OBVIOUS
  <2>2. (a + b) * d >= 0 /\ (a + b) * d \in Int /\ (a + b) * e >= 0 /\ (a + b) * e \in Int
    BY <1>2, Positive
  <2>3. PICK s1 \in Nat, s3 \in Nat : s1 = ((a + b) * d) * z1 /\ s3 = ((a + b) * e) * z3
    BY <2>2, Positive
  <2>4. PICK k1 \in Int, k2 \in Int, k3 \in Int, k4 \in Int :
          k1 = (a * d) * z1 /\ k2 = (b * d) * z1 /\ k3 = (a * e) * z3 /\ k4 = (b * e) * z3
    OBVIOUS
  <2> QED
    BY <1>2, <2>1, <2>3, <2>4
<1>3. CASE a >= 0 /\ b >= 0 /\ d + e >= 0 /\ z1 = z3 /\ z2 = z4
  <2>1. /\ (a * d) * z1 + (a * e) * z1 = (a * (d + e)) * z1
        /\ (b * d) * z2 + (b * e) * z2 = (b * (d + e)) * z2
    OBVIOUS
  <2>2. a * (d + e) >= 0 /\ a * (d + e) \in Int /\ b * (d + e) >= 0 /\ b * (d + e) \in Int
    BY <1>3, Positive
  <2>3. PICK s1 \in Nat, s3 \in Nat : s1 = (a * (d + e)) * z1 /\ s3 = (b * (d + e)) * z2
    BY <2>2, Positive
  <2>4. PICK k1 \in Int, k2 \in Int, k3 \in Int, k4 \in Int :
          k1 = (a * d) * z1 /\ k2 = (b * d) * z2 /\ k3 = (a * e) * z1 /\ k4 = (b * e) * z2
    OBVIOUS
  <2> QED
    BY <1>3, <2>1, <2>3, <2>4
<1>4. CASE a + b >= 0 /\ d + e >= 0 /\ z1 = z2 /\ z3 = z4 /\ z1 = z3
  <2>1. (a * d) * z1 + (b * d) * z1 + (a * e) * z1 + (b * e) * z1 = ((a + b) * (d + e)) * z1
    OBVIOUS
  <2>2. (a + b) * (d + e) >= 0 /\ (a + b) * (d + e) \in Int
    BY <1>4, Positive
  <2>3. PICK s1 \in Nat : s1 = ((a + b) * (d + e)) * z1
    BY <2>2, Positive
  <2> QED
    BY <1>4, <2>1, <2>3
<1> QED
  BY <1>1, <1>2, <1>3, <1>4

\* Their sum is within what they weigh.
LEMMA FourBetween ==
    ASSUME NEW w1 \in Int, NEW w2 \in Int, NEW w3 \in Int, NEW w4 \in Int,
           NEW v1 \in Int, NEW v2 \in Int, NEW v3 \in Int, NEW v4 \in Int,
           NEW lo \in Int, NEW hi \in Int,
           w1 * (v1 - lo) + w2 * (v2 - lo) + w3 * (v3 - lo) + w4 * (v4 - lo) >= 0,
           w1 * (hi - v1) + w2 * (hi - v2) + w3 * (hi - v3) + w4 * (hi - v4) >= 0
    PROVE  /\ lo * (w1 + w2 + w3 + w4) <= w1 * v1 + w2 * v2 + w3 * v3 + w4 * v4
           /\ w1 * v1 + w2 * v2 + w3 * v3 + w4 * v4 <= hi * (w1 + w2 + w3 + w4)
<1>1. /\ w1 * (v1 - lo) = w1 * v1 - lo * w1 /\ w2 * (v2 - lo) = w2 * v2 - lo * w2
      /\ w3 * (v3 - lo) = w3 * v3 - lo * w3 /\ w4 * (v4 - lo) = w4 * v4 - lo * w4
  OBVIOUS
<1>2. /\ w1 * (hi - v1) = hi * w1 - w1 * v1 /\ w2 * (hi - v2) = hi * w2 - w2 * v2
      /\ w3 * (hi - v3) = hi * w3 - w3 * v3 /\ w4 * (hi - v4) = hi * w4 - w4 * v4
  OBVIOUS
<1>3. /\ lo * (w1 + w2 + w3 + w4) = lo * w1 + lo * w2 + lo * w3 + lo * w4
      /\ hi * (w1 + w2 + w3 + w4) = hi * w1 + hi * w2 + hi * w3 + hi * w4
  OBVIOUS
<1>4. PICK a1 \in Int, a2 \in Int, a3 \in Int, a4 \in Int :
        a1 = w1 * v1 /\ a2 = w2 * v2 /\ a3 = w3 * v3 /\ a4 = w4 * v4
  OBVIOUS
<1>5. PICK b1 \in Int, b2 \in Int, b3 \in Int, b4 \in Int :
        b1 = lo * w1 /\ b2 = lo * w2 /\ b3 = lo * w3 /\ b4 = lo * w4
  OBVIOUS
<1>6. PICK c1 \in Int, c2 \in Int, c3 \in Int, c4 \in Int :
        c1 = hi * w1 /\ c2 = hi * w2 /\ c3 = hi * w3 /\ c4 = hi * w4
  OBVIOUS
<1> QED
  BY <1>1, <1>2, <1>3, <1>4, <1>5, <1>6

\* A corner that is not solved weighs nothing, whatever its value.
LeftOut(V, t, w, lo, hi, x, u, v) ==
    /\ t \in V => v = x
    /\ u \in Int /\ (IF t \in V THEN w * x ELSE 0) = u * v
    /\ (IF t \in V THEN v - lo ELSE 0) \in Nat /\ (IF t \in V THEN hi - v ELSE 0) \in Nat
    /\ u * (v - lo) = w * (IF t \in V THEN v - lo ELSE 0)
    /\ u * (hi - v) = w * (IF t \in V THEN hi - v ELSE 0)

LEMMA CornerLeftOut ==
    ASSUME NEW V, NEW t, NEW w \in Int, NEW lo \in Int, NEW hi \in Int, lo <= hi,
           NEW x, t \in V => x \in Int /\ lo <= x /\ x <= hi,
           NEW u, u = IF t \in V THEN w ELSE 0
    PROVE  \E v \in Int : LeftOut(V, t, w, lo, hi, x, u, v)
<1>1. PICK v \in Int : v = IF t \in V THEN x ELSE lo
  OBVIOUS
<1>2. \A k \in Int : k * 0 = 0 /\ 0 * k = 0
  OBVIOUS
<1>3. CASE t \in V
  BY <1>1, <1>3 DEF LeftOut
<1>4. CASE t \notin V
  <2>1. u = 0 /\ u * v = 0 /\ u * (v - lo) = 0 /\ u * (hi - v) = 0 /\ w * 0 = 0
    BY <1>2, <1>4
  <2> QED
    BY <1>1, <1>4, <2>1 DEF LeftOut
<1> QED
  BY <1>3, <1>4

\* What the corners of a cell come to; where a side has one line of points, two and
\* two of them are one point.
Squared(a, b, d, e, t1, t2, t3, t4) ==
    /\ (a >= 0 /\ b >= 0) \/ (a + b >= 0 /\ t1 = t2 /\ t3 = t4)
    /\ (d >= 0 /\ e >= 0) \/ (d + e >= 0 /\ t1 = t3 /\ t2 = t4)

Blended(total, sum, a, b, d, e, t1, t2, t3, t4, V, v) ==
    /\ total = (IF t1 \in V THEN a * d ELSE 0) + (IF t2 \in V THEN b * d ELSE 0)
                 + (IF t3 \in V THEN a * e ELSE 0) + (IF t4 \in V THEN b * e ELSE 0)
    /\ sum = (IF t1 \in V THEN (a * d) * v[t1] ELSE 0) + (IF t2 \in V THEN (b * d) * v[t2] ELSE 0)
               + (IF t3 \in V THEN (a * e) * v[t3] ELSE 0) + (IF t4 \in V THEN (b * e) * v[t4] ELSE 0)

LEMMA CornersBlend ==
    ASSUME NEW a \in Int, NEW b \in Int, NEW d \in Int, NEW e \in Int,
           NEW V, NEW v, NEW t1, NEW t2, NEW t3, NEW t4, NEW lo \in Int, NEW hi \in Int, lo <= hi,
           \A i \in V : v[i] \in Int /\ lo <= v[i] /\ v[i] <= hi,
           Squared(a, b, d, e, t1, t2, t3, t4),
           NEW total, NEW sum, Blended(total, sum, a, b, d, e, t1, t2, t3, t4, V, v)
    PROVE  total \in Int /\ sum \in Int /\ lo * total <= sum /\ sum <= hi * total
<1>1. PICK w1 \in Int, w2 \in Int, w3 \in Int, w4 \in Int :
        w1 = a * d /\ w2 = b * d /\ w3 = a * e /\ w4 = b * e
  OBVIOUS
<1>2. PICK u1, u2, u3, u4 :
        /\ u1 = (IF t1 \in V THEN w1 ELSE 0) /\ u2 = (IF t2 \in V THEN w2 ELSE 0)
        /\ u3 = (IF t3 \in V THEN w3 ELSE 0) /\ u4 = (IF t4 \in V THEN w4 ELSE 0)
  OBVIOUS
<1>3. PICK v1 \in Int : LeftOut(V, t1, w1, lo, hi, v[t1], u1, v1)
  BY <1>2, CornerLeftOut
<1>4. PICK v2 \in Int : LeftOut(V, t2, w2, lo, hi, v[t2], u2, v2)
  BY <1>2, CornerLeftOut
<1>5. PICK v3 \in Int : LeftOut(V, t3, w3, lo, hi, v[t3], u3, v3)
  BY <1>2, CornerLeftOut
<1>6. PICK v4 \in Int : LeftOut(V, t4, w4, lo, hi, v[t4], u4, v4)
  BY <1>2, CornerLeftOut
<1>7. PICK y1 \in Nat, y2 \in Nat, y3 \in Nat, y4 \in Nat :
        /\ y1 = (IF t1 \in V THEN v1 - lo ELSE 0) /\ y2 = (IF t2 \in V THEN v2 - lo ELSE 0)
        /\ y3 = (IF t3 \in V THEN v3 - lo ELSE 0) /\ y4 = (IF t4 \in V THEN v4 - lo ELSE 0)
  BY <1>3, <1>4, <1>5, <1>6 DEF LeftOut
<1>8. PICK z1 \in Nat, z2 \in Nat, z3 \in Nat, z4 \in Nat :
        /\ z1 = (IF t1 \in V THEN hi - v1 ELSE 0) /\ z2 = (IF t2 \in V THEN hi - v2 ELSE 0)
        /\ z3 = (IF t3 \in V THEN hi - v3 ELSE 0) /\ z4 = (IF t4 \in V THEN hi - v4 ELSE 0)
  BY <1>3, <1>4, <1>5, <1>6 DEF LeftOut
<1>9. /\ (a >= 0 /\ b >= 0) \/ (a + b >= 0 /\ y1 = y2 /\ y3 = y4)
      /\ (d >= 0 /\ e >= 0) \/ (d + e >= 0 /\ y1 = y3 /\ y2 = y4)
      /\ (a >= 0 /\ b >= 0) \/ (a + b >= 0 /\ z1 = z2 /\ z3 = z4)
      /\ (d >= 0 /\ e >= 0) \/ (d + e >= 0 /\ z1 = z3 /\ z2 = z4)
  BY <1>3, <1>4, <1>5, <1>6, <1>7, <1>8 DEF LeftOut, Squared
<1>10. /\ (a * d) * y1 + (b * d) * y2 + (a * e) * y3 + (b * e) * y4 >= 0
       /\ (a * d) * z1 + (b * d) * z2 + (a * e) * z3 + (b * e) * z4 >= 0
  <2>1. (a * d) * y1 + (b * d) * y2 + (a * e) * y3 + (b * e) * y4 >= 0
    BY <1>9, FourWeights
  <2>2. (a * d) * z1 + (b * d) * z2 + (a * e) * z3 + (b * e) * z4 >= 0
    BY <1>9, FourWeights
  <2> QED
    BY <2>1, <2>2
<1>11. /\ u1 * (v1 - lo) + u2 * (v2 - lo) + u3 * (v3 - lo) + u4 * (v4 - lo) >= 0
       /\ u1 * (hi - v1) + u2 * (hi - v2) + u3 * (hi - v3) + u4 * (hi - v4) >= 0
  <2>1. /\ u1 * (v1 - lo) = (a * d) * y1 /\ u2 * (v2 - lo) = (b * d) * y2
        /\ u3 * (v3 - lo) = (a * e) * y3 /\ u4 * (v4 - lo) = (b * e) * y4
    BY <1>1, <1>3, <1>4, <1>5, <1>6, <1>7 DEF LeftOut
  <2>2. /\ u1 * (hi - v1) = (a * d) * z1 /\ u2 * (hi - v2) = (b * d) * z2
        /\ u3 * (hi - v3) = (a * e) * z3 /\ u4 * (hi - v4) = (b * e) * z4
    BY <1>1, <1>3, <1>4, <1>5, <1>6, <1>8 DEF LeftOut
  <2> QED
    BY <1>10, <2>1, <2>2
<1>12. total = u1 + u2 + u3 + u4
  BY <1>1, <1>2 DEF Blended
<1>13. sum = u1 * v1 + u2 * v2 + u3 * v3 + u4 * v4
  BY <1>1, <1>3, <1>4, <1>5, <1>6 DEF LeftOut, Blended
<1>14. u1 \in Int /\ u2 \in Int /\ u3 \in Int /\ u4 \in Int
  BY <1>3, <1>4, <1>5, <1>6 DEF LeftOut
<1>15. /\ lo * (u1 + u2 + u3 + u4) <= u1 * v1 + u2 * v2 + u3 * v3 + u4 * v4
       /\ u1 * v1 + u2 * v2 + u3 * v3 + u4 * v4 <= hi * (u1 + u2 + u3 + u4)
  BY <1>11, <1>14, FourBetween
<1>16. u1 * v1 \in Int /\ u2 * v2 \in Int /\ u3 * v3 \in Int /\ u4 * v4 \in Int
  BY <1>14
<1>17. u1 + u2 + u3 + u4 \in Int /\ u1 * v1 + u2 * v2 + u3 * v3 + u4 * v4 \in Int
  BY <1>14, <1>16
<1> QED
  BY <1>12, <1>13, <1>15, <1>17

\* The corners of a cell: two weights across and two up, and where a side has one line
\* of points its two corners are one point.
Corners(p, X, Y, D, a, b, d, e, t) ==
    /\ Stencil(p, X, Y, D) = <<[at |-> t[1], weight |-> a * d], [at |-> t[2], weight |-> b * d],
                               [at |-> t[3], weight |-> a * e], [at |-> t[4], weight |-> b * e]>>
    /\ (a >= 0 /\ b >= 0) \/ (a + b >= 0 /\ t[1] = t[2] /\ t[3] = t[4])
    /\ (d >= 0 /\ e >= 0) \/ (d + e >= 0 /\ t[1] = t[3] /\ t[2] = t[4])

\* The two weights of one side, w the width of a cell and i where it starts.
Sides(X, w, i, n) ==
    /\ i \in Nat /\ w - (X - i * w) \in Int /\ X - i * w \in Int
    /\ w - (X - i * w) + (X - i * w) >= 0
    /\ \/ w - (X - i * w) >= 0 /\ X - i * w >= 0
       \/ Min({i + 0, n - 1}) = Min({i + 1, n - 1})

LEMMA SidesOfCell ==
    ASSUME NEW s \in Nat \ {0}, NEW n \in Nat \ {0}, NEW size \in Nat, NEW D \in Nat \ {0},
           n > 1 => s * (n - 1) = size, NEW X \in 0..(size * D)
    PROVE  Sides(X, s * D, Below(X \div (s * D), n), n)
<1>1. InCell(X, s * D, Below(X \div (s * D), n), n)
  BY CellIs
<1>2. X \in Int
  <2>1. size * D \in Int
    OBVIOUS
  <2> QED
    BY <2>1
<1>3. PICK w \in Nat, i \in Nat : w = s * D /\ i = Below(X \div (s * D), n)
  BY <1>1 DEF InCell
<1>4. PICK k \in Int : k = i * w
  BY Products
<1>5. CASE n > 1
  <2>1. X - k \in 0..w
    BY <1>1, <1>3, <1>4, <1>5 DEF InCell
  <2>2. w - (X - k) \in Int /\ X - k \in Int /\ w - (X - k) + (X - k) >= 0 /\ w - (X - k) >= 0 /\ X - k >= 0
    BY <1>2, <2>1
  <2>3. Sides(X, w, i, n)
    BY <1>4, <2>2 DEF Sides
  <2> QED
    BY <1>3, <2>3
<1>6. CASE n = 1
  <2>1. Min({0, 0}) \in {0, 0} /\ Min({1, 0}) <= 0 /\ Min({1, 0}) \in {1, 0}
    <3>1. 0 \in Int /\ 1 \in Int
      OBVIOUS
    <3> QED
      BY <3>1, MinOfTwo, Zenon
  <2>2. i = 0 /\ i + 0 = 0 /\ i + 1 = 1 /\ n - 1 = 0
    BY <1>1, <1>3, <1>6 DEF InCell
  <2>3. Min({i + 0, n - 1}) = Min({i + 1, n - 1})
    BY <2>1, <2>2
  <2>4. w - (X - k) \in Int /\ X - k \in Int /\ w - (X - k) + (X - k) >= 0
    BY <1>2
  <2>5. Sides(X, w, i, n)
    BY <1>4, <2>3, <2>4 DEF Sides
  <2> QED
    BY <1>3, <2>5
<1> QED
  BY <1>5, <1>6

LEMMA GridSidesAre ==
    ASSUME NEW p, Sound(p), p.kind = "grid2d"
    PROVE  /\ Columns(p) \in Nat \ {0} /\ StepX(p) \in Nat \ {0} /\ p.size[1] \in Nat
           /\ Rows(p) \in Nat \ {0} /\ StepY(p) \in Nat \ {0} /\ p.size[2] \in Nat
<1>1. GridFits(p)
  BY DEF Sound
<1>2. Columns(p) \in Nat /\ Rows(p) \in Nat /\ p.size[1] \in Nat /\ p.size[2] \in Nat
  BY PayloadIs
<1>3. \A x \in Nat, n \in Nat : n > 0 => Step(x, n) \in Int
  BY DEF Step
<1>4. StepX(p) \in Int /\ StepY(p) \in Int
  BY <1>1, <1>2, <1>3 DEF GridFits, StepX, StepY
<1> QED
  BY <1>1, <1>2, <1>4 DEF GridFits

LEMMA CornersAre ==
    ASSUME NEW p, Sound(p), p.kind = "grid2d", NEW X, NEW Y, NEW D \in Nat \ {0}, OnGrid(p, X, Y, D)
    PROVE  \E a, b, d, e \in Int : \E t : Corners(p, X, Y, D, a, b, d, e, t)
<1>1. /\ Columns(p) \in Nat \ {0} /\ StepX(p) \in Nat \ {0} /\ p.size[1] \in Nat
      /\ Rows(p) \in Nat \ {0} /\ StepY(p) \in Nat \ {0} /\ p.size[2] \in Nat
  BY GridSidesAre
<1>2. /\ Columns(p) > 1 => StepX(p) * (Columns(p) - 1) = p.size[1]
      /\ Rows(p) > 1 => StepY(p) * (Rows(p) - 1) = p.size[2]
  BY DEF Sound, GridFits
<1>3. X \in 0..(p.size[1] * D) /\ Y \in 0..(p.size[2] * D)
  BY DEF OnGrid
<1> DEFINE w == StepX(p) * D
           h == StepY(p) * D
           ix == Below(X \div w, Columns(p))
           iy == Below(Y \div h, Rows(p))
           b == X - ix * w
           a == w - b
           e == Y - iy * h
           d == h - e
           lane(dx) == Min({ix + dx, Columns(p) - 1})
           row(dy) == Min({iy + dy, Rows(p) - 1})
           t == <<row(0) * Columns(p) + lane(0) + 1, row(0) * Columns(p) + lane(1) + 1,
                  row(1) * Columns(p) + lane(0) + 1, row(1) * Columns(p) + lane(1) + 1>>
<1>11. Sides(X, w, ix, Columns(p))
  BY <1>1, <1>2, <1>3, SidesOfCell
<1>12. Sides(Y, h, iy, Rows(p))
  BY <1>1, <1>2, <1>3, SidesOfCell
<1>4. /\ ix \in Nat /\ a \in Int /\ b \in Int /\ a + b >= 0
      /\ (a >= 0 /\ b >= 0) \/ lane(0) = lane(1)
  BY <1>11 DEF Sides
<1>5. /\ iy \in Nat /\ d \in Int /\ e \in Int /\ d + e >= 0
      /\ (d >= 0 /\ e >= 0) \/ row(0) = row(1)
  BY <1>12 DEF Sides
<1>6. Stencil(p, X, Y, D) = <<[at |-> t[1], weight |-> a * d], [at |-> t[2], weight |-> b * d],
                              [at |-> t[3], weight |-> a * e], [at |-> t[4], weight |-> b * e]>>
  BY DEF Stencil
<1> HIDE DEF w, h, ix, iy, a, b, d, e, lane, row
<1>7. /\ lane(0) = lane(1) => t[1] = t[2] /\ t[3] = t[4]
      /\ row(0) = row(1) => t[1] = t[3] /\ t[2] = t[4]
  OBVIOUS
<1> HIDE DEF t
<1>8. Corners(p, X, Y, D, a, b, d, e, t)
  BY <1>4, <1>5, <1>6, <1>7 DEF Corners
<1> QED
  BY <1>4, <1>5, <1>8

LEMMA FourIs == \A f : Four(f) = f[1] + f[2] + f[3] + f[4]
BY DEF Four

LEMMA GridPointIs ==
    ASSUME NEW p, Sound(p), p.kind = "grid2d", NEW name, Unloadable(p, name) = "no",
           NEW X, NEW Y, NEW D \in Nat \ {0}, Is(GridAtPoint(p, name, X, Y, D))
    PROVE  Amid(p, name, Valid(p, name), GridAtPoint(p, name, X, Y, D).value)
<1> DEFINE v == Values(p, name)
           V == Valid(p, name)
           corners == Stencil(p, X, Y, D)
           total == Four([k \in 1..4 |-> IF corners[k].at \in V THEN corners[k].weight ELSE 0])
           sum == Four([k \in 1..4 |-> IF corners[k].at \in V THEN corners[k].weight * v[corners[k].at] ELSE 0])
<1>1. GridAtPoint(p, name, X, Y, D) =
         IF ~OnGrid(p, X, Y, D) THEN Refused("outside")
         ELSE IF total <= 0 THEN Refused("masked")
         ELSE [value |-> <<sum, total>>]
  BY DEF GridAtPoint
<1>2. OnGrid(p, X, Y, D) /\ ~(total <= 0) /\ GridAtPoint(p, name, X, Y, D).value = <<sum, total>>
  <2> HIDE DEF total, sum
  <2> QED
    BY <1>1 DEF Is, Refused
<1>3. PICK a, b, d, e \in Int : \E t : Corners(p, X, Y, D, a, b, d, e, t)
  BY <1>2, CornersAre
<1>4. PICK t : Corners(p, X, Y, D, a, b, d, e, t)
  BY <1>3
<1>5. /\ corners[1].at = t[1] /\ corners[1].weight = a * d /\ corners[2].at = t[2] /\ corners[2].weight = b * d
      /\ corners[3].at = t[3] /\ corners[3].weight = a * e /\ corners[4].at = t[4] /\ corners[4].weight = b * e
  BY <1>4 DEF Corners
<1> HIDE DEF corners
<1>6. total = (IF t[1] \in V THEN a * d ELSE 0) + (IF t[2] \in V THEN b * d ELSE 0)
                + (IF t[3] \in V THEN a * e ELSE 0) + (IF t[4] \in V THEN b * e ELSE 0)
  BY <1>5, FourIs
<1>7. sum = (IF t[1] \in V THEN (a * d) * v[t[1]] ELSE 0) + (IF t[2] \in V THEN (b * d) * v[t[2]] ELSE 0)
              + (IF t[3] \in V THEN (a * e) * v[t[3]] ELSE 0) + (IF t[4] \in V THEN (b * e) * v[t[4]] ELSE 0)
  BY <1>5, FourIs
<1> HIDE DEF total, sum
<1>8. V # {}
  <2>1. CASE V = {}
    <3>1. total = 0
      BY <1>6, <2>1
    <3> QED
      BY <1>2, <3>1
  <2> QED
    BY <2>1
<1>9. PICK lo, hi \in V : \A i \in V :
        v[lo] \in Int /\ v[i] \in Int /\ v[hi] \in Int /\ v[lo] <= v[i] /\ v[i] <= v[hi]
  BY <1>8, ExtremesOf
<1>10. PICK m \in Int, n \in Int : m = v[lo] /\ n = v[hi] /\ m <= n
  BY <1>9
<1>11. \A i \in V : v[i] \in Int /\ m <= v[i] /\ v[i] <= n
  BY <1>9, <1>10
<1>12. /\ (a >= 0 /\ b >= 0) \/ (a + b >= 0 /\ t[1] = t[2] /\ t[3] = t[4])
       /\ (d >= 0 /\ e >= 0) \/ (d + e >= 0 /\ t[1] = t[3] /\ t[2] = t[4])
  BY <1>4 DEF Corners
<1> HIDE DEF V, v
<1>13. m * total <= sum /\ sum <= n * total
  <2>1. PICK t1, t2, t3, t4 : t1 = t[1] /\ t2 = t[2] /\ t3 = t[3] /\ t4 = t[4]
    OBVIOUS
  <2>2. Squared(a, b, d, e, t1, t2, t3, t4)
    BY <1>12, <2>1 DEF Squared
  <2>3. Blended(total, sum, a, b, d, e, t1, t2, t3, t4, V, v)
    BY <1>6, <1>7, <2>1 DEF Blended
  <2> QED
    BY <1>10, <1>11, <2>2, <2>3, CornersBlend
<1> QED
  BY <1>2, <1>9, <1>10, <1>13 DEF Amid, V, v

LEMMA PlaneIs ==
    /\ \A a, b \in Int \X Int : From(a, b) \in Int \X Int /\ Cross(a, b) \in Int
    /\ \A k \in Int : Abs(k) \in Nat
BY DEF From, Cross, Abs

\* The corners of a triangle are points of the mesh, and each of them is solved.
LEMMA TriangleIs ==
    ASSUME NEW p, Sound(p), p.kind = "mesh2d", NEW t \in DOMAIN p.triangles, NEW k \in 1..3
    PROVE  /\ p.triangles[t][k] \in DOMAIN p.points
           /\ p.points[p.triangles[t][k]] \in Int \X Int
<1>1. MeshFits(p)
  BY DEF Sound
<1>2. p.triangles[t][k] \in DOMAIN p.points
  BY <1>1 DEF MeshFits
<1>3. p.points \in Seq(Int \X Int)
  BY PayloadIs
<1> QED
  BY <1>2, <1>3

LEMMA CornerIsSolved ==
    ASSUME NEW p, Sound(p), p.kind = "mesh2d", NEW name, Unloadable(p, name) = "no",
           NEW t \in DOMAIN p.triangles, NEW k \in 1..3
    PROVE  p.triangles[t][k] \in Valid(p, name)
<1>1. Points(p) = p.points /\ p.points \in Seq(Int \X Int)
  BY PayloadIs DEF Points
<1>2. Values(p, name) \in Seq(Int) /\ Len(Values(p, name)) = Len(p.points)
  BY <1>1, FieldIs
<1>3. DOMAIN Values(p, name) = DOMAIN p.points
  BY <1>1, <1>2
<1> QED
  BY <1>3, TriangleIs, MeshIsSolved

LEMMA AreaIs ==
    ASSUME NEW p, Sound(p), p.kind = "mesh2d", NEW t \in DOMAIN p.triangles
    PROVE  Area2(p, t) \in Nat
<1>1. PICK c : c = [k \in 1..3 |-> p.points[p.triangles[t][k]]]
  OBVIOUS
<1>2. c[1] \in Int \X Int /\ c[2] \in Int \X Int /\ c[3] \in Int \X Int
  BY <1>1, TriangleIs
<1>3. Abs(Cross(From(c[1], c[2]), From(c[1], c[3]))) \in Nat
  BY <1>2, PlaneIs
<1> QED
  BY <1>1, <1>3 DEF Area2

LEMMA BarycentricIs ==
    ASSUME NEW p, Sound(p), p.kind = "mesh2d", NEW t \in DOMAIN p.triangles,
           NEW X \in Int, NEW Y \in Int, NEW D \in Nat
    PROVE  /\ Barycentric(p, t, X, Y, D).a \in Int /\ Barycentric(p, t, X, Y, D).b \in Int
           /\ Barycentric(p, t, X, Y, D).whole \in Int
<1> DEFINE c == [k \in 1..3 |-> p.points[p.triangles[t][k]]]
           v0 == From(c[1], c[2])
           v1 == From(c[1], c[3])
           v2 == <<X - c[1][1] * D, Y - c[1][2] * D>>
           sign == IF Cross(v0, v1) < 0 THEN -1 ELSE 1
<1>1. c[1] \in Int \X Int /\ c[2] \in Int \X Int /\ c[3] \in Int \X Int
  BY TriangleIs
<1> HIDE DEF c
<1>2. v0 \in Int \X Int /\ v1 \in Int \X Int /\ v2 \in Int \X Int
  <2>1. c[1][1] \in Int /\ c[1][2] \in Int
    BY <1>1
  <2>2. X - c[1][1] * D \in Int /\ Y - c[1][2] * D \in Int
    BY <2>1
  <2> QED
    BY <1>1, <2>2, PlaneIs
<1> HIDE DEF v0, v1, v2
<1>3. Cross(v0, v1) \in Int /\ Cross(v2, v1) \in Int /\ Cross(v0, v2) \in Int
  BY <1>2, PlaneIs
<1>4. /\ sign * Cross(v2, v1) \in Int /\ sign * Cross(v0, v2) \in Int
      /\ Abs(Cross(v0, v1)) * D \in Int
  <2>1. sign \in Int
    OBVIOUS
  <2>2. Abs(Cross(v0, v1)) \in Nat
    BY <1>3, PlaneIs
  <2> HIDE DEF sign
  <2> QED
    BY <1>3, <2>1, <2>2, Products
<1>5. Barycentric(p, t, X, Y, D) =
        [whole |-> Abs(Cross(v0, v1)) * D, a |-> sign * Cross(v2, v1), b |-> sign * Cross(v0, v2)]
  BY DEF Barycentric, v0, v1, v2, c
<1> HIDE DEF sign
<1> QED
  BY <1>4, <1>5

LEMMA ThreeBetween ==
    ASSUME NEW w1 \in Nat, NEW w2 \in Nat, NEW w3 \in Nat, NEW v1 \in Int, NEW v2 \in Int,
           NEW v3 \in Int, NEW lo \in Int, NEW hi \in Int,
           lo <= v1 /\ v1 <= hi, lo <= v2 /\ v2 <= hi, lo <= v3 /\ v3 <= hi
    PROVE  /\ lo * (w1 + w2 + w3) <= v1 * w1 + v2 * w2 + v3 * w3
           /\ v1 * w1 + v2 * w2 + v3 * w3 <= hi * (w1 + w2 + w3)
<1>1. /\ lo * w1 <= v1 * w1 /\ lo * w2 <= v2 * w2 /\ lo * w3 <= v3 * w3
      /\ v1 * w1 <= hi * w1 /\ v2 * w2 <= hi * w2 /\ v3 * w3 <= hi * w3
  BY Orders
<1>2. /\ lo * (w1 + w2 + w3) = lo * w1 + lo * w2 + lo * w3
      /\ hi * (w1 + w2 + w3) = hi * w1 + hi * w2 + hi * w3
  OBVIOUS
<1>3. PICK a1 \in Int, a2 \in Int, a3 \in Int : a1 = v1 * w1 /\ a2 = v2 * w2 /\ a3 = v3 * w3
  OBVIOUS
<1>4. PICK b1 \in Int, b2 \in Int, b3 \in Int : b1 = lo * w1 /\ b2 = lo * w2 /\ b3 = lo * w3
  OBVIOUS
<1>5. PICK c1 \in Int, c2 \in Int, c3 \in Int : c1 = hi * w1 /\ c2 = hi * w2 /\ c3 = hi * w3
  OBVIOUS
<1> QED
  BY <1>1, <1>2, <1>3, <1>4, <1>5

LEMMA MeshPointIs ==
    ASSUME NEW p, Sound(p), p.kind = "mesh2d", NEW name, Unloadable(p, name) = "no",
           NEW X \in Int, NEW Y \in Int, NEW D \in Nat, Is(MeshAtPoint(p, name, X, Y, D))
    PROVE  Amid(p, name, Valid(p, name), MeshAtPoint(p, name, X, Y, D).value)
<1> DEFINE v == Values(p, name)
           holds(w) == w.a >= 0 /\ w.b >= 0 /\ w.whole - w.a - w.b >= 0
           inside == {t \in DOMAIN p.triangles : holds(Barycentric(p, t, X, Y, D))}
           t == Min(inside)
           w == Barycentric(p, t, X, Y, D)
           n == p.triangles[t]
           sum == v[n[1]] * (w.whole - w.a - w.b) + v[n[2]] * w.a + v[n[3]] * w.b
<1>1. MeshAtPoint(p, name, X, Y, D) = IF inside = {} THEN Refused("outside")
                                      ELSE [value |-> <<sum, w.whole>>]
  BY DEF MeshAtPoint
<1>2. inside # {} /\ MeshAtPoint(p, name, X, Y, D).value = <<sum, w.whole>>
  <2> HIDE DEF inside, sum
  <2> QED
    BY <1>1 DEF Is, Refused
<1>3. t \in inside
  <2>1. inside \subseteq Nat
    <3>1. p.triangles \in Seq(Seq(Nat))
      BY PayloadIs
    <3>2. DOMAIN p.triangles \subseteq Nat
      BY <3>1
    <3>3. inside \subseteq DOMAIN p.triangles
      BY Zenon
    <3> HIDE DEF inside
    <3> QED
      BY <3>2, <3>3
  <2> HIDE DEF inside
  <2> QED
    BY <1>2, <2>1, LeastOf
<1>4. t \in DOMAIN p.triangles /\ holds(w)
  BY <1>3
<1> HIDE DEF t
<1>5. w.a \in Int /\ w.b \in Int /\ w.whole \in Int
  BY <1>4, BarycentricIs
<1>6. n[1] \in Valid(p, name) /\ n[2] \in Valid(p, name) /\ n[3] \in Valid(p, name)
  BY <1>4, CornerIsSolved
<1>7. PICK lo, hi \in Valid(p, name) : \A i \in Valid(p, name) :
        v[lo] \in Int /\ v[i] \in Int /\ v[hi] \in Int /\ v[lo] <= v[i] /\ v[i] <= v[hi]
  BY <1>6, ExtremesOf
<1>8. PICK w1 \in Nat, w2 \in Nat, w3 \in Nat :
        w1 = w.whole - w.a - w.b /\ w2 = w.a /\ w3 = w.b
  BY <1>4, <1>5
<1>9. w1 + w2 + w3 = w.whole
  BY <1>5, <1>8
<1>10. PICK v1 \in Int, v2 \in Int, v3 \in Int, m \in Int, k \in Int :
         v1 = v[n[1]] /\ v2 = v[n[2]] /\ v3 = v[n[3]] /\ m = v[lo] /\ k = v[hi]
  BY <1>6, <1>7
<1>11. m <= v1 /\ v1 <= k /\ m <= v2 /\ v2 <= k /\ m <= v3 /\ v3 <= k
  BY <1>6, <1>7, <1>10
<1>12. /\ m * (w1 + w2 + w3) <= v1 * w1 + v2 * w2 + v3 * w3
       /\ v1 * w1 + v2 * w2 + v3 * w3 <= k * (w1 + w2 + w3)
  BY <1>11, ThreeBetween
<1>13. sum = v1 * w1 + v2 * w2 + v3 * w3
  BY <1>8, <1>10
<1>14. m * w.whole <= sum /\ sum <= k * w.whole
  BY <1>9, <1>12, <1>13
<1> HIDE DEF sum, w
<1>15. v[lo] * w.whole <= sum /\ sum <= v[hi] * w.whole
  BY <1>10, <1>14
<1>16. Amid(p, name, Valid(p, name), <<sum, w.whole>>)
  BY <1>15 DEF Amid
<1> QED
  BY <1>2, <1>16

LEMMA MeshMeanIs ==
    ASSUME NEW p, Sound(p), p.kind = "mesh2d", NEW name, Unloadable(p, name) = "no",
           Is(Mean(p, name))
    PROVE  Amid(p, name, Valid(p, name), Mean(p, name).value)
<1> DEFINE v == Values(p, name)
           V == Valid(p, name)
           share == [i \in V |-> DualArea(p, i)]
           part == [i \in V |-> v[i] * DualArea(p, i)]
           total == SumFunction(share)
           sum == SumFunction(part)
<1>1. Mean(p, name) = IF total <= 0 THEN Refused("no area") ELSE [value |-> <<sum, total>>]
  BY DEF Mean
<1>2. ~(total <= 0) /\ Mean(p, name).value = <<sum, total>>
  <2> HIDE DEF total, sum
  <2>1. ~(total <= 0)
    <3>1. CASE total <= 0
      <4>1. Mean(p, name) = Refused("no area")
        BY <1>1, <3>1
      <4> QED
        BY <4>1 DEF Is, Refused
    <3> QED
      BY <3>1
  <2> QED
    BY <1>1, <2>1
<1>3. total = SumFunctionOnSet(share, V) /\ sum = SumFunctionOnSet(part, V)
  BY DEF SumFunction
<1>4. IsFiniteSet(V) /\ \A i \in V : v[i] \in Int
  BY FieldIs
<1>5. \A i \in V : DualArea(p, i) \in Nat
  <2> SUFFICES ASSUME NEW i \in V
               PROVE  DualArea(p, i) \in Nat
    OBVIOUS
  <2> DEFINE round == {t \in DOMAIN p.triangles : \E k \in 1..3 : p.triangles[t][k] = i}
             areas == [t \in round |-> Area2(p, t)]
  <2>1. IsFiniteSet(round)
    <3>1. PICK m \in Nat : DOMAIN p.triangles = 1..m
      <4>1. p.triangles \in Seq(Seq(Nat))
        BY PayloadIs
      <4>2. Len(p.triangles) \in Nat /\ DOMAIN p.triangles = 1..Len(p.triangles)
        BY <4>1
      <4> QED
        BY <4>2
    <3>2. IsFiniteSet(1..m)
      BY FS_Interval
    <3> QED
      BY <3>1, <3>2, FS_Subset
  <2>2. \A t \in round : areas[t] \in Nat
    BY AreaIs
  <2>3. DualArea(p, i) = SumFunctionOnSet(areas, round)
    BY DEF DualArea, SumFunction
  <2> HIDE DEF round, areas
  <2> QED
    BY <2>1, <2>2, <2>3, SumIsNat
<1>6. \A i \in V : share[i] = DualArea(p, i) /\ part[i] = v[i] * DualArea(p, i)
  OBVIOUS
<1> HIDE DEF share, part, total, sum
<1>7. V # {}
  <2>1. CASE V = {}
    <3>1. SumFunctionOnSet(share, {}) = 0
      <4>1. PICK g : Totals(g, share, {})
        BY SumsAre, FS_EmptySet
      <4> QED
        BY <4>1 DEF Totals
    <3> QED
      BY <1>2, <1>3, <2>1, <3>1
  <2> QED
    BY <2>1
<1>8. PICK lo, hi \in V : \A i \in V :
        v[lo] \in Int /\ v[i] \in Int /\ v[hi] \in Int /\ v[lo] <= v[i] /\ v[i] <= v[hi]
  BY <1>7, ExtremesOf
<1>9. PICK m \in Int, k \in Int : m = v[lo] /\ k = v[hi]
  BY <1>8
<1>10. \A i \in V : part[i] \in Int /\ share[i] \in Int /\ m * share[i] <= part[i] /\ part[i] <= k * share[i]
  <2> SUFFICES ASSUME NEW i \in V
               PROVE  part[i] \in Int /\ share[i] \in Int /\ m * share[i] <= part[i] /\ part[i] <= k * share[i]
    OBVIOUS
  <2>1. PICK x \in Int, w \in Nat : x = v[i] /\ w = DualArea(p, i)
    BY <1>4, <1>5
  <2>2. part[i] = x * w /\ share[i] = w /\ m <= x /\ x <= k
    BY <1>6, <1>8, <1>9, <2>1
  <2> QED
    BY <2>2, Orders, Products
<1>11. /\ m * SumFunctionOnSet(share, V) <= SumFunctionOnSet(part, V)
       /\ SumFunctionOnSet(part, V) <= k * SumFunctionOnSet(share, V)
  BY <1>4, <1>10, SumBetween
<1> QED
  BY <1>2, <1>3, <1>8, <1>9, <1>11 DEF Amid

\* Every reduction but the integral is amid the values that were solved.
LEMMA ReductionIs ==
    ASSUME NEW p, Sound(p), NEW name, Unloadable(p, name) = "no",
           NEW reduction \in {"max", "min", "mean"}, Is(Reduce(p, name, reduction))
    PROVE  Amid(p, name, Valid(p, name), Reduce(p, name, reduction).value)
<1>1. ASSUME NEW sign \in {1, -1}, Is(Extremum(p, name, sign))
      PROVE  Amid(p, name, Valid(p, name), Extremum(p, name, sign).value)
  <2> DEFINE i == First(p, name, Valid(p, name), sign)
  <2>1. Valid(p, name) # {} /\ Extremum(p, name, sign).value = <<Values(p, name)[i], 1>>
    BY <1>1 DEF Extremum, Is, Refused
  <2>2. i \in Valid(p, name)
    BY <2>1, FirstIs
  <2> QED
    BY <2>1, <2>2, ValueIsAmid
<1>2. ASSUME Is(Mean(p, name))
      PROVE  Amid(p, name, Valid(p, name), Mean(p, name).value)
  <2>1. CASE p.kind = "grid2d"
    <3>1. /\ Valid(p, name) # {}
          /\ Mean(p, name).value = <<SumFunctionOnSet(Values(p, name), Valid(p, name)), Cardinality(Valid(p, name))>>
      BY <1>2, <2>1 DEF Mean, Is, Refused
    <3> QED
      BY <3>1, MeanIsAmid
  <2>2. CASE p.kind = "mesh2d"
    BY <1>2, <2>2, MeshMeanIs
  <2> QED
    BY <2>1, <2>2, PayloadIs
<1>3. CASE reduction = "max"
  <2>1. Reduce(p, name, reduction) = Extremum(p, name, 1)
    BY <1>3 DEF Reduce
  <2> QED
    BY <1>1, <2>1
<1>4. CASE reduction = "min"
  <2>1. Reduce(p, name, reduction) = Extremum(p, name, -1)
    BY <1>4 DEF Reduce
  <2> QED
    BY <1>1, <2>1
<1>5. CASE reduction = "mean"
  <2>1. Reduce(p, name, reduction) = Mean(p, name)
    BY <1>5 DEF Reduce
  <2> QED
    BY <1>2, <2>1
<1> QED
  BY <1>3, <1>4, <1>5

LEMMA AtPointIs ==
    ASSUME NEW p, Sound(p), NEW name, Unloadable(p, name) = "no",
           NEW X \in Int, NEW Y \in Int, NEW D \in Nat \ {0}, Is(AtPoint(p, name, X, Y, D))
    PROVE  Amid(p, name, Valid(p, name), AtPoint(p, name, X, Y, D).value)
<1>1. CASE p.kind = "grid2d"
  BY <1>1, GridPointIs DEF AtPoint
<1>2. CASE p.kind = "mesh2d"
  BY <1>2, MeshPointIs DEF AtPoint
<1> QED
  BY <1>1, <1>2, PayloadIs

-----------------------------------------------------------------------------
(* Linear fields *)

\* On one side of a cell the two weights bring a slope to where the point is; across one
\* line of points there is none.
Sloping(X, s, D, n, B) ==
    LET i == Below(X \div (s * D), n)
        x == X - i * (s * D)
        lane(dx) == Min({i + dx, n - 1}) IN
    /\ x \in Int /\ lane(0) \in 0..(n - 1) /\ lane(1) \in 0..(n - 1)
    /\ D * (B * ((s * D - x) * (lane(0) * s) + x * (lane(1) * s))) = (s * D) * (B * X)

LEMMA SideSlopes ==
    ASSUME NEW s \in Nat \ {0}, NEW n \in Nat \ {0}, NEW size \in Nat, NEW D \in Nat \ {0},
           n > 1 => s * (n - 1) = size, NEW X \in 0..(size * D), NEW B \in Int, n > 1 \/ B = 0
    PROVE  Sloping(X, s, D, n, B)
<1>1. PICK w \in Nat \ {0} : w = s * D
  <2>1. s * D \in Int /\ s * D > 0
    OBVIOUS
  <2> QED
    BY <2>1
<1>2. X \in Int
  <2>1. size * D \in Int
    OBVIOUS
  <2> QED
    BY <2>1
<1>3. PICK i : i = Below(X \div (s * D), n)
  OBVIOUS
<1>4. InCell(X, w, i, n)
  BY <1>1, <1>3, CellIs
<1>5. i \in Nat
  BY <1>4 DEF InCell
<1>6. PICK x \in Int : x = X - i * w
  BY <1>2, <1>5
<1>7. PICK m \in Int : m = n - 1 /\ m >= 0
  OBVIOUS
<1>8. PICK a, b : a = Min({i + 0, m}) /\ b = Min({i + 1, m})
  OBVIOUS
<1>9. /\ a \in {i, m} /\ a <= i /\ a <= m /\ b \in {i + 1, m} /\ b <= i + 1 /\ b <= m
      /\ a \in Int /\ b \in Int
  <2>1. i + 0 = i /\ i \in Int /\ i + 1 \in Int /\ m \in Int
    BY <1>5
  <2>2. a \in {i, m} /\ a <= i /\ a <= m
    BY <1>8, <2>1, MinOfTwo
  <2>3. b \in {i + 1, m} /\ b <= i + 1 /\ b <= m
    BY <1>8, <2>1, MinOfTwo
  <2> QED
    BY <2>1, <2>2, <2>3
<1>10. a \in 0..m /\ b \in 0..m
  BY <1>5, <1>7, <1>9
<1>11. D * (B * ((w - x) * (a * s) + x * (b * s))) = w * (B * X)
  <2>1. CASE n = 1
    <3>1. B = 0
      BY <2>1
    <3>2. PICK k \in Int : k = (w - x) * (a * s) + x * (b * s)
      BY <1>1, <1>6, <1>9
    <3>3. B * k = 0 /\ B * X = 0 /\ D * 0 = 0 /\ w * 0 = 0
      BY <1>2, <3>1, <3>2
    <3> QED
      BY <3>2, <3>3
  <2>2. CASE n > 1
    <3>1. a = i /\ b = i + 1
      <4>1. i <= n - 2
        <5>1. PICK q \in Int : q = X \div (s * D)
          BY <1>1, <1>2
        <5>2. i = Min({q, n - 2})
          BY <1>3, <2>2, <5>1 DEF Below
        <5> QED
          BY <5>1, <5>2, MinOfTwo
      <4> QED
        BY <1>5, <1>7, <1>9, <4>1
    <3>2. (w - x) * (a * s) + x * (b * s) = X * s
      <4>1. (w - x) * (i * s) + x * ((i + 1) * s) = (i * w + x) * s
        BY <1>1, <1>5, <1>6
      <4>2. i * w + x = X
        <5>1. PICK k \in Int : k = i * w
          BY <1>1, <1>5
        <5> QED
          BY <1>2, <1>6, <5>1
      <4> QED
        BY <3>1, <4>1, <4>2
    <3>3. D * (B * (X * s)) = (s * D) * (B * X)
      BY <1>2
    <3> QED
      BY <1>1, <3>2, <3>3
  <2> QED
    BY <2>1, <2>2
<1> QED
  BY <1>1, <1>3, <1>6, <1>7, <1>8, <1>10, <1>11 DEF Sloping

LEMMA DivModIs ==
    ASSUME NEW k \in Nat, NEW n \in Nat \ {0}
    PROVE  \E q \in Nat, r \in Int : q = k \div n /\ r = k % n /\ k = q * n + r /\ 0 <= r /\ r < n
<1>1. k \div n \in Nat /\ (k \div n) * n <= k /\ k < (k \div n) * n + n
  BY DivIs
<1>2. k % n = k - (k \div n) * n
  OBVIOUS
<1> QED
  BY <1>1, <1>2

\* The point in a lane and a row of a grid.
LEMMA PointIs ==
    ASSUME NEW p, Sound(p), p.kind = "grid2d", NEW i \in 0..(Columns(p) - 1), NEW j \in 0..(Rows(p) - 1)
    PROVE  /\ j * Columns(p) + i + 1 \in DOMAIN Points(p)
           /\ Points(p)[j * Columns(p) + i + 1] = <<i * StepX(p), j * StepY(p)>>
<1>1. PICK n \in Nat \ {0}, m \in Nat \ {0} : n = Columns(p) /\ m = Rows(p)
  BY GridSidesAre
<1>2. PICK k \in Int : k = j * n + i
  BY <1>1
<1>3. k \in 0..(n * m - 1)
  <2>1. j * n >= 0 /\ j * n <= (m - 1) * n
    <3>1. m - 1 \in Int /\ j <= m - 1 /\ 0 <= j /\ j \in Int
      BY <1>1
    <3> QED
      BY <1>1, <3>1, Orders, Positive
  <2>2. (m - 1) * n = n * m - n
    BY <1>1
  <2>3. PICK a \in Int, b \in Int : a = j * n /\ b = n * m
    BY <1>1
  <2> QED
    BY <1>1, <1>2, <2>1, <2>2, <2>3
<1>4. k % n = i /\ k \div n = j
  <2>1. k \in Nat
    BY <1>2, <1>3
  <2>2. PICK q \in Nat, r \in Int : q = k \div n /\ r = k % n /\ k = q * n + r /\ 0 <= r /\ r < n
    BY <1>1, <2>1, DivModIs
  <2>3. q = j
    <3>1. CASE q < j
      <4>1. (q + 1) * n <= j * n
        <5>1. q + 1 \in Int /\ q + 1 <= j /\ j \in Int
          BY <3>1
        <5> QED
          BY <1>1, <5>1, Orders
      <4>2. (q + 1) * n = q * n + n
        BY <1>1
      <4>3. PICK a \in Int, b \in Int : a = q * n /\ b = j * n
        BY <1>1
      <4> QED
        BY <1>1, <1>2, <2>2, <4>1, <4>2, <4>3
    <3>2. CASE j < q
      <4>1. (j + 1) * n <= q * n
        <5>1. j + 1 \in Int /\ j + 1 <= q
          BY <3>2
        <5> QED
          BY <1>1, <5>1, Orders
      <4>2. (j + 1) * n = j * n + n
        BY <1>1
      <4>3. PICK a \in Int, b \in Int : a = q * n /\ b = j * n
        BY <1>1
      <4> QED
        BY <1>1, <1>2, <2>2, <4>1, <4>2, <4>3
    <3> QED
      BY <2>2, <3>1, <3>2
  <2>4. k = q * n + i
    BY <1>2, <2>3
  <2>5. PICK a \in Int : a = q * n
    BY <1>1
  <2>6. r = i
    BY <2>2, <2>4, <2>5
  <2> QED
    BY <2>2, <2>3, <2>6
<1>5. /\ Points(p) = [t \in 1..(n * m) |-> <<((t - 1) % n) * StepX(p), ((t - 1) \div n) * StepY(p)>>]
      /\ n * m \in Int
  BY <1>1 DEF Points
<1>6. k + 1 \in 1..(n * m) /\ (k + 1) - 1 = k
  BY <1>3, <1>5
<1>7. Points(p)[k + 1] = <<i * StepX(p), j * StepY(p)>>
  BY <1>4, <1>5, <1>6
<1> QED
  BY <1>1, <1>2, <1>5, <1>6, <1>7

\* Two weights of a linear field, and four.
FitTwo(a, b, x0, x1, B, X, D) == D * (B * (a * x0 + b * x1)) = (a + b) * (B * X)
FitFour(a, b, d, e, x0, x1, y0, y1, K, B, C, X, Y, D) ==
    D * ((a * d) * (K + B * x0 + C * y0) + (b * d) * (K + B * x1 + C * y0)
          + (a * e) * (K + B * x0 + C * y1) + (b * e) * (K + B * x1 + C * y1))
      = (a * d + b * d + a * e + b * e) * (K * D + B * X + C * Y)

LEMMA FourExact ==
    ASSUME NEW a \in Int, NEW b \in Int, NEW d \in Int, NEW e \in Int,
           NEW x0 \in Int, NEW x1 \in Int, NEW y0 \in Int, NEW y1 \in Int,
           NEW K \in Int, NEW B \in Int, NEW C \in Int, NEW X \in Int, NEW Y \in Int, NEW D \in Int,
           FitTwo(a, b, x0, x1, B, X, D), FitTwo(d, e, y0, y1, C, Y, D)
    PROVE  FitFour(a, b, d, e, x0, x1, y0, y1, K, B, C, X, Y, D)
<1>1. PICK w \in Int, h \in Int : w = a + b /\ h = d + e
  OBVIOUS
<1>2. PICK r \in Int, u \in Int : r = B * (a * x0 + b * x1) /\ u = C * (d * y0 + e * y1)
  OBVIOUS
<1>3. (a * d) * (K + B * x0 + C * y0) + (b * d) * (K + B * x1 + C * y0)
         + (a * e) * (K + B * x0 + C * y1) + (b * e) * (K + B * x1 + C * y1)
       = (K * w) * h + r * h + u * w
  BY <1>1, <1>2
<1>4. D * ((K * w) * h + r * h + u * w) = ((K * D) * w) * h + (D * r) * h + (D * u) * w
  BY <1>1, <1>2
<1>5. D * r = w * (B * X) /\ D * u = h * (C * Y)
  BY <1>1, <1>2 DEF FitTwo
<1>6. ((K * D) * w) * h + (w * (B * X)) * h + (h * (C * Y)) * w = (w * h) * (K * D + B * X + C * Y)
  BY <1>1
<1>7. a * d + b * d + a * e + b * e = w * h
  BY <1>1
<1> QED
  BY <1>3, <1>4, <1>5, <1>6, <1>7 DEF FitFour

\* Whether what is solved of a field is all of it and a + bx + cy, and what a linear
\* field is where an answer was asked for.
Sloped(p, name, K, B, C) ==
    /\ Valid(p, name) = DOMAIN Points(p)
    /\ \A i \in Valid(p, name) :
          Values(p, name)[i] = K + B * Points(p)[i][1] + C * Points(p)[i][2]
    /\ p.kind = "grid2d" => (Columns(p) > 1 \/ B = 0) /\ (Rows(p) > 1 \/ C = 0)
Exact(x, K, B, C, X, Y, D) == D * x[1] = x[2] * (K * D + B * X + C * Y)

LEMMA GridIsExact ==
    ASSUME NEW p, Sound(p), p.kind = "grid2d", NEW name,
           NEW X, NEW Y, NEW D \in Nat \ {0}, Is(GridAtPoint(p, name, X, Y, D)),
           NEW K \in Int, NEW B \in Int, NEW C \in Int, Sloped(p, name, K, B, C)
    PROVE  Exact(GridAtPoint(p, name, X, Y, D).value, K, B, C, X, Y, D)
<1> DEFINE v == Values(p, name)
           V == Valid(p, name)
           corners == Stencil(p, X, Y, D)
           total == Four([k \in 1..4 |-> IF corners[k].at \in V THEN corners[k].weight ELSE 0])
           sum == Four([k \in 1..4 |-> IF corners[k].at \in V THEN corners[k].weight * v[corners[k].at] ELSE 0])
<1>1. GridAtPoint(p, name, X, Y, D) =
         IF ~OnGrid(p, X, Y, D) THEN Refused("outside")
         ELSE IF total <= 0 THEN Refused("masked")
         ELSE [value |-> <<sum, total>>]
  BY DEF GridAtPoint
<1>2. OnGrid(p, X, Y, D) /\ GridAtPoint(p, name, X, Y, D).value = <<sum, total>>
  <2> HIDE DEF total, sum
  <2> QED
    BY <1>1 DEF Is, Refused
<1>3. PICK n \in Nat \ {0}, m \in Nat \ {0}, s \in Nat \ {0}, g \in Nat \ {0} :
        n = Columns(p) /\ m = Rows(p) /\ s = StepX(p) /\ g = StepY(p)
  BY GridSidesAre
<1>4. X \in Int /\ Y \in Int /\ X \in 0..(p.size[1] * D) /\ Y \in 0..(p.size[2] * D)
  <2>1. p.size[1] * D \in Int /\ p.size[2] * D \in Int
    <3>1. PICK w \in Int, h \in Int : w = p.size[1] /\ h = p.size[2]
      BY GridSidesAre
    <3> QED
      BY <3>1, Products
  <2> QED
    BY <1>2, <2>1 DEF OnGrid
<1>5. Sloping(X, s, D, n, B) /\ Sloping(Y, g, D, m, C)
  <2>1. /\ p.size[1] \in Nat /\ p.size[2] \in Nat
        /\ n > 1 => s * (n - 1) = p.size[1]
        /\ m > 1 => g * (m - 1) = p.size[2]
    BY <1>3, PayloadIs DEF Sound, GridFits
  <2>2. (n > 1 \/ B = 0) /\ (m > 1 \/ C = 0)
    BY <1>3 DEF Sloped
  <2> QED
    BY <1>4, <2>1, <2>2, SideSlopes
<1> DEFINE ix == Below(X \div (s * D), n)
           iy == Below(Y \div (g * D), m)
<1>6. PICK b \in Int, e \in Int : b = X - ix * (s * D) /\ e = Y - iy * (g * D)
  BY <1>5 DEF Sloping
<1>7. PICK a \in Int, d \in Int : a = s * D - b /\ d = g * D - e
  OBVIOUS
<1>8. PICK i0 \in 0..(n - 1), i1 \in 0..(n - 1), j0 \in 0..(m - 1), j1 \in 0..(m - 1) :
        /\ i0 = Min({ix + 0, n - 1}) /\ i1 = Min({ix + 1, n - 1})
        /\ j0 = Min({iy + 0, m - 1}) /\ j1 = Min({iy + 1, m - 1})
  BY <1>5 DEF Sloping
<1>9. /\ D * (B * (a * (i0 * s) + b * (i1 * s))) = (s * D) * (B * X)
      /\ D * (C * (d * (j0 * g) + e * (j1 * g))) = (g * D) * (C * Y)
  BY <1>5, <1>6, <1>7, <1>8 DEF Sloping
<1> DEFINE at(i, j) == j * n + i + 1
<1>10. corners = <<[at |-> at(i0, j0), weight |-> a * d], [at |-> at(i1, j0), weight |-> b * d],
                   [at |-> at(i0, j1), weight |-> a * e], [at |-> at(i1, j1), weight |-> b * e]>>
  <2>1. corners = LET part(extent, t, k) == IF k = 0 THEN extent - t ELSE t
                      corner(dx, dy) ==
                        [at |-> Min({iy + dy, m - 1}) * n + Min({ix + dx, n - 1}) + 1,
                         weight |-> part(s * D, b, dx) * part(g * D, e, dy)] IN
                  <<corner(0, 0), corner(1, 0), corner(0, 1), corner(1, 1)>>
    BY <1>3, <1>6 DEF Stencil
  <2> HIDE DEF corners, ix, iy
  <2> QED
    BY <1>7, <1>8, <2>1
<1>11. \A i \in 0..(n - 1), j \in 0..(m - 1) : at(i, j) \in V /\ v[at(i, j)] = K + B * (i * s) + C * (j * g)
  <2> SUFFICES ASSUME NEW i \in 0..(n - 1), NEW j \in 0..(m - 1)
               PROVE  at(i, j) \in V /\ v[at(i, j)] = K + B * (i * s) + C * (j * g)
    OBVIOUS
  <2>1. at(i, j) \in DOMAIN Points(p) /\ Points(p)[at(i, j)] = <<i * s, j * g>>
    BY <1>3, PointIs
  <2> HIDE DEF at
  <2>2. at(i, j) \in V
    BY <2>1 DEF Sloped
  <2>3. v[at(i, j)] = K + B * Points(p)[at(i, j)][1] + C * Points(p)[at(i, j)][2]
    BY <2>2 DEF Sloped
  <2> QED
    BY <2>1, <2>2, <2>3
<1> HIDE DEF corners, at, V, v, ix, iy
<1>12. total = a * d + b * d + a * e + b * e
  BY <1>10, <1>11, FourIs
<1>13. sum = (a * d) * v[at(i0, j0)] + (b * d) * v[at(i1, j0)]
               + (a * e) * v[at(i0, j1)] + (b * e) * v[at(i1, j1)]
  BY <1>10, <1>11, FourIs
<1> HIDE DEF total, sum
<1>14. PICK x0 \in Int, x1 \in Int, y0 \in Int, y1 \in Int :
         x0 = i0 * s /\ x1 = i1 * s /\ y0 = j0 * g /\ y1 = j1 * g
  OBVIOUS
<1>15. a + b = s * D /\ d + e = g * D
  BY <1>7
<1>16. FitTwo(a, b, x0, x1, B, X, D) /\ FitTwo(d, e, y0, y1, C, Y, D)
  BY <1>9, <1>14, <1>15 DEF FitTwo
<1>17. FitFour(a, b, d, e, x0, x1, y0, y1, K, B, C, X, Y, D)
  <2>1. /\ a \in Int /\ b \in Int /\ d \in Int /\ e \in Int /\ D \in Int
        /\ x0 \in Int /\ x1 \in Int /\ y0 \in Int /\ y1 \in Int
    OBVIOUS
  <2>2. K \in Int /\ B \in Int /\ C \in Int /\ X \in Int /\ Y \in Int
    BY <1>4
  <2> QED
    BY <1>16, <2>1, <2>2, FourExact, Zenon
<1>18. D * sum = total * (K * D + B * X + C * Y)
  BY <1>11, <1>12, <1>13, <1>14, <1>17 DEF FitFour
<1> QED
  BY <1>2, <1>18 DEF Exact

\* The weights of a point in a triangle bring it back to where it is.
LEMMA ThreeExact ==
    ASSUME NEW x0 \in Int, NEW y0 \in Int, NEW x1 \in Int, NEW y1 \in Int, NEW x2 \in Int, NEW y2 \in Int
    PROVE  /\ x0 * (x2 * y1 - x1 * y2) + x1 * (x0 * y2 - x2 * y0) = (x0 * y1 - x1 * y0) * x2
           /\ y0 * (x2 * y1 - x1 * y2) + y1 * (x0 * y2 - x2 * y0) = (x0 * y1 - x1 * y0) * y2
OBVIOUS

\* What weights a and b in k bring, along one side.
Brought(p0, p1, p2, a, b, k, X, D) == (p1 - p0) * a + (p2 - p0) * b = k * (X - p0 * D)

\* A linear field at three points, and what three weights make of it.
OfTriangle(px, py, qx, qy, rx, ry, f1, f2, f3, K, B, C) ==
    f1 = K + B * px + C * py /\ f2 = K + B * qx + C * qy /\ f3 = K + B * rx + C * ry
FitThree(f1, f2, f3, k, a, b, K, B, C, X, Y, D) ==
    D * (f1 * (k * D - a - b) + f2 * a + f3 * b) = (k * D) * (K * D + B * X + C * Y)

LEMMA TriangleExact ==
    ASSUME NEW K \in Int, NEW B \in Int, NEW C \in Int, NEW X \in Int, NEW Y \in Int, NEW D \in Int,
           NEW px \in Int, NEW py \in Int, NEW qx \in Int, NEW qy \in Int, NEW rx \in Int, NEW ry \in Int,
           NEW k \in Int, NEW a \in Int, NEW b \in Int, NEW f1 \in Int, NEW f2 \in Int, NEW f3 \in Int,
           OfTriangle(px, py, qx, qy, rx, ry, f1, f2, f3, K, B, C),
           Brought(px, qx, rx, a, b, k, X, D), Brought(py, qy, ry, a, b, k, Y, D)
    PROVE  FitThree(f1, f2, f3, k, a, b, K, B, C, X, Y, D)
<1>0. PICK x0 \in Int, y0 \in Int, x1 \in Int, y1 \in Int :
        /\ x0 = qx - px /\ y0 = qy - py /\ x1 = rx - px /\ y1 = ry - py
        /\ f1 = K + B * px + C * py
        /\ f2 = K + B * (px + x0) + C * (py + y0) /\ f3 = K + B * (px + x1) + C * (py + y1)
        /\ x0 * a + x1 * b = k * (X - px * D) /\ y0 * a + y1 * b = k * (Y - py * D)
  <2>1. PICK x0 \in Int, y0 \in Int, x1 \in Int, y1 \in Int :
          x0 = qx - px /\ y0 = qy - py /\ x1 = rx - px /\ y1 = ry - py
    OBVIOUS
  <2>2. px + x0 = qx /\ py + y0 = qy /\ px + x1 = rx /\ py + y1 = ry
    BY <2>1
  <2>3. x0 * a + x1 * b = k * (X - px * D) /\ y0 * a + y1 * b = k * (Y - py * D)
    BY <2>1 DEF Brought
  <2>4. /\ f1 = K + B * px + C * py
        /\ f2 = K + B * (px + x0) + C * (py + y0) /\ f3 = K + B * (px + x1) + C * (py + y1)
    BY <2>2 DEF OfTriangle
  <2> QED
    BY <2>1, <2>3, <2>4
<1>1. PICK r \in Int, u \in Int : r = x0 * a + x1 * b /\ u = y0 * a + y1 * b
  OBVIOUS
<1>2. f1 * (k * D - a - b) + f2 * a + f3 * b = (f1 * k) * D + B * r + C * u
  BY <1>0, <1>1
<1>3. B * r = k * (B * X) - ((k * B) * px) * D /\ C * u = k * (C * Y) - ((k * C) * py) * D
  <2>1. B * (k * (X - px * D)) = k * (B * X) - ((k * B) * px) * D
    OBVIOUS
  <2>2. C * (k * (Y - py * D)) = k * (C * Y) - ((k * C) * py) * D
    OBVIOUS
  <2> QED
    BY <1>0, <1>1, <2>1, <2>2
<1>4. (f1 * k) * D = (K * k) * D + ((k * B) * px) * D + ((k * C) * py) * D
  BY <1>0
<1>5. PICK q1 \in Int, q2 \in Int, q3 \in Int : q1 = ((k * B) * px) * D /\ q2 = ((k * C) * py) * D /\ q3 = (K * k) * D
  OBVIOUS
<1>6. f1 * (k * D - a - b) + f2 * a + f3 * b = q3 + k * (B * X) + k * (C * Y)
  <2>1. PICK z1 \in Int, z2 \in Int, z3 \in Int : z1 = (f1 * k) * D /\ z2 = B * r /\ z3 = C * u
    OBVIOUS
  <2>2. PICK m1 \in Int, m2 \in Int : m1 = k * (B * X) /\ m2 = k * (C * Y)
    OBVIOUS
  <2>3. z1 = q3 + q1 + q2
    BY <1>4, <1>5, <2>1, Zenon
  <2>4. z2 = m1 - q1 /\ z3 = m2 - q2
    BY <1>3, <1>5, <2>1, <2>2, Zenon
  <2>5. z1 + z2 + z3 = q3 + m1 + m2
    BY <2>3, <2>4
  <2>6. f1 * (k * D - a - b) + f2 * a + f3 * b = z1 + z2 + z3
    BY <1>2, <2>1, Zenon
  <2> QED
    BY <2>2, <2>5, <2>6, Zenon
<1>7. D * ((K * k) * D + k * (B * X) + k * (C * Y)) = (k * D) * (K * D + B * X + C * Y)
  OBVIOUS
<1> QED
  BY <1>5, <1>6, <1>7 DEF FitThree

LEMMA TriangleBrings ==
    ASSUME NEW p, Sound(p), p.kind = "mesh2d", NEW t \in DOMAIN p.triangles,
           NEW X \in Int, NEW Y \in Int, NEW D \in Nat
    PROVE  LET c(k) == p.points[p.triangles[t][k]]
               w == Barycentric(p, t, X, Y, D) IN
           \E k \in Int :
              /\ w.whole = k * D /\ w.a \in Int /\ w.b \in Int
              /\ Brought(c(1)[1], c(2)[1], c(3)[1], w.a, w.b, k, X, D)
              /\ Brought(c(1)[2], c(2)[2], c(3)[2], w.a, w.b, k, Y, D)
<1> DEFINE c == [k \in 1..3 |-> p.points[p.triangles[t][k]]]
           v0 == From(c[1], c[2])
           v1 == From(c[1], c[3])
           v2 == <<X - c[1][1] * D, Y - c[1][2] * D>>
           sign == IF Cross(v0, v1) < 0 THEN -1 ELSE 1
           w == Barycentric(p, t, X, Y, D)
<1>1. c[1] \in Int \X Int /\ c[2] \in Int \X Int /\ c[3] \in Int \X Int
  BY TriangleIs
<1>2. c[1] = p.points[p.triangles[t][1]] /\ c[2] = p.points[p.triangles[t][2]] /\ c[3] = p.points[p.triangles[t][3]]
  OBVIOUS
<1>3. w = [whole |-> Abs(Cross(v0, v1)) * D, a |-> sign * Cross(v2, v1), b |-> sign * Cross(v0, v2)]
  BY DEF Barycentric
<1> HIDE DEF c
<1>4. PICK x0 \in Int, y0 \in Int, x1 \in Int, y1 \in Int, x2 \in Int, y2 \in Int :
        /\ v0 = <<x0, y0>> /\ v1 = <<x1, y1>> /\ v2 = <<x2, y2>>
        /\ x0 = c[2][1] - c[1][1] /\ y0 = c[2][2] - c[1][2]
        /\ x1 = c[3][1] - c[1][1] /\ y1 = c[3][2] - c[1][2]
        /\ x2 = X - c[1][1] * D /\ y2 = Y - c[1][2] * D
  <2>1. /\ c[1][1] \in Int /\ c[1][2] \in Int /\ c[2][1] \in Int /\ c[2][2] \in Int
        /\ c[3][1] \in Int /\ c[3][2] \in Int
    BY <1>1
  <2>2. c[1][1] * D \in Int /\ c[1][2] * D \in Int
    BY <2>1
  <2>3. /\ v0 = <<c[2][1] - c[1][1], c[2][2] - c[1][2]>> /\ v1 = <<c[3][1] - c[1][1], c[3][2] - c[1][2]>>
        /\ v2 = <<X - c[1][1] * D, Y - c[1][2] * D>>
    BY DEF From
  <2>4. /\ c[2][1] - c[1][1] \in Int /\ c[2][2] - c[1][2] \in Int
        /\ c[3][1] - c[1][1] \in Int /\ c[3][2] - c[1][2] \in Int
        /\ X - c[1][1] * D \in Int /\ Y - c[1][2] * D \in Int
    BY <2>1, <2>2
  <2> HIDE DEF v0, v1, v2
  <2> QED
    BY <2>3, <2>4
<1> HIDE DEF v0, v1, v2
<1>5. PICK z \in Int, g \in Int, h \in Int : z = x0 * y1 - x1 * y0 /\ g = x2 * y1 - x1 * y2 /\ h = x0 * y2 - x2 * y0
  OBVIOUS
<1>6. Cross(v0, v1) = z /\ Cross(v2, v1) = g /\ Cross(v0, v2) = h
  BY <1>4, <1>5 DEF Cross
<1>7. x0 * g + x1 * h = z * x2 /\ y0 * g + y1 * h = z * y2
  BY <1>5, ThreeExact
<1>8. sign \in {1, -1} /\ Abs(z) = sign * z
  BY <1>6 DEF Abs
<1> HIDE DEF sign
<1>9. PICK k \in Int, a \in Int, b \in Int : k = sign * z /\ a = sign * g /\ b = sign * h
  BY <1>8
<1>10. x0 * a + x1 * b = k * x2 /\ y0 * a + y1 * b = k * y2
  <2>1. CASE sign = 1
    BY <1>7, <1>9, <2>1
  <2>2. CASE sign = -1
    <3>1. a = -g /\ b = -h /\ k = -z
      BY <1>9, <2>2
    <3>2. /\ x0 * (-g) + x1 * (-h) = -(x0 * g + x1 * h) /\ (-z) * x2 = -(z * x2)
          /\ y0 * (-g) + y1 * (-h) = -(y0 * g + y1 * h) /\ (-z) * y2 = -(z * y2)
      OBVIOUS
    <3> QED
      BY <1>7, <3>1, <3>2
  <2> QED
    BY <1>8, <2>1, <2>2
<1>11. w.whole = k * D /\ w.a = a /\ w.b = b
  BY <1>3, <1>6, <1>8, <1>9
<1> HIDE DEF w
<1> QED
  BY <1>2, <1>4, <1>10, <1>11 DEF w, Brought

LEMMA MeshIsExact ==
    ASSUME NEW p, Sound(p), p.kind = "mesh2d", NEW name, Unloadable(p, name) = "no",
           NEW X \in Int, NEW Y \in Int, NEW D \in Nat, Is(MeshAtPoint(p, name, X, Y, D)),
           NEW K \in Int, NEW B \in Int, NEW C \in Int, Sloped(p, name, K, B, C)
    PROVE  Exact(MeshAtPoint(p, name, X, Y, D).value, K, B, C, X, Y, D)
<1> DEFINE v == Values(p, name)
           holds(w) == w.a >= 0 /\ w.b >= 0 /\ w.whole - w.a - w.b >= 0
           inside == {t \in DOMAIN p.triangles : holds(Barycentric(p, t, X, Y, D))}
           t == Min(inside)
           w == Barycentric(p, t, X, Y, D)
           n == p.triangles[t]
           sum == v[n[1]] * (w.whole - w.a - w.b) + v[n[2]] * w.a + v[n[3]] * w.b
<1>1. MeshAtPoint(p, name, X, Y, D) = IF inside = {} THEN Refused("outside")
                                      ELSE [value |-> <<sum, w.whole>>]
  BY DEF MeshAtPoint
<1>2. inside # {} /\ MeshAtPoint(p, name, X, Y, D).value = <<sum, w.whole>>
  <2> HIDE DEF inside, sum
  <2> QED
    BY <1>1 DEF Is, Refused
<1>3. t \in DOMAIN p.triangles
  <2>1. inside \subseteq Nat
    <3>1. p.triangles \in Seq(Seq(Nat))
      BY PayloadIs
    <3>2. DOMAIN p.triangles \subseteq Nat
      BY <3>1
    <3>3. inside \subseteq DOMAIN p.triangles
      BY Zenon
    <3> HIDE DEF inside
    <3> QED
      BY <3>2, <3>3
  <2>2. inside \subseteq DOMAIN p.triangles
    OBVIOUS
  <2> HIDE DEF inside
  <2> QED
    BY <1>2, <2>1, <2>2, LeastOf
<1> HIDE DEF t
<1>4. PICK px \in Int, py \in Int, qx \in Int, qy \in Int, rx \in Int, ry \in Int :
        /\ p.points[n[1]] = <<px, py>> /\ p.points[n[2]] = <<qx, qy>> /\ p.points[n[3]] = <<rx, ry>>
  <2>1. p.points[n[1]] \in Int \X Int /\ p.points[n[2]] \in Int \X Int /\ p.points[n[3]] \in Int \X Int
    BY <1>3, TriangleIs
  <2> HIDE DEF n
  <2>2. PICK px \in Int, py \in Int : p.points[n[1]] = <<px, py>>
    BY <2>1
  <2>3. PICK qx \in Int, qy \in Int : p.points[n[2]] = <<qx, qy>>
    BY <2>1
  <2>4. PICK rx \in Int, ry \in Int : p.points[n[3]] = <<rx, ry>>
    BY <2>1
  <2> QED
    BY <2>2, <2>3, <2>4
<1>5. PICK k \in Int, a \in Int, b \in Int :
        /\ w.whole = k * D /\ w.a = a /\ w.b = b
        /\ Brought(px, qx, rx, a, b, k, X, D) /\ Brought(py, qy, ry, a, b, k, Y, D)
  <2>1. PICK k \in Int :
          /\ w.whole = k * D /\ w.a \in Int /\ w.b \in Int
          /\ Brought(p.points[n[1]][1], p.points[n[2]][1], p.points[n[3]][1], w.a, w.b, k, X, D)
          /\ Brought(p.points[n[1]][2], p.points[n[2]][2], p.points[n[3]][2], w.a, w.b, k, Y, D)
    BY <1>3, TriangleBrings
  <2> HIDE DEF w, n
  <2> QED
    BY <1>4, <2>1
<1>6. /\ v[n[1]] = K + B * px + C * py /\ v[n[2]] = K + B * qx + C * qy
      /\ v[n[3]] = K + B * rx + C * ry
  <2>1. n[1] \in Valid(p, name) /\ n[2] \in Valid(p, name) /\ n[3] \in Valid(p, name)
    BY <1>3, CornerIsSolved
  <2>2. Points(p) = p.points
    BY DEF Points
  <2>3. \A i \in Valid(p, name) : v[i] = K + B * p.points[i][1] + C * p.points[i][2]
    BY <2>2 DEF Sloped
  <2> HIDE DEF n, v
  <2> QED
    BY <1>4, <2>1, <2>3
<1> HIDE DEF v, n, w
<1>7. PICK f1 \in Int, f2 \in Int, f3 \in Int : f1 = v[n[1]] /\ f2 = v[n[2]] /\ f3 = v[n[3]]
  <2>1. /\ K + B * px + C * py \in Int /\ K + B * qx + C * qy \in Int
        /\ K + B * rx + C * ry \in Int
    OBVIOUS
  <2> QED
    BY <1>6, <2>1
<1>8. OfTriangle(px, py, qx, qy, rx, ry, f1, f2, f3, K, B, C)
  BY <1>6, <1>7 DEF OfTriangle
<1>9. FitThree(f1, f2, f3, k, a, b, K, B, C, X, Y, D)
  <2>1. D \in Int
    OBVIOUS
  <2> QED
    BY <1>5, <1>8, <2>1, TriangleExact
<1>12. D * sum = w.whole * (K * D + B * X + C * Y)
  BY <1>5, <1>7, <1>9 DEF FitThree
<1> HIDE DEF sum
<1> QED
  BY <1>2, <1>12 DEF Exact

LEMMA AtPointIsExact ==
    ASSUME NEW p, Sound(p), NEW name, Unloadable(p, name) = "no",
           NEW X \in Int, NEW Y \in Int, NEW D \in Nat \ {0}, Is(AtPoint(p, name, X, Y, D)),
           NEW K \in Int, NEW B \in Int, NEW C \in Int, Sloped(p, name, K, B, C)
    PROVE  Exact(AtPoint(p, name, X, Y, D).value, K, B, C, X, Y, D)
<1>1. CASE p.kind = "grid2d"
  BY <1>1, GridIsExact DEF AtPoint
<1>2. CASE p.kind = "mesh2d"
  BY <1>2, MeshIsExact DEF AtPoint
<1> QED
  BY <1>1, <1>2, PayloadIs

-----------------------------------------------------------------------------
(* Many points *)

\* What an answer with many values is: within its ceiling, each amid what was solved.
Reading(p, name, a, ceiling) ==
    /\ \A k \in DOMAIN a.values : Amid(p, name, Valid(p, name), a.values[k])
    /\ Len(a.values) = Len(a.at) /\ Len(a.at) \in 1..ceiling

InOrder(a) == \A i, k \in DOMAIN a.at : i < k => a.at[i] < a.at[k]

LEMMA LengthIs ==
    ASSUME NEW n \in Nat, NEW s, s = [i \in 1..n |-> s[i]]
    PROVE  Len(s) = n
<1> DEFINE T == {s[i] : i \in 1..n}
<1>1. s \in [1..n -> T]
  OBVIOUS
<1> HIDE DEF T
<1>2. s \in Seq(T) /\ DOMAIN s = 1..n
  BY <1>1
<1>3. Len(s) \in Nat /\ DOMAIN s = 1..Len(s)
  BY <1>2
<1> QED
  BY <1>2, <1>3

LEMMA RefusalIs == \A why : ~Is(Refused(why))
BY DEF Is, Refused

LEMMA ManyAre ==
    ASSUME NEW S, IsFiniteSet(S), S \subseteq Int
    PROVE  /\ Cardinality(S) \in Nat /\ DOMAIN Ascending(S) = 1..Cardinality(S)
           /\ Len(Ascending(S)) = Cardinality(S)
           /\ S # {} <=> Cardinality(S) >= 1
           /\ S # {} <=> Ascending(S) # <<>>
<1>1. Cardinality(S) \in Nat /\ DOMAIN Ascending(S) = 1..Cardinality(S)
  BY AscendingIs
<1>2. Len(Ascending(S)) = Cardinality(S)
  BY <1>1, LengthIs DEF Ascending
<1>3. S # {} <=> Cardinality(S) >= 1
  BY <1>1, FS_EmptySet
<1>4. S # {} <=> Ascending(S) # <<>>
  <2>1. CASE S = {}
    <3>1. Cardinality(S) = 0 /\ 1..0 = {}
      BY <2>1, FS_EmptySet
    <3>2. Ascending(S) = [k \in {} |-> CHOOSE i \in S : Cardinality({j \in S : j <= i}) = k]
      BY <3>1 DEF Ascending
    <3> QED
      BY <2>1, <3>2
  <2>2. CASE S # {}
    <3>1. 1 \in DOMAIN Ascending(S)
      BY <1>1, <1>3, <2>2
    <3> QED
      BY <2>2, <3>1
  <2> QED
    BY <2>1, <2>2
<1> QED
  BY <1>1, <1>2, <1>3, <1>4

\* A section is asked for point by point, and keeps what is answered.
Asked(p, name, q) ==
    LET count == Budget(q.samples, MaxSamples) IN
    {k \in 0..(count - 1) : Is(SectionAt(p, name, q, count, k))}

LEMMA SectionMade ==
    ASSUME NEW p, NEW name, NEW q \in Query, Is(Section(p, name, q))
    PROVE  LET count == Budget(q.samples, MaxSamples)
               kept == Ascending(Asked(p, name, q)) IN
           /\ Section(p, name, q) =
                 [values |-> [i \in DOMAIN kept |-> SectionAt(p, name, q, count, kept[i]).value],
                  at |-> kept, requested |-> count, skipped |-> count - Len(kept)]
           /\ count \in 1..MaxSamples /\ kept # <<>>
           /\ IsFiniteSet(Asked(p, name, q)) /\ Asked(p, name, q) \subseteq 0..(count - 1)
           /\ Cardinality(Asked(p, name, q)) <= count
           /\ \A i \in DOMAIN kept : kept[i] \in Asked(p, name, q)
<1> DEFINE count == Budget(q.samples, MaxSamples)
           S == Asked(p, name, q)
           kept == Ascending(S)
           values == [i \in DOMAIN kept |-> SectionAt(p, name, q, count, kept[i]).value]
<1>1. Section(p, name, q) =
         IF q.samples # Unsaid /\ q.samples < 1 THEN Refused("budget")
         ELSE IF kept = <<>> THEN Refused("nothing solved")
         ELSE [values |-> values, at |-> kept, requested |-> count, skipped |-> count - Len(kept)]
  BY DEF Section, Asked
<1> HIDE DEF S
<1>2. /\ ~(q.samples # Unsaid /\ q.samples < 1) /\ kept # <<>>
      /\ Section(p, name, q) =
            [values |-> values, at |-> kept, requested |-> count, skipped |-> count - Len(kept)]
  <2> HIDE DEF kept, values, count
  <2>1. ~(q.samples # Unsaid /\ q.samples < 1)
    BY <1>1, RefusalIs
  <2>2. kept # <<>>
    BY <1>1, <2>1, RefusalIs
  <2> QED
    BY <1>1, <2>1, <2>2
<1>3. count \in 1..MaxSamples
  <2>1. q.samples \in Int
    BY DEF Query
  <2>2. q.samples = Unsaid \/ q.samples >= 1
    BY <1>2, <2>1 DEF Unsaid
  <2> QED
    BY <2>1, <2>2, BudgetIs
<1>4. S \subseteq 0..(count - 1)
  BY DEF S, Asked
<1> HIDE DEF count
<1>5. IsFiniteSet(S) /\ S \subseteq Int /\ Cardinality(S) <= count
  <2>1. IsFiniteSet(0..(count - 1)) /\ Cardinality(0..(count - 1)) = count
    BY <1>3, FS_Interval
  <2>2. Cardinality(S) <= Cardinality(0..(count - 1)) /\ IsFiniteSet(S)
    BY <1>4, <2>1, FS_Subset
  <2> QED
    BY <1>4, <2>1, <2>2
<1>6. \A i \in DOMAIN kept : kept[i] \in S
  BY <1>5, ManyAre, AscendingIs
<1> HIDE DEF kept
<1> QED
  BY <1>2, <1>3, <1>4, <1>5, <1>6 DEF S, count, kept

LEMMA SectionReads ==
    ASSUME NEW p, NEW name, NEW q \in Query, Is(Section(p, name, q))
    PROVE  LET r == Section(p, name, q)
               at(k) == SectionAt(p, name, q, r.requested, k) IN
           /\ r.requested \in 1..MaxSamples
           /\ \A i \in DOMAIN r.at :
                 /\ r.at[i] \in Int /\ Is(at(r.at[i])) /\ r.values[i] = at(r.at[i]).value
<1> DEFINE count == Budget(q.samples, MaxSamples)
           S == Asked(p, name, q)
           kept == Ascending(S)
<1>1. \A k \in S : k \in Int /\ Is(SectionAt(p, name, q, count, k))
  BY DEF Asked
<1> HIDE DEF S
<1>2. /\ Section(p, name, q) =
            [values |-> [i \in DOMAIN kept |-> SectionAt(p, name, q, count, kept[i]).value],
             at |-> kept, requested |-> count, skipped |-> count - Len(kept)]
      /\ count \in 1..MaxSamples /\ \A i \in DOMAIN kept : kept[i] \in S
  BY SectionMade DEF S
<1> HIDE DEF count, kept
<1>3. /\ Section(p, name, q).requested = count /\ Section(p, name, q).at = kept
      /\ \A i \in DOMAIN kept :
            Section(p, name, q).values[i] = SectionAt(p, name, q, count, kept[i]).value
  BY <1>2
<1> QED
  BY <1>1, <1>2, <1>3

LEMMA SectionIs ==
    ASSUME NEW p, Sound(p), NEW name, Unloadable(p, name) = "no", NEW q \in Query,
           Len(q.from) = 2, Len(q.to) = 2, Is(Section(p, name, q))
    PROVE  /\ Reading(p, name, Section(p, name, q), MaxSamples) /\ InOrder(Section(p, name, q))
           /\ Section(p, name, q).skipped + Len(Section(p, name, q).at)
                = Section(p, name, q).requested
<1> DEFINE count == Budget(q.samples, MaxSamples)
           S == Asked(p, name, q)
           kept == Ascending(S)
           values == [i \in DOMAIN kept |-> SectionAt(p, name, q, count, kept[i]).value]
<1>2. /\ kept # <<>>
      /\ Section(p, name, q) =
            [values |-> values, at |-> kept, requested |-> count, skipped |-> count - Len(kept)]
  BY SectionMade
<1>3. count \in 1..MaxSamples
  BY SectionMade
<1>4. \A k \in S : k \in 0..(count - 1) /\ Is(SectionAt(p, name, q, count, k))
  BY DEF Asked
<1> HIDE DEF count, S
<1>6. IsFiniteSet(S) /\ S \subseteq Int /\ Cardinality(S) <= count
  <2>1. S \subseteq 0..(count - 1) /\ IsFiniteSet(S) /\ Cardinality(S) <= count
    BY SectionMade DEF S, count
  <2> QED
    BY <1>3, <2>1
<1>7. /\ Cardinality(S) \in Nat /\ DOMAIN kept = 1..Cardinality(S) /\ Len(kept) = Cardinality(S)
      /\ Cardinality(S) >= 1
  BY <1>2, <1>6, ManyAre
<1>8. /\ \A k \in DOMAIN kept : kept[k] \in S
      /\ \A i, k \in DOMAIN kept : i < k => kept[i] < kept[k]
  BY <1>6, <1>7, AscendingIs
<1> HIDE DEF kept
<1>9. \A k \in S : Amid(p, name, Valid(p, name), SectionAt(p, name, q, count, k).value)
  <2> SUFFICES ASSUME NEW k \in S
               PROVE  Amid(p, name, Valid(p, name), SectionAt(p, name, q, count, k).value)
    OBVIOUS
  <2> DEFINE D == IF count > 1 THEN count - 1 ELSE 1
             X == q.from[1] * D + k * (q.to[1] - q.from[1])
             Y == q.from[2] * D + k * (q.to[2] - q.from[2])
  <2>1. D \in Nat \ {0} /\ k \in Int
    BY <1>3, <1>4
  <2>2. q.from \in Seq(Int) /\ q.to \in Seq(Int)
    BY DEF Query
  <2>3. q.from[1] \in Int /\ q.from[2] \in Int /\ q.to[1] \in Int /\ q.to[2] \in Int
    BY <2>2
  <2>4. SectionAt(p, name, q, count, k) = AtPoint(p, name, X, Y, D)
    BY DEF SectionAt
  <2> HIDE DEF D
  <2>5. X \in Int /\ Y \in Int
    <3>1. q.to[1] - q.from[1] \in Int /\ q.to[2] - q.from[2] \in Int
      BY <2>3
    <3>2. k * (q.to[1] - q.from[1]) \in Int /\ k * (q.to[2] - q.from[2]) \in Int
      BY <2>1, <3>1, Products
    <3>3. q.from[1] * D \in Int /\ q.from[2] * D \in Int
      BY <2>1, <2>3
    <3> QED
      BY <3>2, <3>3
  <2> HIDE DEF X, Y
  <2>6. Is(AtPoint(p, name, X, Y, D))
    BY <1>4, <2>4
  <2> QED
    BY <2>1, <2>4, <2>5, <2>6, AtPointIs
<1>10. \A k \in DOMAIN values : Amid(p, name, Valid(p, name), values[k])
  BY <1>8, <1>9
<1>11. Len(values) = Cardinality(S)
  <2>1. values = [i \in 1..Cardinality(S) |-> values[i]]
    BY <1>7
  <2> HIDE DEF values
  <2> QED
    BY <1>7, <2>1, LengthIs
<1> HIDE DEF values
<1>12. Cardinality(S) \in 1..MaxSamples
  BY <1>3, <1>6, <1>7
<1>13. count - Len(kept) + Len(kept) = count
  BY <1>3, <1>7
<1> QED
  BY <1>2, <1>7, <1>8, <1>10, <1>11, <1>12, <1>13 DEF Reading, InOrder

LEMMA SpreadIs ==
    ASSUME NEW x \in Nat, NEW y \in Nat, NEW w \in Nat, w > 0, x + w <= y
    PROVE  x \div w < y \div w
<1>1. PICK a \in Nat, b \in Nat : a = x \div w /\ b = y \div w
  BY DivIs
<1>2. a * w <= x /\ y < b * w + w
  BY <1>1, DivIs
<1>3. CASE b <= a
  <2>1. b * w <= a * w
    BY <1>3, Orders
  <2>2. PICK i \in Nat, k \in Nat : i = a * w /\ k = b * w
    OBVIOUS
  <2> QED
    BY <1>2, <2>1, <2>2
<1> QED
  BY <1>1, <1>3

\* Numbers from 1 to n, all of them different, with both ends.
Evenly(even, count, n) ==
    /\ \A k \in 1..count : even[k] \in 1..n
    /\ \A i, k \in 1..count : i < k => even[i] < even[k]
    /\ even[1] = 1 /\ even[count] = n

LEMMA EvenIs ==
    ASSUME NEW n \in Nat, NEW count \in Nat, count > 1, n > count,
           NEW even, \A k \in 1..count : even[k] = ((k - 1) * (n - 1)) \div (count - 1) + 1
    PROVE  Evenly(even, count, n)
<1>1. PICK m \in Nat, c \in Nat : m = n - 1 /\ c = count - 1
  OBVIOUS
<1>2. c > 0 /\ c < m
  BY <1>1
<1> DEFINE x(k) == (k - 1) * m
<1>3. \A k \in 1..count : even[k] = x(k) \div c + 1
  BY <1>1
<1>4. \A k \in 1..count : x(k) \in Nat /\ x(k) <= c * m
  <2> SUFFICES ASSUME NEW k \in 1..count
               PROVE  x(k) \in Nat /\ x(k) <= c * m
    OBVIOUS
  <2>1. PICK i \in Nat : i = k - 1
    OBVIOUS
  <2>2. i <= c
    BY <1>1, <2>1
  <2>3. i * m <= c * m /\ i * m \in Nat
    BY <2>2, Orders, Positive
  <2> QED
    BY <2>1, <2>3
<1>5. \A i, k \in 1..count : i < k => x(i) + c <= x(k)
  <2> SUFFICES ASSUME NEW i \in 1..count, NEW k \in 1..count, i < k
               PROVE  x(i) + c <= x(k)
    OBVIOUS
  <2>1. PICK a \in Nat, b \in Nat : a = i - 1 /\ b = k - 1
    OBVIOUS
  <2>2. a + 1 <= b
    BY <2>1
  <2>3. (a + 1) * m <= b * m
    BY <2>2, Orders
  <2>4. (a + 1) * m = a * m + m
    OBVIOUS
  <2>5. PICK e \in Int, f \in Int : e = a * m /\ f = b * m
    OBVIOUS
  <2> QED
    BY <1>2, <2>1, <2>3, <2>4, <2>5
<1>6. x(1) = 0 /\ x(count) = c * m
  BY <1>1
<1> HIDE DEF x
<1>7. \A i, k \in 1..count : i < k => even[i] < even[k]
  <2> SUFFICES ASSUME NEW i \in 1..count, NEW k \in 1..count, i < k
               PROVE  even[i] < even[k]
    OBVIOUS
  <2>1. x(i) \div c < x(k) \div c
    BY <1>2, <1>4, <1>5, SpreadIs
  <2>2. x(i) \div c \in Nat /\ x(k) \div c \in Nat
    BY <1>2, <1>4, DivIs
  <2> QED
    BY <1>3, <2>1, <2>2
<1>8. even[1] = 1
  <2>1. 0 \div c = 0
    BY <1>2
  <2>2. 1 \in 1..count
    OBVIOUS
  <2> QED
    BY <1>3, <1>6, <2>1, <2>2
<1>9. (c * m) \div c = m
  <2>1. PICK y \in Nat, q \in Nat : y = c * m /\ q = y \div c
    <3>1. c * m \in Nat
      BY Positive
    <3> QED
      BY <1>2, <3>1, DivIs
  <2>2. q * c <= y /\ y < q * c + c
    BY <1>2, <2>1, DivIs
  <2>3. y = m * c
    BY <2>1
  <2>4. CASE q < m
    <3>1. (q + 1) * c <= m * c
      BY <2>4, Orders
    <3>2. (q + 1) * c = q * c + c
      OBVIOUS
    <3>3. PICK e \in Int, f \in Int : e = q * c /\ f = m * c
      OBVIOUS
    <3> QED
      BY <2>2, <2>3, <3>1, <3>2, <3>3
  <2>5. CASE q > m
    <3>1. (m + 1) * c <= q * c
      BY <2>5, Orders
    <3>2. (m + 1) * c = m * c + c
      OBVIOUS
    <3>3. PICK e \in Int, f \in Int : e = q * c /\ f = m * c
      OBVIOUS
    <3> QED
      BY <1>2, <2>2, <2>3, <3>1, <3>2, <3>3
  <2> QED
    BY <2>1, <2>4, <2>5
<1>10. even[count] = n
  <2>1. count \in 1..count
    OBVIOUS
  <2>2. even[count] = x(count) \div c + 1
    BY <1>3, <2>1
  <2>3. x(count) \div c = m
    BY <1>6, <1>9
  <2> QED
    BY <1>1, <2>2, <2>3
<1>11. \A k \in 1..count : even[k] \in 1..n
  <2> SUFFICES ASSUME NEW k \in 1..count
               PROVE  even[k] \in 1..n
    OBVIOUS
  <2>1. even[k] \in Nat \ {0}
    <3>1. x(k) \div c \in Nat
      BY <1>2, <1>4, DivIs
    <3> QED
      BY <1>3, <3>1
  <2>2. k = count \/ even[k] < even[count]
    BY <1>7
  <2> QED
    BY <1>10, <2>1, <2>2
<1> QED
  BY <1>7, <1>8, <1>10, <1>11 DEF Evenly

LEMMA EndsAre ==
    ASSUME NEW S, IsFiniteSet(S), S \subseteq Int, S # {}
    PROVE  Ascending(S)[1] = Min(S) /\ Ascending(S)[Cardinality(S)] = Max(S)
<1> DEFINE c == Cardinality(S)
           a == Ascending(S)
<1>1. c \in Nat /\ c >= 1
  BY ManyAre
<1>2. /\ \A k \in 1..c : a[k] \in S
      /\ \A i, k \in 1..c : i < k => a[i] < a[k]
      /\ \A x \in S : \E k \in 1..c : a[k] = x
  BY AscendingIs
<1> HIDE DEF c, a
<1>3. a[1] \in Int /\ a[c] \in Int /\ a[1] \in S /\ a[c] \in S
  <2>1. 1 \in 1..c /\ c \in 1..c
    BY <1>1
  <2>2. a[1] \in S /\ a[c] \in S
    BY <1>2, <2>1
  <2> QED
    BY <2>2
<1>4. ASSUME NEW x \in S
      PROVE  x \in Int /\ a[1] <= x /\ x <= a[c]
  <2>1. PICK k \in 1..c : a[k] = x
    BY <1>2
  <2>2. x \in Int /\ (k = 1 \/ 1 < k) /\ (k = c \/ k < c) /\ 1 \in 1..c /\ c \in 1..c
    BY <1>1
  <2>3. a[1] <= x
    BY <1>2, <1>3, <2>1, <2>2
  <2>4. x <= a[c]
    BY <1>2, <1>3, <2>1, <2>2
  <2> QED
    BY <2>2, <2>3, <2>4
<1>5. Min(S) = a[1]
  <2>1. Min(S) \in S /\ \A y \in S : Min(S) <= y
    BY <1>3, <1>4 DEF Min
  <2>2. PICK m : m = Min(S)
    OBVIOUS
  <2>3. m \in Int /\ a[1] <= m /\ m <= a[1]
    BY <1>3, <1>4, <2>1, <2>2
  <2> QED
    BY <1>3, <2>2, <2>3
<1>6. Max(S) = a[c]
  <2>1. Max(S) \in S /\ \A y \in S : Max(S) >= y
    <3>1. \E x \in S : \A y \in S : x >= y
      BY <1>3, <1>4
    <3> QED
      BY <3>1 DEF Max
  <2>2. PICK m : m = Max(S)
    OBVIOUS
  <2>3. m \in Int /\ m <= a[c] /\ m >= a[c]
    BY <1>3, <1>4, <2>1, <2>2
  <2> QED
    BY <1>3, <2>2, <2>3
<1> QED
  BY <1>5, <1>6 DEF a, c

\* The points a sample takes of those that were solved.
Taken(S, count) ==
    LET live == Ascending(S)
        n == Len(live)
        even(k) == IF count = 1 THEN 1 ELSE ((k - 1) * (n - 1)) \div (count - 1) + 1 IN
    IF n > count THEN [k \in 1..count |-> live[even(k)]] ELSE live

\* They are some of them in order, both ends if there is more than one.
TakenFrom(kept, S, ceiling) ==
    /\ Len(kept) \in 1..ceiling /\ kept = [k \in 1..Len(kept) |-> kept[k]]
    /\ \A k \in 1..Len(kept) : kept[k] \in S
    /\ \A i, k \in 1..Len(kept) : i < k => kept[i] < kept[k]
    /\ Len(kept) > 1 => kept[1] = Min(S) /\ kept[Len(kept)] = Max(S)

LEMMA TakenIs ==
    ASSUME NEW S, IsFiniteSet(S), S \subseteq Int, S # {},
           NEW ceiling \in Nat, NEW count \in 1..ceiling
    PROVE  TakenFrom(Taken(S, count), S, ceiling)
<1> DEFINE live == Ascending(S)
           n == Len(live)
           step(k) == IF count = 1 THEN 1 ELSE ((k - 1) * (n - 1)) \div (count - 1) + 1
           kept == IF n > count THEN [k \in 1..count |-> live[step(k)]] ELSE live
<1>1. kept = Taken(S, count)
  BY DEF Taken
<1>2. n \in Nat /\ n >= 1 /\ DOMAIN live = 1..n /\ n = Cardinality(S)
  BY ManyAre
<1>3. /\ \A k \in 1..n : live[k] \in S
      /\ \A i, k \in 1..n : i < k => live[i] < live[k]
  BY <1>2, AscendingIs
<1>4. live[1] = Min(S) /\ live[n] = Max(S)
  BY <1>2, EndsAre
<1>5. ASSUME NEW long \in 1..ceiling, kept = [k \in 1..long |-> kept[k]],
             \A k \in 1..long : kept[k] \in S,
             \A i, k \in 1..long : i < k => kept[i] < kept[k],
             long > 1 => kept[1] = Min(S) /\ kept[long] = Max(S)
      PROVE  TakenFrom(kept, S, ceiling)
  <2> HIDE DEF kept
  <2>1. Len(kept) = long
    BY <1>5, LengthIs
  <2> QED
    BY <1>5, <2>1 DEF TakenFrom
<1>6. CASE n > count
  <2>1. PICK even : even = [k \in 1..count |-> step(k)]
    OBVIOUS
  <2>2. /\ \A k \in 1..count : even[k] \in 1..n
        /\ \A i, k \in 1..count : i < k => even[i] < even[k]
        /\ count > 1 => even[1] = 1 /\ even[count] = n
    <3>1. CASE count = 1
      BY <1>2, <2>1, <3>1
    <3>2. CASE count > 1
      <4>1. \A k \in 1..count : even[k] = ((k - 1) * (n - 1)) \div (count - 1) + 1
        BY <2>1, <3>2
      <4>2. n \in Nat /\ count \in Nat
        BY <1>2
      <4> HIDE DEF n
      <4>3. Evenly(even, count, n)
        BY <1>6, <3>2, <4>1, <4>2, EvenIs
      <4> QED
        BY <4>3 DEF Evenly
    <3> QED
      BY <3>1, <3>2
  <2>3. kept = [k \in 1..count |-> live[even[k]]]
    BY <1>6, <2>1
  <2> HIDE DEF kept, live, n
  <2>4. \A k \in 1..count : kept[k] = live[even[k]]
    BY <2>3
  <2>5. \A k \in 1..count : kept[k] \in S
    BY <1>3, <2>2, <2>4
  <2>6. \A i, k \in 1..count : i < k => kept[i] < kept[k]
    BY <1>3, <2>2, <2>4
  <2>7. count > 1 => kept[1] = Min(S) /\ kept[count] = Max(S)
    <3>1. 1 \in 1..count /\ count \in 1..count
      OBVIOUS
    <3> QED
      BY <1>4, <2>2, <2>4, <3>1
  <2>8. kept = [k \in 1..count |-> kept[k]]
    BY <2>3
  <2> QED
    BY <1>1, <1>5, <2>5, <2>6, <2>7, <2>8
<1>7. CASE ~(n > count)
  <2>1. kept = live /\ n \in 1..ceiling
    BY <1>2, <1>7
  <2>2. live = [k \in 1..n |-> live[k]]
    <3>1. live = [k \in 1..Cardinality(S) |-> live[k]]
      <4>1. \A m, f : f = [k \in 1..m |-> CHOOSE i \in S : Cardinality({j \in S : j <= i}) = k]
                    => f = [k \in 1..m |-> f[k]]
        OBVIOUS
      <4> QED
        BY <4>1 DEF Ascending
    <3> QED
      BY <1>2, <3>1
  <2> HIDE DEF kept, live, n
  <2> QED
    BY <1>1, <1>3, <1>4, <1>5, <2>1, <2>2
<1> QED
  BY <1>6, <1>7

\* A sample, of points that were taken.
Sampled(p, name, count) ==
    [values |-> [k \in DOMAIN Taken(Valid(p, name), count) |->
                    <<Values(p, name)[Taken(Valid(p, name), count)[k]], 1>>],
     at |-> Taken(Valid(p, name), count), of |-> Len(Ascending(Valid(p, name)))]

LEMMA SampleWas ==
    ASSUME NEW p, Sound(p), NEW name, Unloadable(p, name) = "no", NEW q \in Query
    PROVE  \/ \E why : /\ Sample(p, name, q) = Refused(why)
                       /\ \A r : Valid(r, name) = Valid(p, name) => Sample(r, name, q) = Refused(why)
           \/ /\ TakenFrom(Taken(Valid(p, name), Budget(q.samples, MaxSamples)), Valid(p, name), MaxSamples)
              /\ \A r : Valid(r, name) = Valid(p, name) =>
                    Sample(r, name, q) = Sampled(r, name, Budget(q.samples, MaxSamples))
<1> DEFINE refused == q.samples # Unsaid /\ q.samples < 1
           V == Valid(p, name)
<1>1. \A r : Sample(r, name, q) =
         IF refused THEN Refused("budget")
         ELSE IF Ascending(Valid(r, name)) = <<>> THEN Refused("nothing solved")
         ELSE Sampled(r, name, Budget(q.samples, MaxSamples))
  BY DEF Sample, Sampled, Taken
<1>2. IsFiniteSet(V) /\ V \subseteq Int
  BY FieldIs
<1> HIDE DEF V
<1>3. CASE refused
  BY <1>1, <1>3
<1>4. CASE ~refused /\ Ascending(V) = <<>>
  BY <1>1, <1>4 DEF V
<1>5. CASE ~refused /\ Ascending(V) # <<>>
  <2>1. q.samples \in Int
    BY DEF Query
  <2>2. q.samples = Unsaid \/ q.samples >= 1
    BY <1>5, <2>1 DEF Unsaid
  <2>3. Budget(q.samples, MaxSamples) \in 1..MaxSamples
    BY <2>1, <2>2, BudgetIs
  <2>4. V # {}
    BY <1>2, <1>5, ManyAre
  <2>5. TakenFrom(Taken(V, Budget(q.samples, MaxSamples)), V, MaxSamples)
    BY <1>2, <2>3, <2>4, TakenIs
  <2> QED
    BY <1>1, <1>5, <2>5 DEF V
<1> QED
  BY <1>3, <1>4, <1>5

LEMMA SampleIs ==
    ASSUME NEW p, Sound(p), NEW name, Unloadable(p, name) = "no", NEW q \in Query,
           Is(Sample(p, name, q))
    PROVE  /\ Reading(p, name, Sample(p, name, q), MaxSamples) /\ InOrder(Sample(p, name, q))
           /\ Len(Sample(p, name, q).at) > 1 =>
                /\ Sample(p, name, q).at[1] = Min(Valid(p, name))
                /\ Sample(p, name, q).at[Len(Sample(p, name, q).at)] = Max(Valid(p, name))
<1> DEFINE kept == Taken(Valid(p, name), Budget(q.samples, MaxSamples))
           values == [k \in DOMAIN kept |-> <<Values(p, name)[kept[k]], 1>>]
<1>1. /\ TakenFrom(kept, Valid(p, name), MaxSamples)
      /\ Sample(p, name, q) = Sampled(p, name, Budget(q.samples, MaxSamples))
  BY SampleWas, RefusalIs
<1>2. Sample(p, name, q).values = values /\ Sample(p, name, q).at = kept
  BY <1>1 DEF Sampled
<1> HIDE DEF kept
<1>3. PICK long \in 1..MaxSamples :
        /\ long = Len(kept) /\ DOMAIN kept = 1..long
        /\ \A k \in 1..long : kept[k] \in Valid(p, name)
        /\ \A i, k \in 1..long : i < k => kept[i] < kept[k]
        /\ long > 1 => kept[1] = Min(Valid(p, name)) /\ kept[long] = Max(Valid(p, name))
  BY <1>1 DEF TakenFrom
<1>4. \A k \in DOMAIN values : Amid(p, name, Valid(p, name), values[k])
  <2> SUFFICES ASSUME NEW k \in DOMAIN values
               PROVE  Amid(p, name, Valid(p, name), values[k])
    OBVIOUS
  <2>1. kept[k] \in Valid(p, name) /\ values[k] = <<Values(p, name)[kept[k]], 1>>
    BY <1>3
  <2> QED
    BY <2>1, ValueIsAmid
<1>5. Len(values) = long
  <2>1. values = [k \in 1..long |-> values[k]]
    BY <1>3
  <2> HIDE DEF values
  <2> QED
    BY <2>1, LengthIs
<1> HIDE DEF values
<1> QED
  BY <1>2, <1>3, <1>4, <1>5 DEF Reading, InOrder

\* What is said of a region: of solved points in it, the mean from the least to the
\* greatest of them.
LEMMA OverRegionIs ==
    ASSUME NEW p, Sound(p), NEW q, Unloadable(p, q.field) = "no", Is(OverRegion(p, q))
    PROVE  /\ Amid(p, q.field, Valid(p, q.field), OverRegion(p, q).value)
           /\ OverRegion(p, q).at \in InRegion(p, q) \cap Valid(p, q.field)
           /\ OverRegion(p, q).min * OverRegion(p, q).value[2] <= OverRegion(p, q).value[1]
           /\ OverRegion(p, q).value[1] <= OverRegion(p, q).max * OverRegion(p, q).value[2]
<1> DEFINE v == Values(p, q.field)
           V == Valid(p, q.field)
           S == InRegion(p, q) \cap V
           lo == First(p, q.field, S, -1)
           hi == First(p, q.field, S, 1)
<1>1. OverRegion(p, q) =
        IF S = {} THEN Refused("nothing solved")
        ELSE [count |-> Cardinality(S), min |-> v[lo], max |-> v[hi],
              value |-> <<SumFunctionOnSet(v, S), Cardinality(S)>>, at |-> hi]
  BY DEF OverRegion
<1>2. /\ S # {}
      /\ OverRegion(p, q) =
           [count |-> Cardinality(S), min |-> v[lo], max |-> v[hi],
            value |-> <<SumFunctionOnSet(v, S), Cardinality(S)>>, at |-> hi]
  <2> HIDE DEF S, lo, hi, v
  <2> QED
    BY <1>1, RefusalIs
<1>3. S \subseteq V /\ S \subseteq InRegion(p, q)
  OBVIOUS
<1> HIDE DEF S
<1>4. \A sign \in {1, -1} :
         /\ First(p, q.field, S, sign) \in S
         /\ \A k \in S : sign * v[k] <= sign * v[First(p, q.field, S, sign)]
  BY <1>2, <1>3, FirstIs
<1>5. \A k \in S : v[k] \in Int
  BY <1>3, FieldIs
<1>6. lo \in S /\ hi \in S /\ \A k \in S : v[lo] <= v[k] /\ v[k] <= v[hi]
  <2>1. /\ lo \in S /\ \A k \in S : (-1) * v[k] <= (-1) * v[lo]
        /\ hi \in S /\ \A k \in S : 1 * v[k] <= 1 * v[hi]
    BY <1>4
  <2> HIDE DEF lo, hi
  <2> QED
    BY <1>5, <2>1
<1> HIDE DEF lo, hi
<1>7. PICK a \in Int, b \in Int : a = v[lo] /\ b = v[hi]
  BY <1>5, <1>6
<1>8. /\ Amid(p, q.field, S, <<SumFunctionOnSet(v, S), Cardinality(S)>>)
      /\ a * Cardinality(S) <= SumFunctionOnSet(v, S)
      /\ SumFunctionOnSet(v, S) <= b * Cardinality(S)
  BY <1>2, <1>3, <1>6, <1>7, MeanIsAmid
<1>9. Amid(p, q.field, V, <<SumFunctionOnSet(v, S), Cardinality(S)>>)
  BY <1>3, <1>8 DEF Amid
<1> QED
  BY <1>2, <1>3, <1>6, <1>7, <1>8, <1>9

-----------------------------------------------------------------------------
(* Another filler *)

\* Two results of a grid that differ at most in what their masks hide.
Agree(p, r, name) ==
    /\ p.kind = "grid2d" /\ r.kind = "grid2d"
    /\ Columns(r) = Columns(p) /\ Rows(r) = Rows(p) /\ StepX(r) = StepX(p) /\ StepY(r) = StepY(p)
    /\ r.size = p.size /\ Points(r) = Points(p)
    /\ Valid(r, name) = Valid(p, name)
    /\ \A i \in Valid(p, name) : Values(r, name)[i] = Values(p, name)[i]

LEMMA FirstAgrees ==
    ASSUME NEW p, NEW r, NEW name, Agree(p, r, name), NEW S, S \subseteq Valid(p, name), NEW sign
    PROVE  First(r, name, S, sign) = First(p, name, S, sign)
<1>1. {i \in S : \A k \in S : sign * Values(r, name)[k] <= sign * Values(r, name)[i]}
        = {i \in S : \A k \in S : sign * Values(p, name)[k] <= sign * Values(p, name)[i]}
  <2>1. \A i \in S : Values(r, name)[i] = Values(p, name)[i]
    BY DEF Agree
  <2> QED
    BY <2>1
<1> QED
  BY <1>1 DEF First

LEMMA ExtremumAgrees ==
    ASSUME NEW p, Sound(p), NEW r, NEW name, Unloadable(p, name) = "no", Agree(p, r, name),
           NEW sign \in {1, -1}
    PROVE  Extremum(r, name, sign) = Extremum(p, name, sign)
<1>1. CASE Valid(p, name) = {}
  BY <1>1 DEF Extremum, Agree
<1>2. CASE Valid(p, name) # {}
  <2>1. First(r, name, Valid(r, name), sign) = First(p, name, Valid(p, name), sign)
    BY FirstAgrees DEF Agree
  <2>2. First(p, name, Valid(p, name), sign) \in Valid(p, name)
    BY <1>2, FirstIs
  <2>3. Values(r, name)[First(r, name, Valid(r, name), sign)]
          = Values(p, name)[First(p, name, Valid(p, name), sign)]
    BY <2>1, <2>2 DEF Agree
  <2>4. Valid(r, name) # {}
    BY <1>2 DEF Agree
  <2> QED
    BY <1>2, <2>1, <2>3, <2>4 DEF Extremum
<1> QED
  BY <1>1, <1>2

LEMMA MeanAgrees ==
    ASSUME NEW p, NEW r, NEW name, Agree(p, r, name)
    PROVE  Mean(r, name) = Mean(p, name)
<1>1. /\ p.kind = "grid2d" /\ r.kind = "grid2d" /\ Valid(r, name) = Valid(p, name)
      /\ \A i \in Valid(p, name) : Values(r, name)[i] = Values(p, name)[i]
  BY DEF Agree
<1>2. SumFunctionOnSet(Values(r, name), Valid(r, name)) = SumFunctionOnSet(Values(p, name), Valid(p, name))
  BY <1>1, SumsAgree
<1> DEFINE answer(x) ==
             IF Valid(x, name) = {} THEN Refused("nothing solved")
             ELSE [value |-> <<SumFunctionOnSet(Values(x, name), Valid(x, name)), Cardinality(Valid(x, name))>>]
<1>3. Mean(r, name) = answer(r) /\ Mean(p, name) = answer(p)
  BY <1>1 DEF Mean
<1>4. answer(r) = answer(p)
  BY <1>1, <1>2
<1> HIDE DEF answer
<1> QED
  BY <1>3, <1>4

LEMMA IntegralAgrees ==
    ASSUME NEW p, NEW r, NEW name, Agree(p, r, name)
    PROVE  Integral(r, name) = Integral(p, name)
<1> DEFINE part(x) == SumFunction([i \in Valid(x, name) |-> Values(x, name)[i] * Quadrature(x, i)])
           whole(x) == SumFunction([i \in Valid(x, name) |-> Quadrature(x, i)])
<1>1. /\ p.kind = "grid2d" /\ r.kind = "grid2d" /\ Valid(r, name) = Valid(p, name)
      /\ \A i \in Valid(p, name) : Values(r, name)[i] = Values(p, name)[i]
      /\ Columns(r) = Columns(p) /\ Rows(r) = Rows(p) /\ StepX(r) = StepX(p) /\ StepY(r) = StepY(p)
  BY DEF Agree
<1>2. \A i : Quadrature(r, i) = Quadrature(p, i)
  BY <1>1 DEF Quadrature
<1>3. /\ [i \in Valid(r, name) |-> Values(r, name)[i] * Quadrature(r, i)]
           = [i \in Valid(p, name) |-> Values(p, name)[i] * Quadrature(p, i)]
      /\ [i \in Valid(r, name) |-> Quadrature(r, i)] = [i \in Valid(p, name) |-> Quadrature(p, i)]
  BY <1>1, <1>2
<1>4. part(r) = part(p) /\ whole(r) = whole(p)
  BY <1>3
<1> DEFINE answer(x) ==
             IF Columns(x) < 2 \/ Rows(x) < 2 THEN Refused("degenerate grid")
             ELSE [value |-> <<(StepX(x) * StepY(x)) * part(x), 4>>,
                   area  |-> <<(StepX(x) * StepY(x)) * whole(x), 4>>]
<1>5. Integral(r, name) = answer(r) /\ Integral(p, name) = answer(p)
  BY <1>1 DEF Integral
<1> HIDE DEF part, whole
<1>6. answer(r) = answer(p)
  BY <1>1, <1>4
<1> HIDE DEF answer
<1> QED
  BY <1>5, <1>6

LEMMA PointAgrees ==
    ASSUME NEW p, NEW r, NEW name, Agree(p, r, name), NEW X, NEW Y, NEW D
    PROVE  AtPoint(r, name, X, Y, D) = AtPoint(p, name, X, Y, D)
<1> DEFINE c(x) == Stencil(x, X, Y, D)
           total(x) == Four([k \in 1..4 |-> IF c(x)[k].at \in Valid(x, name) THEN c(x)[k].weight ELSE 0])
           sum(x) == Four([k \in 1..4 |-> IF c(x)[k].at \in Valid(x, name)
                                          THEN c(x)[k].weight * Values(x, name)[c(x)[k].at] ELSE 0])
<1>1. /\ p.kind = "grid2d" /\ r.kind = "grid2d" /\ Valid(r, name) = Valid(p, name)
      /\ \A i \in Valid(p, name) : Values(r, name)[i] = Values(p, name)[i]
      /\ Columns(r) = Columns(p) /\ Rows(r) = Rows(p) /\ StepX(r) = StepX(p) /\ StepY(r) = StepY(p)
      /\ r.size = p.size
  BY DEF Agree
<1>2. c(r) = c(p)
  BY <1>1 DEF Stencil
<1>3. OnGrid(r, X, Y, D) = OnGrid(p, X, Y, D)
  BY <1>1 DEF OnGrid
<1>4. \A x \in {p, r} : AtPoint(x, name, X, Y, D) =
        IF ~OnGrid(x, X, Y, D) THEN Refused("outside")
        ELSE IF total(x) <= 0 THEN Refused("masked")
        ELSE [value |-> <<sum(x), total(x)>>]
  BY <1>1 DEF AtPoint, GridAtPoint
<1> HIDE DEF c
<1>5. total(r) = total(p)
  BY <1>1, <1>2
<1>6. sum(r) = sum(p)
  <2>1. [k \in 1..4 |-> IF c(r)[k].at \in Valid(r, name)
                        THEN c(r)[k].weight * Values(r, name)[c(r)[k].at] ELSE 0]
          = [k \in 1..4 |-> IF c(p)[k].at \in Valid(p, name)
                            THEN c(p)[k].weight * Values(p, name)[c(p)[k].at] ELSE 0]
    BY <1>1, <1>2
  <2> QED
    BY <2>1
<1> HIDE DEF total, sum
<1> QED
  BY <1>3, <1>4, <1>5, <1>6

LEMMA SectionAgrees ==
    ASSUME NEW p, NEW r, NEW name, Agree(p, r, name), NEW q
    PROVE  Section(r, name, q) = Section(p, name, q)
<1> DEFINE count == Budget(q.samples, MaxSamples)
           S(x) == {k \in 0..(count - 1) : Is(SectionAt(x, name, q, count, k))}
           kept(x) == Ascending(S(x))
           values(x) == [i \in DOMAIN kept(x) |-> SectionAt(x, name, q, count, kept(x)[i]).value]
<1>1. \A k : SectionAt(r, name, q, count, k) = SectionAt(p, name, q, count, k)
  BY PointAgrees DEF SectionAt
<1>2. S(r) = S(p)
  BY <1>1
<1> HIDE DEF S
<1>3. kept(r) = kept(p)
  BY <1>2
<1> HIDE DEF kept
<1>4. values(r) = values(p)
  BY <1>1, <1>3
<1> DEFINE answer(x) ==
             IF q.samples # Unsaid /\ q.samples < 1 THEN Refused("budget")
             ELSE IF kept(x) = <<>> THEN Refused("nothing solved")
             ELSE [values |-> values(x), at |-> kept(x), requested |-> count, skipped |-> count - Len(kept(x))]
<1>5. Section(r, name, q) = answer(r) /\ Section(p, name, q) = answer(p)
  BY DEF Section, kept, S
<1> HIDE DEF values, count
<1>6. answer(r) = answer(p)
  BY <1>3, <1>4
<1> HIDE DEF answer
<1> QED
  BY <1>5, <1>6

LEMMA SampleAgrees ==
    ASSUME NEW p, Sound(p), NEW r, NEW name, Unloadable(p, name) = "no", Agree(p, r, name),
           NEW q \in Query
    PROVE  Sample(r, name, q) = Sample(p, name, q)
<1> DEFINE count == Budget(q.samples, MaxSamples)
           V == Valid(p, name)
           kept == Taken(V, count)
<1>1. Valid(r, name) = V
  BY DEF Agree
<1>2. CASE \E why : /\ Sample(p, name, q) = Refused(why)
                    /\ \A x : Valid(x, name) = V => Sample(x, name, q) = Refused(why)
  BY <1>1, <1>2
<1>3. CASE /\ TakenFrom(kept, V, MaxSamples)
           /\ \A x : Valid(x, name) = V => Sample(x, name, q) = Sampled(x, name, count)
  <2> HIDE DEF count
  <2>1. Sample(r, name, q) = Sampled(r, name, count) /\ Sample(p, name, q) = Sampled(p, name, count)
    BY <1>1, <1>3
  <2>2. Valid(r, name) = Valid(p, name) /\ Taken(Valid(r, name), count) = kept
    BY <1>1
  <2>3. \A k \in DOMAIN kept : kept[k] \in V
    <3> HIDE DEF kept, V
    <3>1. DOMAIN kept = 1..Len(kept)
      BY <1>3 DEF TakenFrom
    <3> QED
      BY <1>3, <3>1 DEF TakenFrom
  <2>4. [k \in DOMAIN kept |-> <<Values(r, name)[kept[k]], 1>>]
          = [k \in DOMAIN kept |-> <<Values(p, name)[kept[k]], 1>>]
    <3> HIDE DEF kept
    <3> QED
      BY <2>3 DEF Agree
  <2> QED
    BY <2>1, <2>2, <2>4 DEF Sampled
<1> QED
  BY <1>2, <1>3, SampleWas

LEMMA OverRegionAgrees ==
    ASSUME NEW p, Sound(p), NEW r, NEW q, Unloadable(p, q.field) = "no", Agree(p, r, q.field)
    PROVE  OverRegion(r, q) = OverRegion(p, q)
<1> DEFINE v(x) == Values(x, q.field)
           S(x) == InRegion(x, q) \cap Valid(x, q.field)
           lo(x) == First(x, q.field, S(x), -1)
           hi(x) == First(x, q.field, S(x), 1)
           sum(x) == SumFunctionOnSet(v(x), S(x))
           answer(x) == IF S(x) = {} THEN Refused("nothing solved")
                        ELSE [count |-> Cardinality(S(x)), min |-> v(x)[lo(x)], max |-> v(x)[hi(x)],
                              value |-> <<sum(x), Cardinality(S(x))>>, at |-> hi(x)]
<1>1. OverRegion(r, q) = answer(r) /\ OverRegion(p, q) = answer(p)
  BY DEF OverRegion
<1>2. S(r) = S(p)
  BY DEF InRegion, Agree
<1>3. S(p) \subseteq Valid(p, q.field)
  OBVIOUS
<1> HIDE DEF S
<1>4. lo(r) = lo(p) /\ hi(r) = hi(p)
  BY <1>2, <1>3, FirstAgrees
<1>5. sum(r) = sum(p)
  <2>1. \A i \in S(p) : v(r)[i] = v(p)[i]
    BY <1>3 DEF Agree
  <2> HIDE DEF v
  <2> QED
    BY <1>2, <2>1, SumsAgree
<1>6. S(p) # {} => v(r)[lo(r)] = v(p)[lo(p)] /\ v(r)[hi(r)] = v(p)[hi(p)]
  <2>1. S(p) # {} => lo(p) \in S(p) /\ hi(p) \in S(p)
    BY <1>3, FirstIs
  <2> HIDE DEF lo, hi
  <2> QED
    BY <1>3, <1>4, <2>1 DEF Agree
<1> HIDE DEF lo, hi, v, sum
<1>7. answer(r) = answer(p)
  <2>1. CASE S(p) = {}
    BY <1>2, <2>1
  <2>2. CASE S(p) # {}
    BY <1>2, <1>4, <1>5, <1>6, <2>2
  <2> QED
    BY <2>1, <2>2
<1> HIDE DEF answer
<1> QED
  BY <1>1, <1>7

Refill(p) ==
    [p EXCEPT !.scalars = [n \in DOMAIN @ |->
        [i \in DOMAIN @[n] |-> IF i \in Valid(p, n) THEN @[n][i] ELSE @[n][i] + 7]]]

LEMMA RefilledIs == Refilled = Refill(solved)
BY DEF Refilled, Refill

\* A mesh has no filler.
LEMMA MeshStays ==
    ASSUME NEW p, Sound(p), p.kind = "mesh2d"
    PROVE  Refill(p) = p
<1> DEFINE other == [n \in DOMAIN p.scalars |->
               [i \in DOMAIN p.scalars[n] |-> IF i \in Valid(p, n) THEN p.scalars[n][i]
                                              ELSE p.scalars[n][i] + 7]]
<1>1. p.scalars \in [DOMAIN p.scalars -> Seq(Int)]
  BY PayloadIs
<1>2. \A n \in DOMAIN p.scalars : other[n] = p.scalars[n]
  <2> SUFFICES ASSUME NEW n \in DOMAIN p.scalars
               PROVE  other[n] = p.scalars[n]
    OBVIOUS
  <2>1. Valid(p, n) = DOMAIN p.scalars[n]
    BY MeshIsSolved DEF Values
  <2>2. other[n] = [i \in DOMAIN p.scalars[n] |-> p.scalars[n][i]]
    BY <2>1
  <2>3. p.scalars[n] \in Seq(Int)
    BY <1>1
  <2> HIDE DEF other
  <2>4. p.scalars[n] = [i \in DOMAIN p.scalars[n] |-> p.scalars[n][i]]
    BY <2>3
  <2> QED
    BY <2>2, <2>4
<1>3. other = [n \in DOMAIN p.scalars |-> other[n]]
  OBVIOUS
<1>4. Refill(p) = [p EXCEPT !.scalars = other]
  BY DEF Refill
<1> HIDE DEF other
<1>5. other = p.scalars
  <2>1. p.scalars = [n \in DOMAIN p.scalars |-> p.scalars[n]]
    BY <1>1
  <2> QED
    BY <1>2, <1>3, <2>1
<1>6. p = [kind |-> p.kind, shape |-> p.shape, size |-> p.size, scalars |-> p.scalars,
           vectors |-> p.vectors, mask |-> p.mask, points |-> p.points,
           triangles |-> p.triangles, supplied |-> p.supplied, supplies |-> p.supplies]
  BY PayloadIs
<1> QED
  BY <1>4, <1>5, <1>6

\* Of a grid the points that were solved keep their values and the rest of it is as it was.
LEMMA GridAgrees ==
    ASSUME NEW p, Sound(p), p.kind = "grid2d"
    PROVE  /\ \A name : Unloadable(Refill(p), name) = Unloadable(p, name)
           /\ \A name : Unloadable(p, name) = "no" => Agree(p, Refill(p), name)
           /\ Refill(p).supplied = p.supplied /\ Refill(p).supplies = p.supplies
<1> DEFINE r == Refill(p)
           refill(n) == [i \in DOMAIN p.scalars[n] |-> IF i \in Valid(p, n) THEN p.scalars[n][i]
                                                       ELSE p.scalars[n][i] + 7]
<1>1. p = [kind |-> p.kind, shape |-> p.shape, size |-> p.size, scalars |-> p.scalars,
           vectors |-> p.vectors, mask |-> p.mask, points |-> p.points,
           triangles |-> p.triangles, supplied |-> p.supplied, supplies |-> p.supplies]
  BY PayloadIs
<1>2. r = [p EXCEPT !.scalars = [n \in DOMAIN p.scalars |-> refill(n)]]
  BY DEF Refill
<1> HIDE DEF r, refill
<1>3. /\ r.kind = p.kind /\ r.shape = p.shape /\ r.size = p.size /\ r.vectors = p.vectors
      /\ r.mask = p.mask /\ r.points = p.points /\ r.triangles = p.triangles
      /\ r.supplied = p.supplied /\ r.supplies = p.supplies
      /\ DOMAIN r.scalars = DOMAIN p.scalars
      /\ \A n \in DOMAIN p.scalars : r.scalars[n] = refill(n)
  BY <1>1, <1>2
<1>4. /\ Columns(r) = Columns(p) /\ Rows(r) = Rows(p) /\ StepX(r) = StepX(p) /\ StepY(r) = StepY(p)
  BY <1>3 DEF Columns, Rows, StepX, StepY
<1>5. Points(r) = Points(p)
  BY <1>3, <1>4 DEF Points
<1>6. ASSUME NEW n \in DOMAIN p.scalars
      PROVE  /\ Len(r.scalars[n]) = Len(p.scalars[n]) /\ DOMAIN r.scalars[n] = DOMAIN p.scalars[n]
             /\ \A i \in Valid(p, n) : r.scalars[n][i] = p.scalars[n][i]
  <2>1. p.scalars[n] \in Seq(Int)
    BY PayloadIs
  <2>2. PICK m \in Nat : m = Len(p.scalars[n]) /\ DOMAIN p.scalars[n] = 1..m
    BY <2>1
  <2>3. r.scalars[n] = [i \in 1..m |-> IF i \in Valid(p, n) THEN p.scalars[n][i]
                                       ELSE p.scalars[n][i] + 7]
    BY <1>3, <2>2 DEF refill
  <2>4. r.scalars[n] = [i \in 1..m |-> r.scalars[n][i]]
    BY <2>3
  <2>5. Len(r.scalars[n]) = m
    BY <2>4, LengthIs
  <2>6. Valid(p, n) \subseteq 1..m
    BY <2>2 DEF Valid, Values
  <2> QED
    BY <2>2, <2>3, <2>5, <2>6
<1>7. \A name : Unloadable(r, name) = Unloadable(p, name)
  <2> SUFFICES ASSUME NEW name
               PROVE  Unloadable(r, name) = Unloadable(p, name)
    OBVIOUS
  <2>1. CASE name \in DOMAIN p.scalars
    BY <1>3, <1>5, <1>6, <2>1 DEF Unloadable
  <2>2. CASE name \notin DOMAIN p.scalars
    BY <1>3, <2>2 DEF Unloadable
  <2> QED
    BY <2>1, <2>2
<1>8. ASSUME NEW name, Unloadable(p, name) = "no"
      PROVE  Agree(p, r, name)
  <2>1. name \in DOMAIN p.scalars
    BY <1>8 DEF Unloadable
  <2>2. Valid(r, name) = Valid(p, name)
    <3>1. /\ DOMAIN Values(r, name) = DOMAIN Values(p, name) /\ Len(Values(r, name)) = Len(Values(p, name))
          /\ r.mask = p.mask /\ r.kind = p.kind
      BY <1>3, <1>6, <2>1 DEF Values
    <3> QED
      BY <3>1 DEF Valid
  <2> QED
    BY <1>3, <1>4, <1>5, <1>6, <2>1, <2>2 DEF Agree, Values
<1> QED
  BY <1>3, <1>7, <1>8 DEF r

LEMMA ReduceAgrees ==
    ASSUME NEW p, Sound(p), NEW name, NEW reduction \in {"max", "min", "mean", "integral"}
    PROVE  Reduce(Refill(p), name, reduction) = Reduce(p, name, reduction)
<1>1. CASE p.kind = "mesh2d"
  BY <1>1, MeshStays
<1>2. CASE p.kind = "grid2d" /\ Unloadable(p, name) # "no"
  BY <1>2, GridAgrees DEF Reduce
<1>3. CASE p.kind = "grid2d" /\ Unloadable(p, name) = "no"
  <2>1. Unloadable(Refill(p), name) = "no" /\ Agree(p, Refill(p), name)
    BY <1>3, GridAgrees
  <2>2. /\ Extremum(Refill(p), name, 1) = Extremum(p, name, 1)
        /\ Extremum(Refill(p), name, -1) = Extremum(p, name, -1)
    BY <1>3, <2>1, ExtremumAgrees
  <2>3. Mean(Refill(p), name) = Mean(p, name) /\ Integral(Refill(p), name) = Integral(p, name)
    BY <2>1, MeanAgrees, IntegralAgrees
  <2> QED
    BY <1>3, <2>1, <2>2, <2>3 DEF Reduce
<1> QED
  BY <1>1, <1>2, <1>3, PayloadIs

LEMMA AnswerAgrees ==
    ASSUME NEW p, Sound(p), NEW q \in Query, q.op # "hotspots"
    PROVE  Answer(Refill(p), q) = Answer(p, q)
<1>1. CASE p.kind = "mesh2d"
  BY <1>1, MeshStays
<1>2. CASE p.kind = "grid2d"
  <2>1. Unloadable(Refill(p), q.field) = Unloadable(p, q.field)
    BY <1>2, GridAgrees
  <2>2. Unresolved(Refill(p), q) = Unresolved(p, q)
    BY <2>1 DEF Unresolved
  <2>3. CASE Unloadable(p, q.field) # "no"
    BY <2>1, <2>2, <2>3 DEF Answer
  <2>4. CASE Unloadable(p, q.field) = "no"
    <3>1. Agree(p, Refill(p), q.field)
      BY <1>2, <2>4, GridAgrees
    <3>2. \A X, Y : AtPoint(Refill(p), q.field, X, Y, 2) = AtPoint(p, q.field, X, Y, 2)
      BY <3>1, PointAgrees
    <3>3. Section(Refill(p), q.field, q) = Section(p, q.field, q)
      BY <3>1, SectionAgrees
    <3>4. Sample(Refill(p), q.field, q) = Sample(p, q.field, q)
      BY <2>4, <3>1, SampleAgrees
    <3>5. OverRegion(Refill(p), q) = OverRegion(p, q)
      BY <2>4, <3>1, OverRegionAgrees
    <3>6. q.op \in {"max", "min", "mean", "integral"} =>
            Reduce(Refill(p), q.field, q.op) = Reduce(p, q.field, q.op)
      BY ReduceAgrees
    <3>7. q.op \in {"max", "min", "mean", "integral", "at_point", "section", "sample", "over_region"}
      BY DEF Query
    <3> QED
      BY <2>1, <2>2, <2>4, <3>2, <3>3, <3>4, <3>5, <3>6, <3>7 DEF Answer
  <2> QED
    BY <2>3, <2>4
<1> QED
  BY <1>1, <1>2, PayloadIs

LEMMA RecipeIs ==
    ASSUME NEW m \in Declared, HasRecipe(m), m.field # Unnamed
    PROVE  m.reduction \in {"max", "min", "mean", "integral"}
<1>1. m.reduction \in {"max", "min", "mean", "integral", Unnamed} /\ m.reduction # Unnamed
  BY DEF MetricSpec, HasRecipe
<1> QED
  BY <1>1

LEMMA MetricsAgree ==
    ASSUME NEW p, Sound(p)
    PROVE  FilledMetrics(Refill(p)) = FilledMetrics(p)
<1> DEFINE r == Refill(p)
           told(x) == {m \in Declared : HasRecipe(m) /\ m.field # Unnamed
                                        /\ Is(Reduce(x, m.field, m.reduction))}
           value(x, m) == IF m \in x.supplied THEN x.supplies ELSE Reduce(x, m.field, m.reduction).value
<1>1. r.supplied = p.supplied /\ r.supplies = p.supplies
  <2>1. CASE p.kind = "mesh2d"
    BY <2>1, MeshStays
  <2>2. CASE p.kind = "grid2d"
    BY <2>2, GridAgrees
  <2> QED
    BY <2>1, <2>2, PayloadIs
<1>2. \A m \in Declared : HasRecipe(m) /\ m.field # Unnamed =>
        Reduce(r, m.field, m.reduction) = Reduce(p, m.field, m.reduction)
  BY RecipeIs, ReduceAgrees
<1> HIDE DEF r
<1>3. told(r) = told(p)
  BY <1>2
<1>4. \A m \in p.supplied \cup told(p) : value(r, m) = value(p, m)
  BY <1>1, <1>2
<1>5. /\ FilledMetrics(r) = [m \in r.supplied \cup told(r) |-> value(r, m)]
      /\ FilledMetrics(p) = [m \in p.supplied \cup told(p) |-> value(p, m)]
  BY DEF FilledMetrics
<1> HIDE DEF told, value
<1> QED
  BY <1>1, <1>3, <1>4, <1>5 DEF r

-----------------------------------------------------------------------------
(* Hotspots *)

Sign(q) == IF q.minimum THEN -1 ELSE 1

\* The points still far from every pick.
Far(p, q, chosen) ==
    {i \in Valid(p, q.field) : \A k \in DOMAIN chosen : i # chosen[k] /\ Apart(p, i, chosen[k])}

\* What the search keeps: its picks are solved, apart, within their budget and in order,
\* none less than what is still far from all of them.
Searching(p, q, chosen) ==
    /\ chosen \in Seq(Valid(p, q.field)) /\ Len(chosen) <= Budget(q.count, MaxHotspots)
    /\ \A i, k \in DOMAIN chosen : i # k => Apart(p, chosen[i], chosen[k])
    /\ \A i \in Far(p, q, chosen), k \in DOMAIN chosen :
         Sign(q) * Values(p, q.field)[i] <= Sign(q) * Values(p, q.field)[chosen[k]]
    /\ chosen # <<>> =>
         \A i \in Valid(p, q.field) :
             Sign(q) * Values(p, q.field)[i] <= Sign(q) * Values(p, q.field)[chosen[1]]

LEMMA SpreadsIs ==
    ASSUME NEW p \in Payloads, NEW q \in Query, Spreads(p, q)
    PROVE  /\ Sound(p) /\ Unloadable(p, q.field) = "no" /\ Valid(p, q.field) # {}
           /\ Budget(q.count, MaxHotspots) \in 1..MaxHotspots /\ Sign(q) \in {1, -1}
<1>1. q.count \in Int /\ q.minimum \in BOOLEAN
  BY DEF Query
<1>2. q.count = Unsaid \/ q.count >= 1
  BY DEF Spreads
<1>3. Budget(q.count, MaxHotspots) \in 1..MaxHotspots
  BY <1>1, <1>2, BudgetIs
<1> QED
  BY <1>3, PayloadsAreSound DEF Spreads, Sign

LEMMA CandidatesAre ==
    ASSUME NEW p, NEW q, NEW chosen
    PROVE  Candidates(p, q, chosen) =
             IF Len(chosen) >= Budget(q.count, MaxHotspots) THEN {}
             ELSE {i \in Far(p, q, chosen) : \A k \in Far(p, q, chosen) :
                     Sign(q) * Values(p, q.field)[k] <= Sign(q) * Values(p, q.field)[i]}
BY DEF Candidates, Far, Sign

LEMMA PointsAre ==
    ASSUME NEW p, Sound(p)
    PROVE  Points(p) \in Seq(Int \X Int)
<1>1. CASE p.kind = "mesh2d"
  BY <1>1, PayloadIs DEF Points
<1>2. CASE p.kind = "grid2d"
  <2> DEFINE point(i) == <<((i - 1) % Columns(p)) * StepX(p), ((i - 1) \div Columns(p)) * StepY(p)>>
  <2>1. PICK c \in Nat \ {0}, r \in Nat : c = Columns(p) /\ r = Rows(p)
    BY <1>2, PayloadIs DEF Sound, GridFits
  <2>2. StepX(p) \in Int /\ StepY(p) \in Int
    <3>1. \A x \in Nat, n \in Nat : Step(x, n) \in Int
      BY DEF Step
    <3> QED
      BY <3>1, PayloadIs DEF StepX, StepY
  <2>3. \A i \in Nat \ {0} : point(i) \in Int \X Int
    <3> SUFFICES ASSUME NEW i \in Nat \ {0}
                 PROVE  point(i) \in Int \X Int
      OBVIOUS
    <3>1. (i - 1) % c \in Int /\ (i - 1) \div c \in Int
      OBVIOUS
    <3> QED
      BY <2>1, <2>2, <3>1, Products
  <2> HIDE DEF point
  <2>4. c * r \in Nat
    BY <2>1, Positive
  <2>5. Points(p) = [i \in 1..(c * r) |-> point(i)]
    BY <1>2, <2>1 DEF Points, point
  <2>6. Points(p) \in [1..(c * r) -> Int \X Int]
    BY <2>3, <2>4, <2>5
  <2> QED
    BY <2>4, <2>6
<1> QED
  BY <1>1, <1>2, PayloadIs

LEMMA ApartBoth ==
    ASSUME NEW p, Sound(p), NEW name, Unloadable(p, name) = "no",
           NEW i \in Valid(p, name), NEW k \in Valid(p, name)
    PROVE  Apart(p, i, k) <=> Apart(p, k, i)
<1>1. Points(p)[i] \in Int \X Int /\ Points(p)[k] \in Int \X Int
  <2>1. PICK n \in Nat : n = Len(Points(p)) /\ DOMAIN Points(p) = 1..n
    BY PointsAre
  <2>2. Values(p, name) \in Seq(Int) /\ Len(Values(p, name)) = n
    BY <2>1, FieldIs
  <2>3. DOMAIN Values(p, name) = 1..n
    BY <2>2
  <2>4. i \in DOMAIN Points(p) /\ k \in DOMAIN Points(p)
    BY <2>1, <2>3, FieldIs
  <2> QED
    BY <2>4, PointsAre
<1>2. \A a, b \in Int : (a - b) * (a - b) = (b - a) * (b - a)
  OBVIOUS
<1>3. \A a, b \in Int \X Int : Distance2(a, b) = Distance2(b, a)
  BY <1>2 DEF Distance2
<1>4. Distance2(Points(p)[i], Points(p)[k]) = Distance2(Points(p)[k], Points(p)[i])
  BY <1>1, <1>3
<1> QED
  BY <1>4 DEF Apart

LEMMA PickKeeps ==
    ASSUME NEW p \in Payloads, NEW q \in Query, Spreads(p, q), NEW chosen, Searching(p, q, chosen),
           NEW i \in Candidates(p, q, chosen)
    PROVE  Searching(p, q, Append(chosen, i))
<1> DEFINE v == Values(p, q.field)
           V == Valid(p, q.field)
           more == Append(chosen, i)
           s == Sign(q)
<1>1. /\ Sound(p) /\ Unloadable(p, q.field) = "no"
      /\ Budget(q.count, MaxHotspots) \in 1..MaxHotspots /\ s \in {1, -1}
  BY SpreadsIs
<1>2. /\ i \in Far(p, q, chosen) /\ ~(Len(chosen) >= Budget(q.count, MaxHotspots))
      /\ \A k \in Far(p, q, chosen) : s * v[k] <= s * v[i]
  BY CandidatesAre
<1>3. i \in V /\ \A k \in DOMAIN chosen : i # chosen[k] /\ Apart(p, i, chosen[k])
  BY <1>2 DEF Far
<1>4. PICK n \in Nat : n = Len(chosen) /\ DOMAIN chosen = 1..n
  BY DEF Searching
<1>5. \A k \in 1..n : chosen[k] \in V
  BY <1>4 DEF Searching
<1>6. /\ more \in Seq(V) /\ Len(more) = n + 1 /\ DOMAIN more = 1..(n + 1) /\ more[n + 1] = i
      /\ \A k \in 1..n : more[k] = chosen[k]
  BY <1>3, <1>4 DEF Searching
<1> HIDE DEF more, s, v
<1>7. Len(more) <= Budget(q.count, MaxHotspots)
  BY <1>1, <1>2, <1>4, <1>6
<1>8. \A k \in 1..n : Apart(p, i, chosen[k]) /\ Apart(p, chosen[k], i)
  BY <1>1, <1>3, <1>4, <1>5, ApartBoth
<1>9. \A j, k \in DOMAIN more : j # k => Apart(p, more[j], more[k])
  <2> SUFFICES ASSUME NEW j \in 1..(n + 1), NEW k \in 1..(n + 1), j # k
               PROVE  Apart(p, more[j], more[k])
    BY <1>6
  <2>1. CASE j \in 1..n /\ k \in 1..n
    BY <1>4, <1>6, <2>1 DEF Searching
  <2>2. CASE j = n + 1
    <3>1. k \in 1..n
      BY <2>2
    <3> QED
      BY <1>6, <1>8, <2>2, <3>1
  <2>3. CASE k = n + 1
    <3>1. j \in 1..n
      BY <2>3
    <3> QED
      BY <1>6, <1>8, <2>3, <3>1
  <2> QED
    BY <2>1, <2>2, <2>3
<1>10. Far(p, q, more) \subseteq Far(p, q, chosen)
  <2>1. \A k \in DOMAIN chosen : k \in DOMAIN more /\ more[k] = chosen[k]
    BY <1>4, <1>6
  <2> QED
    BY <2>1 DEF Far
<1>11. \A j \in Far(p, q, more), k \in DOMAIN more : s * v[j] <= s * v[more[k]]
  <2> SUFFICES ASSUME NEW j \in Far(p, q, more), NEW k \in 1..(n + 1)
               PROVE  s * v[j] <= s * v[more[k]]
    BY <1>6
  <2>1. j \in Far(p, q, chosen)
    BY <1>10
  <2>2. CASE k = n + 1
    BY <1>2, <1>6, <2>1, <2>2
  <2>3. CASE k \in 1..n
    BY <1>4, <1>6, <2>1, <2>3 DEF Searching, s, v
  <2> QED
    BY <2>2, <2>3
<1>12. \A j \in V : s * v[j] <= s * v[more[1]]
  <2>1. CASE n = 0
    <3>1. Far(p, q, chosen) = V
      BY <1>4, <2>1 DEF Far
    <3> QED
      BY <1>2, <1>6, <2>1, <3>1
  <2>2. CASE n # 0
    <3>1. chosen # <<>> /\ more[1] = chosen[1]
      BY <1>4, <1>6, <2>2
    <3> QED
      BY <3>1 DEF Searching, s, v
  <2> QED
    BY <2>1, <2>2
<1> QED
  BY <1>6, <1>7, <1>9, <1>11, <1>12 DEF Searching, more, s, v

\* When there is no other candidate the search is over: the budget is spent or every
\* point is near a pick.
LEMMA PicksEnd ==
    ASSUME NEW p \in Payloads, NEW q \in Query, Spreads(p, q), NEW chosen, Searching(p, q, chosen),
           Candidates(p, q, chosen) = {}
    PROVE  /\ chosen # <<>> /\ Len(chosen) \in 1..MaxHotspots
           /\ Far(p, q, chosen) # {} => Len(chosen) = Budget(q.count, MaxHotspots)
<1> DEFINE v == Values(p, q.field)
           far == Far(p, q, chosen)
           w == [x \in far |-> Sign(q) * v[x]]
<1>1. /\ Sound(p) /\ Unloadable(p, q.field) = "no" /\ Valid(p, q.field) # {}
      /\ Budget(q.count, MaxHotspots) \in 1..MaxHotspots /\ Sign(q) \in {1, -1}
  BY SpreadsIs
<1>2. PICK n \in Nat : n = Len(chosen) /\ n <= Budget(q.count, MaxHotspots) /\ DOMAIN chosen = 1..n
  BY DEF Searching
<1>3. far # {} => n >= Budget(q.count, MaxHotspots)
  <2> SUFFICES ASSUME far # {}, ~(n >= Budget(q.count, MaxHotspots))
               PROVE  FALSE
    OBVIOUS
  <2>1. far \subseteq Valid(p, q.field)
    BY DEF Far
  <2> HIDE DEF far
  <2>2. IsFiniteSet(far) /\ \A x \in far : v[x] \in Int
    BY <1>1, <2>1, FieldIs, FS_Subset
  <2>3. \A x \in far : w[x] \in Int /\ w[x] = Sign(q) * v[x]
    BY <1>1, <2>2
  <2> HIDE DEF w
  <2>4. PICK i \in far : \A k \in far : w[k] <= w[i]
    BY <2>2, <2>3, Greatest
  <2>5. i \in Candidates(p, q, chosen)
    BY <1>2, <2>3, <2>4, CandidatesAre DEF far
  <2> QED
    BY <2>5
<1>4. n # 0
  <2>1. CASE n = 0
    <3>1. far = Valid(p, q.field)
      BY <1>2, <2>1 DEF Far
    <3> QED
      BY <1>1, <1>3, <2>1, <3>1
  <2> QED
    BY <2>1
<1> QED
  BY <1>1, <1>2, <1>3, <1>4

-----------------------------------------------------------------------------
(* What is asked and what is answered *)

LEMMA Told ==
    /\ \A why : Refused(why) # Nothing
    /\ \A x : [metrics |-> x] # Nothing
    /\ \A x : [value |-> x] # Nothing
    /\ \A x, y : [value |-> x, at |-> y] # Nothing
    /\ \A x, y : [value |-> x, area |-> y] # Nothing
    /\ [op |-> "metrics"] # Nothing /\ [op |-> "metrics"].op = "metrics"
    /\ \A q \in Query : q # Nothing
<1>1. \A r : "op" \in DOMAIN r \/ "value" \in DOMAIN r \/ "refused" \in DOMAIN r \/ "metrics" \in DOMAIN r
             => r # Nothing
  BY DEF Nothing
<1>2. \A q \in Query : "op" \in DOMAIN q
  BY DEF Query
<1>3. \A why : "refused" \in DOMAIN Refused(why)
  BY DEF Refused
<1> QED
  BY <1>1, <1>2, <1>3

LEMMA ReduceIs ==
    ASSUME NEW p, Sound(p), NEW name, NEW reduction \in {"max", "min", "mean", "integral"}
    PROVE  /\ Reduce(p, name, reduction) # Nothing
           /\ Is(Reduce(p, name, reduction)) => Unloadable(p, name) = "no"
<1>1. CASE Unloadable(p, name) # "no"
  BY <1>1, Told, RefusalIs DEF Reduce
<1>2. CASE Unloadable(p, name) = "no"
  <2>1. \A sign : Extremum(p, name, sign) # Nothing
    BY Told DEF Extremum
  <2>2. Mean(p, name) # Nothing
    BY Told DEF Mean
  <2>3. Integral(p, name) # Nothing
    BY Told DEF Integral
  <2> QED
    BY <1>2, <2>1, <2>2, <2>3 DEF Reduce
<1> QED
  BY <1>1, <1>2

LEMMA AnswerIs ==
    ASSUME NEW p, NEW q \in Query, q.op # "hotspots", Is(Answer(p, q))
    PROVE  /\ Unloadable(p, q.field) = "no"
           /\ q.op \in {"max", "min", "mean", "integral"} => Answer(p, q) = Reduce(p, q.field, q.op)
           /\ q.op = "at_point" =>
                Len(q.from) = 2 /\ Answer(p, q) = AtPoint(p, q.field, q.from[1], q.from[2], 2)
           /\ q.op = "section" =>
                Len(q.from) = 2 /\ Len(q.to) = 2 /\ Answer(p, q) = Section(p, q.field, q)
           /\ q.op = "sample" => Answer(p, q) = Sample(p, q.field, q)
           /\ q.op = "over_region" => Answer(p, q) = OverRegion(p, q)
<1>1. ~(q.op = "over_region" /\ Unresolved(p, q) # "no") /\ Unloadable(p, q.field) = "no"
  BY RefusalIs DEF Answer
<1>2. CASE q.op \in {"max", "min", "mean", "integral"}
  BY <1>1, <1>2 DEF Answer
<1>3. CASE q.op = "at_point"
  BY <1>1, <1>3, RefusalIs DEF Answer
<1>4. CASE q.op = "section"
  BY <1>1, <1>4, RefusalIs DEF Answer
<1>5. CASE q.op = "sample"
  BY <1>1, <1>5 DEF Answer
<1>6. CASE q.op = "over_region"
  BY <1>1, <1>6 DEF Answer
<1> QED
  BY <1>1, <1>2, <1>3, <1>4, <1>5, <1>6 DEF Query

-----------------------------------------------------------------------------
(* The invariant *)

\* Nothing was asked; or a question was, and its answer is what the result says; or the
\* search for hotspots is on its way or over.
FieldsInv ==
    /\ solved \in Payloads
    /\ \/ question = Nothing /\ reply = Nothing /\ picks = <<>>
       \/ question = [op |-> "metrics"] /\ reply = [metrics |-> FilledMetrics(solved)]
       \/ question \in Query /\ question.op # "hotspots" /\ reply = Answer(solved, question)
       \/ question \in Query /\ question.op = "hotspots" /\ \E why : reply = Refused(why)
       \/ /\ question \in Query /\ Spreads(solved, question) /\ Searching(solved, question, picks)
          /\ \/ reply = Nothing
             \/ /\ Candidates(solved, question, picks) = {}
                /\ reply = [values |-> [k \in DOMAIN picks |->
                                           <<Values(solved, question.field)[picks[k]], 1>>],
                            at |-> picks]

LEMMA SearchStarts ==
    ASSUME NEW p \in Payloads, NEW q \in Query, Spreads(p, q)
    PROVE  Searching(p, q, <<>>)
<1>1. Len(<<>>) = 0 /\ DOMAIN <<>> = {} /\ <<>> \in Seq(Valid(p, q.field))
  OBVIOUS
<1>2. Budget(q.count, MaxHotspots) \in 1..MaxHotspots
  BY SpreadsIs
<1> QED
  BY <1>1, <1>2 DEF Searching

LEMMA FieldsInvHolds == FieldsSpec => []FieldsInv
<1>1. FieldsInit => FieldsInv
  BY DEF FieldsInit, FieldsInv
<1>2. FieldsInv /\ [FieldsNext]_fieldVars => FieldsInv'
  <2> SUFFICES ASSUME FieldsInv, [FieldsNext]_fieldVars
               PROVE  FieldsInv'
    OBVIOUS
  <2>1. CASE Ask
    <3>1. question = Nothing /\ solved \in Payloads /\ solved' = solved /\ picks' = picks
      BY <2>1 DEF Ask, FieldsInv
    <3>2. picks = <<>>
      <4>1. question \notin Query /\ question # [op |-> "metrics"]
        BY <3>1, Told
      <4> QED
        BY <4>1 DEF FieldsInv
    <3>3. PICK q \in Query :
            /\ question' = q
            /\ reply' = IF Spreads(solved, q) THEN Nothing
                        ELSE IF q.op = "hotspots"
                             THEN Refused(IF Unloadable(solved, q.field) # "no"
                                          THEN Unloadable(solved, q.field)
                                          ELSE IF q.count # Unsaid /\ q.count < 1 THEN "budget"
                                          ELSE "nothing solved")
                             ELSE Answer(solved, q)
      BY <2>1 DEF Ask
    <3>4. CASE Spreads(solved, q)
      BY <3>1, <3>2, <3>3, <3>4, SearchStarts DEF FieldsInv
    <3>5. CASE ~Spreads(solved, q) /\ q.op = "hotspots"
      BY <3>1, <3>3, <3>5 DEF FieldsInv
    <3>6. CASE ~Spreads(solved, q) /\ q.op # "hotspots"
      BY <3>1, <3>3, <3>6 DEF FieldsInv
    <3> QED
      BY <3>4, <3>5, <3>6
  <2>2. CASE PickHotspot
    <3>1. /\ question # Nothing /\ question.op = "hotspots" /\ reply = Nothing
          /\ solved' = solved /\ question' = question
      BY <2>2 DEF PickHotspot
    <3>2. /\ solved \in Payloads /\ question \in Query
          /\ Spreads(solved, question) /\ Searching(solved, question, picks)
      BY <3>1, Told DEF FieldsInv
    <3>3. CASE /\ Candidates(solved, question, picks) # {} /\ reply' = reply
               /\ \E i \in Candidates(solved, question, picks) : picks' = Append(picks, i)
      <4>1. Searching(solved, question, picks')
        BY <3>2, <3>3, PickKeeps
      <4> QED
        BY <3>1, <3>2, <3>3, <4>1 DEF FieldsInv
    <3>4. CASE /\ Candidates(solved, question, picks) = {} /\ picks' = picks
               /\ reply' = [values |-> [k \in DOMAIN picks |->
                                          <<Values(solved, question.field)[picks[k]], 1>>],
                            at |-> picks]
      BY <3>1, <3>2, <3>4 DEF FieldsInv
    <3> QED
      BY <2>2, <3>3, <3>4 DEF PickHotspot
  <2>3. CASE FillMetrics
    BY <2>3 DEF FillMetrics, FieldsInv
  <2>4. CASE UNCHANGED fieldVars
    BY <2>4 DEF fieldVars, FieldsInv
  <2> QED
    BY <2>1, <2>2, <2>3, <2>4 DEF FieldsNext
<1> QED
  BY <1>1, <1>2, PTL DEF FieldsSpec

\* What an answer is, of every question but a search.
LEMMA Answered ==
    ASSUME FieldsInv, NEW ops, AnswerTo(ops), "hotspots" \notin ops, "metrics" \notin ops
    PROVE  /\ Sound(solved) /\ question \in Query /\ question.op # "hotspots" /\ question.op \in ops
           /\ reply = Answer(solved, question) /\ Is(Answer(solved, question))
<1>1. question # Nothing /\ question.op \in ops /\ Is(reply)
  BY DEF AnswerTo
<1>2. question.op # "hotspots" /\ question # [op |-> "metrics"]
  BY <1>1, Told
<1>3. question \in Query /\ reply = Answer(solved, question)
  BY <1>1, <1>2 DEF FieldsInv, Spreads
<1> QED
  BY <1>1, <1>2, <1>3, PayloadsAreSound DEF FieldsInv

\* What a finished search is.
LEMMA Searched ==
    ASSUME FieldsInv, AnswerTo({"hotspots"})
    PROVE  /\ solved \in Payloads /\ question \in Query /\ Spreads(solved, question)
           /\ Searching(solved, question, picks) /\ Candidates(solved, question, picks) = {}
           /\ reply = [values |-> [k \in DOMAIN picks |-> <<Values(solved, question.field)[picks[k]], 1>>],
                       at |-> picks]
<1>1. question # Nothing /\ question.op = "hotspots" /\ Is(reply)
  BY DEF AnswerTo
<1>2. question # [op |-> "metrics"] /\ reply # Nothing /\ \A why : reply # Refused(why)
  <2>1. reply # Nothing
    BY <1>1 DEF Is
  <2> QED
    BY <1>1, <2>1, Told, RefusalIs
<1> QED
  BY <1>1, <1>2 DEF FieldsInv

LEMMA FillerIsNever == FieldsInv => FillerNeverCounts
<1> SUFFICES ASSUME FieldsInv, reply # Nothing
             PROVE  CASE question.op = "hotspots" -> Is(reply) =>
                           Range(reply.at) \subseteq Valid(solved, question.field)
                      [] question.op = "metrics" -> reply.metrics = FilledMetrics(Refilled)
                      [] OTHER -> reply = Answer(Refilled, question)
  BY DEF FillerNeverCounts
<1>1. Sound(solved)
  BY PayloadsAreSound DEF FieldsInv
<1>2. CASE question = [op |-> "metrics"] /\ reply = [metrics |-> FilledMetrics(solved)]
  <2>1. question.op = "metrics" /\ reply.metrics = FilledMetrics(solved)
    BY <1>2
  <2>2. FilledMetrics(Refilled) = FilledMetrics(solved)
    BY <1>1, MetricsAgree, RefilledIs
  <2> QED
    BY <2>1, <2>2
<1>3. CASE question \in Query /\ question.op # "hotspots" /\ reply = Answer(solved, question)
  <2>1. question.op # "metrics"
    BY <1>3 DEF Query
  <2>2. Answer(Refilled, question) = Answer(solved, question)
    BY <1>1, <1>3, AnswerAgrees, RefilledIs
  <2> QED
    BY <1>3, <2>1, <2>2
<1>4. CASE question \in Query /\ question.op = "hotspots" /\ \E why : reply = Refused(why)
  BY <1>4, RefusalIs
<1>5. CASE /\ question \in Query /\ Spreads(solved, question) /\ Searching(solved, question, picks)
           /\ reply = [values |-> [k \in DOMAIN picks |->
                                      <<Values(solved, question.field)[picks[k]], 1>>],
                       at |-> picks]
  <2>1. question.op = "hotspots" /\ reply.at = picks
    BY <1>5 DEF Spreads
  <2>2. picks \in Seq(Valid(solved, question.field))
    BY <1>5 DEF Searching
  <2>3. Range(picks) \subseteq Valid(solved, question.field)
    BY <2>2 DEF Range
  <2> QED
    BY <2>1, <2>3
<1> QED
  BY <1>2, <1>3, <1>4, <1>5 DEF FieldsInv

LEMMA BetweenIs ==
    \A x, name : Between(x, name) = Amid(solved, name, Valid(solved, name), x)
BY DEF Between, Amid

LEMMA AnswersBounded == FieldsInv => AnswersAreBounded
<1> SUFFICES ASSUME FieldsInv
             PROVE  AnswersAreBounded
  OBVIOUS
<1>1. ASSUME AnswerTo({"max", "min", "mean", "at_point", "over_region"})
      PROVE  Between(reply.value, question.field)
  <2>1. /\ Sound(solved) /\ question \in Query /\ question.op # "hotspots"
        /\ question.op \in {"max", "min", "mean", "at_point", "over_region"}
        /\ reply = Answer(solved, question) /\ Is(Answer(solved, question))
    BY <1>1, Answered
  <2>2. Unloadable(solved, question.field) = "no"
    BY <2>1, AnswerIs
  <2>3. CASE question.op \in {"max", "min", "mean"}
    <3>1. reply = Reduce(solved, question.field, question.op)
      BY <2>1, <2>3, AnswerIs
    <3> QED
      BY <2>1, <2>2, <2>3, <3>1, ReductionIs, BetweenIs
  <2>4. CASE question.op = "at_point"
    <3>1. Len(question.from) = 2 /\ reply = AtPoint(solved, question.field, question.from[1], question.from[2], 2)
      BY <2>1, <2>4, AnswerIs
    <3>2. question.from[1] \in Int /\ question.from[2] \in Int /\ 2 \in Nat \ {0}
      <4>1. question.from \in Seq(Int)
        BY <2>1 DEF Query
      <4> QED
        BY <3>1, <4>1
    <3> QED
      BY <2>1, <2>2, <3>1, <3>2, AtPointIs, BetweenIs
  <2>5. CASE question.op = "over_region"
    <3>1. reply = OverRegion(solved, question)
      BY <2>1, <2>5, AnswerIs
    <3> QED
      BY <2>1, <2>2, <3>1, OverRegionIs, BetweenIs
  <2> QED
    BY <2>1, <2>3, <2>4, <2>5
<1>2. ASSUME AnswerTo({"section", "sample", "hotspots"})
      PROVE  Reading(solved, question.field, reply, IF question.op = "hotspots" THEN MaxHotspots ELSE MaxSamples)
  <2>1. question.op \in {"section", "sample", "hotspots"}
    BY <1>2 DEF AnswerTo
  <2>2. CASE question.op \in {"section", "sample"}
    <3>1. AnswerTo({"section", "sample"})
      BY <1>2, <2>2 DEF AnswerTo
    <3>2. /\ Sound(solved) /\ question \in Query /\ question.op # "hotspots"
          /\ reply = Answer(solved, question) /\ Is(Answer(solved, question))
      BY <3>1, Answered
    <3>3. Unloadable(solved, question.field) = "no"
      BY <3>2, AnswerIs
    <3>4. CASE question.op = "section"
      <4>1. /\ Len(question.from) = 2 /\ Len(question.to) = 2
            /\ reply = Section(solved, question.field, question)
        BY <3>2, <3>4, AnswerIs
      <4> QED
        BY <3>2, <3>3, <3>4, <4>1, SectionIs
    <3>5. CASE question.op = "sample"
      <4>1. reply = Sample(solved, question.field, question)
        BY <3>2, <3>5, AnswerIs
      <4> QED
        BY <3>2, <3>3, <3>5, <4>1, SampleIs
    <3> QED
      BY <2>2, <3>4, <3>5
  <2>3. CASE question.op = "hotspots"
    <3>1. AnswerTo({"hotspots"})
      BY <1>2, <2>3 DEF AnswerTo
    <3>2. /\ solved \in Payloads /\ question \in Query /\ Spreads(solved, question)
          /\ Searching(solved, question, picks) /\ Candidates(solved, question, picks) = {}
          /\ reply.at = picks
          /\ reply.values = [k \in DOMAIN picks |-> <<Values(solved, question.field)[picks[k]], 1>>]
      BY <3>1, Searched
    <3>3. Sound(solved) /\ Unloadable(solved, question.field) = "no" /\ Len(picks) \in 1..MaxHotspots
      BY <3>2, SpreadsIs, PicksEnd
    <3>4. PICK n \in 1..MaxHotspots :
            /\ n = Len(picks) /\ DOMAIN picks = 1..n
            /\ \A k \in 1..n : picks[k] \in Valid(solved, question.field)
      BY <3>2, <3>3 DEF Searching
    <3>5. Len(reply.values) = n
      <4>1. reply.values = [k \in 1..n |-> reply.values[k]]
        BY <3>2, <3>4
      <4> QED
        BY <4>1, LengthIs
    <3>6. \A k \in DOMAIN reply.values :
             Amid(solved, question.field, Valid(solved, question.field), reply.values[k])
      <4> SUFFICES ASSUME NEW k \in 1..n
                   PROVE  Amid(solved, question.field, Valid(solved, question.field), reply.values[k])
        BY <3>2, <3>4
      <4>1. reply.values[k] = <<Values(solved, question.field)[picks[k]], 1>>
        BY <3>2, <3>4
      <4> QED
        BY <3>3, <3>4, <4>1, ValueIsAmid
    <3> QED
      BY <2>3, <3>2, <3>4, <3>5, <3>6 DEF Reading
  <2> QED
    BY <2>1, <2>2, <2>3
<1>3. ASSUME AnswerTo({"over_region"})
      PROVE  /\ reply.at \in InRegion(solved, question) \cap Valid(solved, question.field)
             /\ reply.min * reply.value[2] <= reply.value[1]
             /\ reply.value[1] <= reply.max * reply.value[2]
  <2>1. /\ Sound(solved) /\ question \in Query /\ question.op # "hotspots"
        /\ question.op = "over_region"
        /\ reply = Answer(solved, question) /\ Is(Answer(solved, question))
    BY <1>3, Answered
  <2>2. Unloadable(solved, question.field) = "no" /\ reply = OverRegion(solved, question)
    BY <2>1, AnswerIs
  <2> QED
    BY <2>1, <2>2, OverRegionIs
<1> QED
  BY <1>1, <1>2, <1>3, BetweenIs DEF AnswersAreBounded, Reading

LEMMA HotspotsSpread == FieldsInv => HotspotsAreSpread
<1> SUFFICES ASSUME FieldsInv, AnswerTo({"hotspots"})
             PROVE  HotspotsAreSpread
  BY DEF HotspotsAreSpread
<1> DEFINE v == Values(solved, question.field)
           V == Valid(solved, question.field)
           s == Sign(question)
           far == Far(solved, question, picks)
           i == First(solved, question.field, V, s)
<1>1. /\ solved \in Payloads /\ question \in Query /\ Spreads(solved, question)
      /\ Searching(solved, question, picks) /\ Candidates(solved, question, picks) = {}
  BY Searched
<1>2. /\ Sound(solved) /\ Unloadable(solved, question.field) = "no" /\ V # {} /\ s \in {1, -1}
  BY <1>1, SpreadsIs
<1>3. /\ picks # <<>> /\ Len(picks) \in 1..MaxHotspots
      /\ far # {} => Len(picks) = Budget(question.count, MaxHotspots)
  BY <1>1, PicksEnd
<1>4. /\ \A a, b \in DOMAIN picks : a # b => Apart(solved, picks[a], picks[b])
      /\ \A a \in far, k \in DOMAIN picks : s * v[a] <= s * v[picks[k]]
      /\ \A a \in V : s * v[a] <= s * v[picks[1]]
  BY <1>1, <1>3 DEF Searching
<1>5. picks[1] \in V
  <2>1. picks \in Seq(V)
    BY <1>1 DEF Searching
  <2> HIDE DEF V
  <2> QED
    BY <1>3, <2>1
<1>6. i \in V /\ \A k \in V : s * v[k] <= s * v[i]
  <2> HIDE DEF s
  <2> QED
    BY <1>2, FirstIs
<1>7. s * v[picks[1]] = s * v[i]
  <2>1. v[picks[1]] \in Int /\ v[i] \in Int
    BY <1>2, <1>5, <1>6, FieldIs
  <2>2. s * v[picks[1]] \in Int /\ s * v[i] \in Int
    BY <1>2, <2>1
  <2>3. s * v[picks[1]] <= s * v[i] /\ s * v[i] <= s * v[picks[1]]
    BY <1>4, <1>5, <1>6
  <2> HIDE DEF s, v, i
  <2> QED
    BY <2>2, <2>3
<1>8. Extremum(solved, question.field, s).value[1] = v[i]
  <2>1. Extremum(solved, question.field, s) = [value |-> <<v[i], 1>>, at |-> i]
    BY <1>2 DEF Extremum
  <2> QED
    BY <2>1
<1>9. /\ \A a, b \in DOMAIN picks : a # b => Apart(solved, picks[a], picks[b])
      /\ \A a \in far, k \in DOMAIN picks : s * v[a] <= s * v[picks[k]]
      /\ far # {} => Len(picks) = Budget(question.count, MaxHotspots)
      /\ <<s * v[picks[1]], 1>> = <<s * Extremum(solved, question.field, s).value[1], 1>>
  BY <1>3, <1>4, <1>7, <1>8
<1> QED
  BY <1>9 DEF HotspotsAreSpread, Far, Sign

LEMMA ReadingsSpread == FieldsInv => ReadingsAreSpread
<1> SUFFICES ASSUME FieldsInv
             PROVE  ReadingsAreSpread
  OBVIOUS
<1>1. ASSUME AnswerTo({"section"})
      PROVE  InOrder(reply) /\ reply.skipped + Len(reply.at) = reply.requested
  <2>1. /\ Sound(solved) /\ question \in Query /\ question.op # "hotspots" /\ question.op = "section"
        /\ reply = Answer(solved, question) /\ Is(Answer(solved, question))
    BY <1>1, Answered
  <2>2. /\ Unloadable(solved, question.field) = "no" /\ Len(question.from) = 2 /\ Len(question.to) = 2
        /\ reply = Section(solved, question.field, question)
    BY <2>1, AnswerIs
  <2> QED
    BY <2>1, <2>2, SectionIs
<1>2. ASSUME AnswerTo({"sample"})
      PROVE  /\ InOrder(reply)
             /\ Len(reply.at) > 1 => /\ reply.at[1] = Min(Valid(solved, question.field))
                                     /\ reply.at[Len(reply.at)] = Max(Valid(solved, question.field))
  <2>1. /\ Sound(solved) /\ question \in Query /\ question.op # "hotspots" /\ question.op = "sample"
        /\ reply = Answer(solved, question) /\ Is(Answer(solved, question))
    BY <1>2, Answered
  <2>2. /\ Unloadable(solved, question.field) = "no"
        /\ reply = Sample(solved, question.field, question)
    BY <2>1, AnswerIs
  <2> QED
    BY <2>1, <2>2, SampleIs
<1>3. AnswerTo({"section", "sample"}) => AnswerTo({"section"}) \/ AnswerTo({"sample"})
  BY DEF AnswerTo
<1> QED
  BY <1>1, <1>2, <1>3 DEF ReadingsAreSpread, InOrder

LEMMA MetricsHonest == FieldsInv => MetricsAreHonest
<1> SUFFICES ASSUME FieldsInv, AnswerTo({"metrics"}), NEW m \in Declared, HasRecipe(m)
             PROVE  /\ m \in DOMAIN reply.metrics /\ (m.over = "run" \/ m.boundary # Unnamed) =>
                           m \in solved.supplied
                    /\ m \in solved.supplied => reply.metrics[m] = solved.supplies
                    /\ m \notin DOMAIN reply.metrics /\ m.field # Unnamed =>
                           "refused" \in DOMAIN Reduce(solved, m.field, m.reduction)
                    /\ m \in DOMAIN reply.metrics \ solved.supplied /\ m.reduction # "integral" =>
                           Between(reply.metrics[m], m.field)
  BY DEF MetricsAreHonest
<1> DEFINE told == {x \in Declared : HasRecipe(x) /\ x.field # Unnamed
                                     /\ Is(Reduce(solved, x.field, x.reduction))}
           value(x) == IF x \in solved.supplied THEN solved.supplies
                       ELSE Reduce(solved, x.field, x.reduction).value
<1>1. Sound(solved) /\ reply = [metrics |-> FilledMetrics(solved)]
  <2>1. question.op = "metrics"
    BY DEF AnswerTo
  <2>2. question \notin Query
    BY <2>1 DEF Query
  <2>3. question # Nothing
    BY DEF AnswerTo
  <2> QED
    BY <2>2, <2>3, PayloadsAreSound DEF FieldsInv
<1>2. FilledMetrics(solved) = [x \in solved.supplied \cup told |-> value(x)]
  BY DEF FilledMetrics
<1>3. m \in told => /\ m.field # Unnamed /\ Is(Reduce(solved, m.field, m.reduction))
                    /\ m.boundary = Unnamed /\ m.over = "payload"
  BY DEF HasRecipe
<1>4. m \notin told /\ m.field # Unnamed => ~Is(Reduce(solved, m.field, m.reduction))
  OBVIOUS
<1> HIDE DEF told
<1>5. /\ DOMAIN reply.metrics = solved.supplied \cup told
      /\ \A x \in solved.supplied \cup told : reply.metrics[x] = value(x)
  BY <1>1, <1>2
<1>6. m \in DOMAIN reply.metrics /\ (m.over = "run" \/ m.boundary # Unnamed) => m \in solved.supplied
  BY <1>3, <1>5
<1>7. m \in solved.supplied => reply.metrics[m] = solved.supplies
  BY <1>5
<1>8. ASSUME m \notin DOMAIN reply.metrics, m.field # Unnamed
      PROVE  "refused" \in DOMAIN Reduce(solved, m.field, m.reduction)
  <2>1. ~Is(Reduce(solved, m.field, m.reduction))
    BY <1>4, <1>5, <1>8
  <2>2. Reduce(solved, m.field, m.reduction) # Nothing
    BY <1>1, <1>8, RecipeIs, ReduceIs
  <2> QED
    BY <2>1, <2>2 DEF Is
<1>9. ASSUME m \in DOMAIN reply.metrics \ solved.supplied, m.reduction # "integral"
      PROVE  Between(reply.metrics[m], m.field)
  <2>1. m \in told /\ reply.metrics[m] = Reduce(solved, m.field, m.reduction).value
    BY <1>5, <1>9
  <2>2. m.reduction \in {"max", "min", "mean"}
    BY <1>3, <1>9, <2>1, RecipeIs
  <2>3. Unloadable(solved, m.field) = "no"
    BY <1>1, <1>3, <2>1, <2>2, ReduceIs
  <2> QED
    BY <1>1, <1>3, <2>1, <2>2, <2>3, ReductionIs, BetweenIs
<1> QED
  BY <1>6, <1>7, <1>8, <1>9

LEMMA InterpolationExact == FieldsInv => InterpolationIsExact
<1> SUFFICES ASSUME FieldsInv, NEW a \in Coefficients, NEW b \in Coefficients, NEW c \in Coefficients,
                    Linear(question.field, a, b, c),
                    solved.kind = "grid2d" =>
                       (Columns(solved) > 1 \/ b = 0) /\ (Rows(solved) > 1 \/ c = 0)
             PROVE  /\ AnswerTo({"at_point"}) =>
                          Exact(reply.value, a, b, c, question.from[1], question.from[2], 2)
                    /\ AnswerTo({"section"}) =>
                          LET D == IF reply.requested > 1 THEN reply.requested - 1 ELSE 1
                              along(s, k) == question.from[s] * D + k * (question.to[s] - question.from[s]) IN
                          \A i \in DOMAIN reply.at :
                             Exact(reply.values[i], a, b, c, along(1, reply.at[i]), along(2, reply.at[i]), D)
  BY DEF InterpolationIsExact, Exact
<1>1. a \in Int /\ b \in Int /\ c \in Int
  BY FieldsAssumption
<1>2. Sloped(solved, question.field, a, b, c)
  BY DEF Linear, Sloped
<1>3. ASSUME AnswerTo({"at_point"})
      PROVE  Exact(reply.value, a, b, c, question.from[1], question.from[2], 2)
  <2>1. /\ Sound(solved) /\ question \in Query /\ question.op # "hotspots" /\ question.op = "at_point"
        /\ reply = Answer(solved, question) /\ Is(Answer(solved, question))
    BY <1>3, Answered
  <2>2. /\ Unloadable(solved, question.field) = "no" /\ Len(question.from) = 2
        /\ reply = AtPoint(solved, question.field, question.from[1], question.from[2], 2)
    BY <2>1, AnswerIs
  <2>3. question.from[1] \in Int /\ question.from[2] \in Int /\ 2 \in Nat \ {0}
    <3>1. question.from \in Seq(Int)
      BY <2>1 DEF Query
    <3> QED
      BY <2>2, <3>1
  <2> QED
    BY <1>1, <1>2, <2>1, <2>2, <2>3, AtPointIsExact
<1>4. ASSUME AnswerTo({"section"}), NEW i \in DOMAIN reply.at
      PROVE  LET D == IF reply.requested > 1 THEN reply.requested - 1 ELSE 1
                 along(s, k) == question.from[s] * D + k * (question.to[s] - question.from[s]) IN
             Exact(reply.values[i], a, b, c, along(1, reply.at[i]), along(2, reply.at[i]), D)
  <2>1. /\ Sound(solved) /\ question \in Query /\ question.op # "hotspots" /\ question.op = "section"
        /\ reply = Answer(solved, question) /\ Is(Answer(solved, question))
    BY <1>4, Answered
  <2>2. /\ Unloadable(solved, question.field) = "no" /\ Len(question.from) = 2 /\ Len(question.to) = 2
        /\ reply = Section(solved, question.field, question)
    BY <2>1, AnswerIs
  <2> DEFINE D == IF reply.requested > 1 THEN reply.requested - 1 ELSE 1
             k == reply.at[i]
             X == question.from[1] * D + k * (question.to[1] - question.from[1])
             Y == question.from[2] * D + k * (question.to[2] - question.from[2])
             told == SectionAt(solved, question.field, question, reply.requested, k)
  <2>3. reply.requested \in 1..MaxSamples /\ k \in Int /\ Is(told) /\ reply.values[i] = told.value
    BY <2>1, <2>2, SectionReads
  <2>4. told = AtPoint(solved, question.field, X, Y, D)
    BY DEF SectionAt
  <2>5. D \in Nat \ {0}
    BY <2>3, FieldsAssumption
  <2> HIDE DEF D, k, told
  <2>6. X \in Int /\ Y \in Int
    <3>1. /\ question.from[1] \in Int /\ question.from[2] \in Int
          /\ question.to[1] \in Int /\ question.to[2] \in Int
      <4>1. question.from \in Seq(Int) /\ question.to \in Seq(Int)
        BY <2>1 DEF Query
      <4> QED
        BY <2>2, <4>1
    <3>2. question.to[1] - question.from[1] \in Int /\ question.to[2] - question.from[2] \in Int
      BY <3>1
    <3>3. /\ k * (question.to[1] - question.from[1]) \in Int
          /\ k * (question.to[2] - question.from[2]) \in Int
      BY <2>3, <3>2, Products
    <3>4. question.from[1] * D \in Int /\ question.from[2] * D \in Int
      BY <2>5, <3>1
    <3> QED
      BY <3>3, <3>4
  <2> HIDE DEF X, Y
  <2>7. Exact(told.value, a, b, c, X, Y, D)
    BY <1>1, <1>2, <2>1, <2>2, <2>3, <2>4, <2>5, <2>6, AtPointIsExact
  <2> QED
    BY <2>3, <2>7 DEF D, k, X, Y
<1> QED
  BY <1>3, <1>4

\* Whatever is asked of a result, the answer is of what was solved and not of what is
\* masked, lies in its bounds, keeps to its budget and is exact of a linear field
\* (fields.py).
THEOREM FieldsRight == FieldsSpec => []FieldsAreRight
<1>1. FieldsInv => FieldsAreRight
  BY FillerIsNever, AnswersBounded, HotspotsSpread, ReadingsSpread, MetricsHonest, InterpolationExact
     DEF FieldsAreRight
<1> QED
  BY <1>1, FieldsInvHolds, PTL
=============================================================================
