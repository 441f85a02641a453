----------------------------- MODULE SolverLoops -----------------------------
(***************************************************************************)
(* What the solvers that come with the server do between the call of       *)
(* `solve` and its return, as far as a job can see it: the order in which  *)
(* they check for cancellation, report progress, index frames, meet or     *)
(* miss their tolerance, and what they say about it at the end.  Each      *)
(* adapter is a short program of checks, reports, pieces of work and       *)
(* loops; the numerics are one of three residuals.                         *)
(***************************************************************************)
EXTENDS Naturals, Sequences

CONSTANTS
    Caps,        \* values of the parameters that cap a loop
    Cadences,    \* values of `report_every`
    Savings,     \* values of `save_every`; 0 writes no frame
    MaxFrames    \* frames.MAX_FRAMES

ASSUME SolverLoopsAssumption ==
    /\ Caps \subseteq Nat \ {0} /\ Cadences \subseteq Nat \ {0} /\ Savings \subseteq Nat
    /\ MaxFrames \in Nat

Params == [cap : Caps, every : Cadences, kutta : BOOLEAN, save : Savings]

-----------------------------------------------------------------------------
(* What a program is made of *)

Check         == [do |-> "check"]                 \* ctx.check_cancelled
Work          == [do |-> "work"]                  \* may raise
Report(n, of) == [do |-> "report", at |-> n, of |-> of]

\* Sweeps until the residual is small, reported every so often and at the cap.
RedBlack(p) == [do |-> "sweeps", cap |-> p.cap, every |-> p.every, of |-> p.cap]

\* The same, each iteration reported.
Iterations(p) == [do |-> "sweeps", cap |-> p.cap, every |-> 1, of |-> p.cap]

\* Time steps: as many as asked for, however each of them went.
Steps(p) == [do |-> "steps", cap |-> p.cap, every |-> 1, of |-> p.cap]

\* One relaxation of two against a clock they share.
Relaxation(p, of) == [do |-> "clocked", cap |-> p.cap, every |-> p.every, of |-> of]

\* The stages of a direct solve: meshing, assembling, solving and post-processing, all but the first
\* behind a check, and the report that says it is done.
Staged ==
    <<Report(0, 4), Work, Check, Report(1, 4), Work, Check, Report(2, 4), Work,
      Check, Report(3, 4), Work, Report(4, 4)>>

-----------------------------------------------------------------------------
(* The adapters.  `folds`: its residual is the larger of two half sweeps, as
   Python's max has it.  `says`: what it makes of its residuals.            *)

Adapter(program, declares, folds, says) ==
    [program |-> program, declares |-> declares, folds |-> folds, says |-> says]

MockHeat(p) == Adapter(<<Work, RedBlack(p), Work>>, "return", TRUE, "last")

MockMagnetostatics(p) == Adapter(<<Work, RedBlack(p), Work>>, "return", FALSE, "last")

MockElectrostatics(p) == Adapter(<<Work, RedBlack(p), Work>>, "return", TRUE, "last")

\* conjugate_gradients may also lose its direction (see LoseDirection).
MockElasticity(p) == Adapter(<<Work, RedBlack(p), Work>>, "return", FALSE, "last")

MockNonlinearHeat(p) == Adapter(<<Work, Iterations(p), Work>>, "fail", FALSE, "last")

MockLaplace(p) ==
    Adapter(IF p.kutta
            THEN <<Work, Relaxation(p, 2 * p.cap), Relaxation(p, 2 * p.cap), Work>>
            ELSE <<Work, Relaxation(p, p.cap), Work>>,
            "return", FALSE, "stages")

MockTransientHeat(p) == Adapter(<<Work, Steps(p), Work>>, "return", TRUE, "steps")

MockModal(p) ==
    Adapter(<<Work, Report(0, 3), Work, Check, Report(1, 3), Work, Check, Report(2, 3), Work,
              Report(3, 3)>>,
            "none", FALSE, "direct")

DolfinxHeat(p) == Adapter(Staged, "none", FALSE, "direct")

DolfinxMagnetostatics(p) == Adapter(Staged, "none", FALSE, "direct")

DolfinxElectrostatics(p) == Adapter(Staged, "none", FALSE, "direct")

DolfinxElasticity(p) == Adapter(Staged, "none", FALSE, "direct")

DolfinxModal(p) == Adapter(Staged, "none", FALSE, "direct")

\* Its total counts stages that report, so the first one is 1 and the last is
\* followed by a report of the same number.
DolfinxPotentialFlow(p) ==
    Adapter(IF p.kutta
            THEN <<Report(1, 6), Work, Check, Report(2, 6), Work, Report(3, 6), Work,
                   Check, Report(4, 6), Work, Check, Report(5, 6), Work,
                   Check, Report(6, 6), Work, Report(6, 6)>>
            ELSE <<Report(1, 4), Work, Check, Report(2, 4), Work, Report(3, 4), Work,
                   Check, Report(4, 4), Work, Report(4, 4)>>,
            "none", FALSE, "direct")

\* Three stages, and Newton's own count within the third.
DolfinxNonlinearHeat(p) ==
    Adapter(<<Report(0, 3), Work, Check, Report(1, 3), Work, Check, Report(2, 3),
              Iterations(p), Work, Report(3, 3)>>,
            "fail", FALSE, "last")

DolfinxTransientHeat(p) ==
    Adapter(<<Report(0, p.cap), Work, Check, Work, Steps(p), Work>>, "none", FALSE, "direct")

Registered(n, p) ==
    CASE n = "mock.heat2d" -> MockHeat(p)
      [] n = "mock.magnetostatics2d" -> MockMagnetostatics(p)
      [] n = "mock.electrostatics_axi2d" -> MockElectrostatics(p)
      [] n = "mock.elasticity2d" -> MockElasticity(p)
      [] n = "mock.heat_nonlinear2d" -> MockNonlinearHeat(p)
      [] n = "mock.laplace2d" -> MockLaplace(p)
      [] n = "mock.transient_heat2d" -> MockTransientHeat(p)
      [] n = "mock.modal2d" -> MockModal(p)
      [] n = "dolfinx.heat2d" -> DolfinxHeat(p)
      [] n = "dolfinx.magnetostatics2d" -> DolfinxMagnetostatics(p)
      [] n = "dolfinx.electrostatics_axi2d" -> DolfinxElectrostatics(p)
      [] n = "dolfinx.elasticity2d" -> DolfinxElasticity(p)
      [] n = "dolfinx.modal2d" -> DolfinxModal(p)
      [] n = "dolfinx.potential_flow2d" -> DolfinxPotentialFlow(p)
      [] n = "dolfinx.heat_nonlinear2d" -> DolfinxNonlinearHeat(p)
      [] n = "dolfinx.transient_heat2d" -> DolfinxTransientHeat(p)

SolverNames ==
    {"mock.heat2d", "mock.magnetostatics2d", "mock.electrostatics_axi2d", "mock.elasticity2d",
     "mock.heat_nonlinear2d", "mock.laplace2d", "mock.transient_heat2d", "mock.modal2d",
     "dolfinx.heat2d", "dolfinx.magnetostatics2d", "dolfinx.electrostatics_axi2d",
     "dolfinx.elasticity2d", "dolfinx.modal2d", "dolfinx.potential_flow2d",
     "dolfinx.heat_nonlinear2d", "dolfinx.transient_heat2d"}

-----------------------------------------------------------------------------
VARIABLES
    solver, params,   \* which one, and with what
    place,            \* the instruction, and within a loop what comes next and the sweeps so far
    ticks,            \* the count mock.laplace2d's two relaxations share
    shown,            \* the last progress reported
    found,            \* the residual, that of each finished loop, and the steps that were capped
    frames,           \* frames indexed
    cancelled,        \* the job's cancel event
    outcome,
    noted             \* history: work since the cancel, whether a loop or step fell short, any nan

loopVars == <<solver, params, place, ticks, shown, found, frames, cancelled, outcome, noted>>

A           == Registered(solver, params)
Instruction == A.program[place.pc]
Running     == outcome = "solving" /\ place.pc <= Len(A.program)

\* What a half sweep can leave behind.  mock.laplace2d's second relaxation starts
\* from zeros and a one, whatever was asked, and averages stay between them.
Residuals ==
    IF A.says = "direct" THEN {"small"}
    ELSE {"small", "large"} \cup (IF found.stages = <<>> THEN {"nan"} ELSE {})

\* Python's max(a, b): the first, unless the second is greater; nothing is
\* greater than nan, and nan than nothing.
PyMax(a, b) == IF a = "small" /\ b = "large" THEN b ELSE a

At(pc) == [pc |-> pc, phase |-> "check", sweep |-> 0]

LoopsInit ==
    /\ solver \in SolverNames
    /\ params \in Params
    /\ place = At(1)
    /\ ticks = 0
    /\ shown = [at |-> 0, of |-> 0]
    \* conjugate_gradients starts from the load's own residual, the others from infinity.
    /\ \E r \in IF solver = "mock.elasticity2d" THEN {"small", "large"} ELSE {"large"} :
         found = [residual |-> r, stages |-> <<>>, capped |-> 0]
    /\ frames = 0
    /\ cancelled = FALSE
    /\ outcome = "solving"
    /\ noted = [overrun |-> 0, short |-> FALSE, nan |-> FALSE]

-----------------------------------------------------------------------------
\* The pieces of work begun or under way after the cancel, with one more.
Worked == noted.overrun + (IF cancelled THEN 1 ELSE 0)

CheckCancelled ==
    /\ Running
    /\ \/ Instruction.do = "check"
       \/ Instruction.do \in {"sweeps", "steps", "clocked"} /\ place.phase = "check"
    /\ IF cancelled
       THEN outcome' = "cancelled" /\ UNCHANGED place
       ELSE /\ place' = IF Instruction.do = "check" THEN At(place.pc + 1)
                        ELSE [place EXCEPT !.phase = "sweep"]
            /\ UNCHANGED outcome
    /\ UNCHANGED <<solver, params, ticks, shown, found, frames, cancelled, noted>>

Progress ==
    /\ Running /\ Instruction.do = "report"
    /\ shown' = [at |-> Instruction.at, of |-> Instruction.of]
    /\ place' = At(place.pc + 1)
    /\ UNCHANGED <<solver, params, ticks, found, frames, cancelled, outcome, noted>>

\* Mesh, assemble, solve or write; what is wrong with the model surfaces here.
DoWork ==
    /\ Running /\ Instruction.do = "work"
    /\ \/ place' = At(place.pc + 1) /\ UNCHANGED outcome
       \/ outcome' = "failed" /\ UNCHANGED place
    /\ noted' = [noted EXCEPT !.overrun = Worked]
    /\ UNCHANGED <<solver, params, ticks, shown, found, frames, cancelled>>

\* Sweep's report restarting with each relaxation.
ReportAtRelaxation(n) == [at |-> n, of |-> Instruction.of]

\* What a sweep reports as its number: _Clock counts across relaxations.
ReportAt(n) ==
    [at |-> IF Instruction.do = "clocked" THEN ticks + 1 ELSE n, of |-> Instruction.of]

\* Whether the n-th sweep is reported.  The clock also reports the sweep that settles.
Due(n, residual) ==
    LET count == IF Instruction.do = "clocked" THEN ticks + 1 ELSE n IN
    \/ count % Instruction.every = 0
    \/ n = Instruction.cap
    \/ Instruction.do = "clocked" /\ residual = "small"

\* One sweep, or one time step with the sweeps inside it.
Sweep ==
    /\ Running /\ place.phase = "sweep"
    /\ \E first, second \in Residuals :
         LET n        == place.sweep + 1
             residual == IF A.folds THEN PyMax(PyMax("small", first), second) ELSE first
             met      == first = "small" /\ (A.folds => second = "small")
             step     == Instruction.do = "steps"
             over     == n = Instruction.cap \/ (~step /\ residual = "small")
             framed   == step /\ params.save > 0 /\ n % params.save = 0 IN
         /\ A.folds \/ second = first
         /\ found' = [residual |-> residual,
                      stages   |-> IF over THEN Append(found.stages, residual) ELSE found.stages,
                      capped   |-> found.capped + (IF step /\ residual # "small" THEN 1 ELSE 0)]
         /\ noted' = [overrun |-> Worked,
                      short   |-> noted.short \/ ((over \/ step) /\ ~met),
                      nan     |-> noted.nan \/ "nan" \in {first, second}]
         /\ ticks' = ticks + 1
         /\ IF framed /\ frames = MaxFrames
            THEN outcome' = "failed" /\ UNCHANGED <<place, shown, frames>>
            ELSE /\ frames' = frames + (IF framed THEN 1 ELSE 0)
                 /\ shown' = IF Due(n, residual) THEN ReportAt(n) ELSE shown
                 /\ place' = IF over THEN At(place.pc + 1)
                             ELSE [place EXCEPT !.phase = "check", !.sweep = n]
                 /\ UNCHANGED outcome
    /\ UNCHANGED <<solver, params, cancelled>>

\* The direction has no curvature left: conjugate_gradients stops where it is,
\* without a report.
LoseDirection ==
    /\ Running /\ place.phase = "sweep" /\ solver = "mock.elasticity2d"
    /\ found' = [found EXCEPT !.stages = Append(@, found.residual)]
    /\ noted' = [overrun |-> Worked, short |-> noted.short \/ found.residual # "small",
                 nan |-> noted.nan]
    /\ place' = At(place.pc + 1)
    /\ UNCHANGED <<solver, params, ticks, shown, frames, cancelled, outcome>>

\* Converged going by the residual at hand alone.
ConvergedAtLast == A.says = "direct" \/ found.residual = "small"

\* The residual of mock.laplace2d, the larger of its relaxations' if there were two.
Relaxed ==
    IF Len(found.stages) = 1 THEN found.stages[1] ELSE PyMax(found.stages[1], found.stages[2])

\* The adapter's `converged`.
Converged ==
    CASE A.says = "last"   -> found.residual = "small"
      [] A.says = "stages" -> Relaxed = "small"
      [] A.says = "steps"  -> found.capped = 0
      [] A.says = "direct" -> TRUE

\* The solve returns and check_declared_convergence has its say.
Return ==
    /\ outcome = "solving" /\ place.pc > Len(A.program)
    /\ outcome' = IF Converged THEN "converged"
                  ELSE IF A.declares = "return" THEN "unconverged" ELSE "failed"
    /\ UNCHANGED <<solver, params, place, ticks, shown, found, frames, cancelled, noted>>

\* Somebody cancels the job, at any moment.
CancelSolve ==
    /\ outcome = "solving" /\ ~cancelled
    /\ cancelled' = TRUE
    /\ UNCHANGED <<solver, params, place, ticks, shown, found, frames, outcome, noted>>

LoopsNext ==
    CheckCancelled \/ Progress \/ DoWork \/ Sweep \/ LoseDirection \/ Return \/ CancelSolve

LoopsSpec == LoopsInit /\ [][LoopsNext]_loopVars

-----------------------------------------------------------------------------
(* Properties *)

\* A result that says it converged met its tolerance in every relaxation and
\* every time step.  A field that turned into nan is where this ends: the half
\* sweeps of the red-black adapters are folded with Python's max, which drops it.
ConvergedIsMet == outcome = "converged" /\ ~(A.folds /\ noted.nan) => ~noted.short

\* A capability that declares `fail` returns no iterate short of its tolerance.
FailIsFail == A.declares = "fail" /\ noted.short => outcome # "unconverged" /\ outcome # "converged"

\* Once cancelled, a solve finishes the piece of work it is in and at most one more.
CancelsInTime == noted.overrun <= 2

\* mock.laplace2d reports its last sweep, wherever the cadence fell.
LastSweepIsTold ==
    solver = "mock.laplace2d" /\ outcome \in {"converged", "unconverged"} => shown.at = ticks

SolveIsHonest == ConvergedIsMet /\ FailIsFail /\ CancelsInTime /\ LastSweepIsTold

\* Progress never goes back nor past its total, across relaxations, stages and
\* steps, and the total stays what it was.  Newton's adapter is the exception:
\* its own count comes between two of its stages.
ProgressGoesOn ==
    [][shown'.of # 0 =>
         /\ shown'.at <= shown'.of
         /\ solver # "dolfinx.heat_nonlinear2d" =>
              shown.at <= shown'.at /\ shown.of \in {0, shown'.of}]_loopVars
=============================================================================
